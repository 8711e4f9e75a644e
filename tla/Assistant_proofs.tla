-------------------------- MODULE Assistant_proofs ---------------------------
(***************************************************************************)
(* Proofs about Assistant, for any handlers, users, sessions, replies and  *)
(* limits.                                                                 *)
(***************************************************************************)
EXTENDS Assistant, FiniteSetTheorems, TLAPS

(* The types of the variables; managers are only added, and whoever waits  *)
(* for a model has one, and rounds left.                                   *)
Kinds == {"user", "assistant", "use", "results"}
Providers == [kind : {"ollama", "anthropic"}, no : Nat]
Managers == [auth : Auths, provider : Providers,
             sessions : UNION {[S -> Seq(Kinds)] : S \in SUBSET Sessions}]
Chats == {Idle}
    \cup [pc : {"check"}, auth : Auths, session : Sessions, asked : {"ollama", "anthropic"}]
    \cup [pc : {"model"}, auth : Auths, at : DOMAIN managers, session : Sessions, round : 1 .. MaxIterations]
TypeOK ==
    /\ provider \in Providers
    /\ managers \in Seq(Managers)
    /\ DOMAIN registered \subseteq Users
    /\ \A u \in DOMAIN registered : registered[u] \in DOMAIN managers
    /\ chats \in [Handlers -> Chats]

Inv == TypeOK /\ RegisteredUseCurrent

-----------------------------------------------------------------------------
(* Messages and managers                                                   *)

(* A session's messages, also those of a session not yet begun.            *)
LEMMA HistoryType ==
    ASSUME NEW m \in Managers, NEW s \in Sessions
    PROVE  History(m, s) \in Seq(Kinds)
<1>1. PICK S \in SUBSET Sessions : m.sessions \in [S -> Seq(Kinds)]
  BY DEF Managers
<1>2. <<>> \in Seq(Kinds)
  OBVIOUS
<1> QED
  BY <1>1, <1>2 DEF History

(* Writing a session's messages changes nothing else of a manager.         *)
LEMMA WithHistoryType ==
    ASSUME NEW m \in Managers, NEW s \in Sessions, NEW q \in Seq(Kinds)
    PROVE  LET n == WithHistory(m, s, q)
           IN  n \in Managers /\ n.auth = m.auth /\ n.provider = m.provider
<1> DEFINE f == [t \in DOMAIN m.sessions \cup {s} |-> IF t = s THEN q ELSE m.sessions[t]]
           n == [m EXCEPT !.sessions = f]
<1>1. PICK S \in SUBSET Sessions : m.sessions \in [S -> Seq(Kinds)]
  BY DEF Managers
<1>2. S \cup {s} \in SUBSET Sessions /\ f \in [S \cup {s} -> Seq(Kinds)]
  BY <1>1
<1>3. f \in UNION {[T -> Seq(Kinds)] : T \in SUBSET Sessions}
  BY <1>2
<1> HIDE DEF f
<1>4. n = [auth |-> m.auth, provider |-> m.provider, sessions |-> f]
  BY DEF Managers
<1>5. n \in Managers /\ n.auth = m.auth /\ n.provider = m.provider
  BY <1>3, <1>4 DEF Managers
<1>6. WithHistory(m, s, q) = n
  BY DEF WithHistory, f
<1> QED
  BY <1>5, <1>6

LEMMA NewManagerType ==
    ASSUME NEW auth \in Auths, NEW p \in Providers
    PROVE  /\ Manager(auth, p) \in Managers
           /\ Manager(auth, p).auth = auth /\ Manager(auth, p).provider = p
<1>1. <<>> \in [{} -> Seq(Kinds)]
  OBVIOUS
<1>2. {} \in SUBSET Sessions
  OBVIOUS
<1>3. <<>> \in UNION {[T -> Seq(Kinds)] : T \in SUBSET Sessions}
  BY <1>1, <1>2
<1> QED
  BY <1>3 DEF Manager, Managers

LEMMA AuthUser == ASSUME NEW auth \in Auths PROVE auth.user \in Users
BY DEF Auths, Auth

(* Looking up a user's manager, and making it when there is none.          *)
LEMMA LookedUp ==
    ASSUME Inv, NEW auth \in Auths
    PROVE  LET ms == ManagersFor(auth)
               reg == RegisteredFor(auth)
           IN  /\ ms \in Seq(Managers)
               /\ DOMAIN managers \subseteq DOMAIN ms
               /\ DOMAIN reg \subseteq Users /\ auth.user \in DOMAIN reg
               /\ \A u \in DOMAIN reg : /\ reg[u] \in DOMAIN ms
                                        /\ ms[reg[u]].provider = provider
                                        /\ ms[reg[u]].auth.user = u
<1> DEFINE new == Append(managers, Manager(auth, provider))
<1>1. CASE HasManager(auth)
  BY <1>1, AuthUser DEF Inv, TypeOK, RegisteredUseCurrent, HasManager, ManagersFor, RegisteredFor
<1>2. CASE ~ HasManager(auth)
  <2>1. Manager(auth, provider) \in Managers /\ managers \in Seq(Managers)
    BY NewManagerType DEF Inv, TypeOK
  <2>2. /\ new \in Seq(Managers) /\ DOMAIN managers = 1 .. Len(managers)
        /\ DOMAIN new = 1 .. Len(managers) + 1 /\ Len(managers) \in Nat
        /\ \A i \in DOMAIN managers : new[i] = managers[i]
        /\ new[Len(managers) + 1] = Manager(auth, provider)
    BY <2>1
  <2>3. Manager(auth, provider).auth = auth /\ Manager(auth, provider).provider = provider
    BY NewManagerType DEF Inv, TypeOK
  <2>4. ManagersFor(auth) = new
    BY <1>2 DEF ManagersFor
  <2>5. RegisteredFor(auth) = [u \in DOMAIN registered \cup {auth.user} |->
                                 IF u = auth.user THEN Len(managers) + 1 ELSE registered[u]]
    BY <1>2 DEF RegisteredFor
  <2>6. auth.user \in Users
    BY AuthUser
  <2> HIDE DEF new
  <2> QED
    BY <2>2, <2>3, <2>4, <2>5, <2>6 DEF Inv, TypeOK, RegisteredUseCurrent
<1> QED
  BY <1>1, <1>2

(* A change of one manager's messages keeps the invariant, whoever waits.  *)
LEMMA Written ==
    ASSUME NEW ms \in Seq(Managers), NEW at \in DOMAIN ms, NEW s \in Sessions,
           NEW q \in Seq(Kinds)
    PROVE  LET w == [ms EXCEPT ![at] = WithHistory(ms[at], s, q)]
           IN  /\ w \in Seq(Managers) /\ DOMAIN w = DOMAIN ms
               /\ \A i \in DOMAIN ms : w[i].auth = ms[i].auth /\ w[i].provider = ms[i].provider
<1> DEFINE n == WithHistory(ms[at], s, q)
           w == [ms EXCEPT ![at] = n]
<1>1. ms[at] \in Managers
  OBVIOUS
<1>2. n \in Managers /\ n.auth = ms[at].auth /\ n.provider = ms[at].provider
  BY <1>1, WithHistoryType
<1> HIDE DEF n
<1>3. w \in Seq(Managers) /\ DOMAIN w = DOMAIN ms
  BY <1>2
<1>4. \A i \in DOMAIN ms : w[i].auth = ms[i].auth /\ w[i].provider = ms[i].provider
  BY <1>2
<1> QED
  BY <1>3, <1>4 DEF n

-----------------------------------------------------------------------------
(* The steps                                                               *)

LEMMA InitInv == Init => Inv
<1> SUFFICES ASSUME Init PROVE Inv
  OBVIOUS
<1>1. provider \in Providers
  BY DEF Init, Providers
<1>2. managers \in Seq(Managers) /\ DOMAIN registered = {}
  BY DEF Init
<1>3. chats \in [Handlers -> Chats]
  BY DEF Init, Chats
<1> QED
  BY <1>1, <1>2, <1>3 DEF Inv, TypeOK, RegisteredUseCurrent

(* A chat that waits still may, when managers are only added.              *)
LEMMA ChatsStay ==
    ASSUME Inv, DOMAIN managers \subseteq DOMAIN managers', NEW h \in Handlers, NEW c \in Chats',
           chats' = [chats EXCEPT ![h] = c]
    PROVE  (chats \in [Handlers -> Chats])'
<1>1. Chats \subseteq Chats'
  BY DEF Chats, Providers, Managers, Auths
<1> QED
  BY <1>1 DEF Inv, TypeOK

LEMMA AskInv ==
    ASSUME Inv, NEW h \in Handlers, NEW auth \in Auths, NEW s \in Sessions, Ask(h, auth, s)
    PROVE  Inv'
<1> DEFINE c == [pc |-> "check", auth |-> auth, session |-> s, asked |-> provider.kind]
<1>1. chats' = [chats EXCEPT ![h] = c] /\ UNCHANGED <<provider, managers, registered>>
  BY DEF Ask
<1>2. c \in Chats'
  BY <1>1 DEF Chats, Inv, TypeOK, Providers
<1>3. (chats \in [Handlers -> Chats])'
  BY <1>1, <1>2, ChatsStay
<1> QED
  BY <1>1, <1>3 DEF Inv, TypeOK, RegisteredUseCurrent

LEMMA EndInv ==
    ASSUME Inv, NEW h \in Handlers, chats' = [chats EXCEPT ![h] = Idle],
           UNCHANGED <<provider, managers, registered>>
    PROVE  Inv'
<1>1. Idle \in Chats'
  BY DEF Chats
<1>2. (chats \in [Handlers -> Chats])'
  BY <1>1, ChatsStay
<1> QED
  BY <1>2 DEF Inv, TypeOK, RegisteredUseCurrent

LEMMA CheckedInv == ASSUME Inv, NEW h \in Handlers, Checked(h) PROVE Inv'
<1> DEFINE auth == chats[h].auth
           s == chats[h].session
           at == RegisteredFor(auth)[auth.user]
           ms == ManagersFor(auth)
           m == ms[at]
           q == Append(History(m, s), "user")
           c == [pc |-> "model", auth |-> auth, at |-> at, session |-> s, round |-> 1]
<1>1. /\ registered' = RegisteredFor(auth)
      /\ managers' = [ms EXCEPT ![at] = WithHistory(m, s, q)]
      /\ chats' = [chats EXCEPT ![h] = c]
      /\ UNCHANGED provider
  BY DEF Checked
<1>2. auth \in Auths /\ s \in Sessions
  BY DEF Checked, Inv, TypeOK, Chats, Idle
<1>3. /\ ms \in Seq(Managers) /\ DOMAIN managers \subseteq DOMAIN ms
      /\ DOMAIN registered' \subseteq Users /\ at \in DOMAIN ms
      /\ \A u \in DOMAIN registered' : /\ registered'[u] \in DOMAIN ms
                                       /\ ms[registered'[u]].provider = provider
                                       /\ ms[registered'[u]].auth.user = u
  BY <1>1, <1>2, LookedUp
<1> HIDE DEF auth, s, at, ms
<1>4. m \in Managers
  BY <1>3
<1>5. q \in Seq(Kinds)
  <2>1. History(m, s) \in Seq(Kinds)
    BY <1>2, <1>4, HistoryType
  <2> QED
    BY <2>1 DEF Kinds
<1> HIDE DEF q
<1>6. /\ managers' \in Seq(Managers) /\ DOMAIN managers' = DOMAIN ms
      /\ \A i \in DOMAIN ms : managers'[i].auth = ms[i].auth /\ managers'[i].provider = ms[i].provider
  BY <1>1, <1>2, <1>3, <1>5, Written
<1>7. c \in Chats'
  <2>1. at \in DOMAIN managers' /\ 1 \in 1 .. MaxIterations
    BY <1>3, <1>6, AssistantAssumption
  <2> QED
    BY <1>2, <2>1 DEF Chats
<1>8. DOMAIN managers \subseteq DOMAIN managers'
  BY <1>3, <1>6
<1> HIDE DEF c, m
<1>9. (chats \in [Handlers -> Chats])'
  BY <1>1, <1>7, <1>8, ChatsStay
<1> QED
  BY <1>1, <1>3, <1>6, <1>9 DEF Inv, TypeOK, RegisteredUseCurrent

(* What is said is written to the manager the chat began with.             *)
LEMMA SayInv ==
    ASSUME Inv, NEW h \in Handlers, chats[h].pc = "model", NEW messages \in Seq(Kinds),
           Say(h, messages), UNCHANGED <<provider, registered>>,
           NEW c, chats' = [chats EXCEPT ![h] = c],
           c = Idle \/ (chats[h].round < MaxIterations /\ c = [chats[h] EXCEPT !.round = @ + 1])
    PROVE  Inv'
<1> DEFINE at == chats[h].at
           s == chats[h].session
           q == History(managers[at], s) \o messages
<1>1. /\ at \in DOMAIN managers /\ s \in Sessions /\ chats[h].round \in 1 .. MaxIterations
      /\ chats[h].auth \in Auths
      /\ chats[h] = [pc |-> "model", auth |-> chats[h].auth, at |-> at, session |-> s, round |-> chats[h].round]
  BY DEF Inv, TypeOK, Chats, Idle
<1>2. managers \in Seq(Managers) /\ managers[at] \in Managers
  BY <1>1 DEF Inv, TypeOK
<1>3. managers' = [managers EXCEPT ![at] = WithHistory(managers[at], s, q)]
  BY DEF Say, Messages
<1>4. q \in Seq(Kinds)
  <2>1. History(managers[at], s) \in Seq(Kinds)
    BY <1>1, <1>2, HistoryType
  <2> QED
    BY <2>1
<1> HIDE DEF q
<1>5. /\ managers' \in Seq(Managers) /\ DOMAIN managers' = DOMAIN managers
      /\ \A i \in DOMAIN managers : /\ managers'[i].auth = managers[i].auth
                                    /\ managers'[i].provider = managers[i].provider
  BY <1>1, <1>2, <1>3, <1>4, Written
<1>6. c \in Chats'
  <2>1. CASE c = Idle
    BY <2>1 DEF Chats
  <2>2. CASE chats[h].round < MaxIterations /\ c = [chats[h] EXCEPT !.round = @ + 1]
    <3>1. c = [pc |-> "model", auth |-> chats[h].auth, at |-> at, session |-> s, round |-> chats[h].round + 1]
      BY <1>1, <2>2
    <3>2. chats[h].round + 1 \in 1 .. MaxIterations
      BY <1>1, <2>2, AssistantAssumption
    <3> QED
      BY <1>1, <1>5, <3>1, <3>2 DEF Chats
  <2> QED
    BY <2>1, <2>2
<1>7. (chats \in [Handlers -> Chats])'
  BY <1>5, <1>6, ChatsStay
<1> QED
  BY <1>5, <1>7 DEF Inv, TypeOK, RegisteredUseCurrent

LEMMA AddedType ==
    ASSUME NEW raised, NEW round PROVE Added(raised, round) \in Seq(Kinds)
<1>1. /\ <<"use">> \in Seq(Kinds) /\ <<"use", "results">> \in Seq(Kinds)
      /\ <<"use", "results", "assistant">> \in Seq(Kinds)
  BY DEF Kinds
<1> QED
  BY <1>1 DEF Added

LEMMA AnswerTextInv == ASSUME Inv, NEW h \in Handlers, AnswerText(h) PROVE Inv'
<1>1. <<"assistant">> \in Seq(Kinds)
  BY DEF Kinds
<1> QED
  BY <1>1, SayInv DEF AnswerText

LEMMA CallToolsInv ==
    ASSUME Inv, NEW h \in Handlers, NEW calls, CallTools(h, calls) PROVE Inv'
<1> DEFINE auth == managers[chats[h].at].auth
           raised == {i \in Made(calls, auth) : Raises(calls[i], auth)} # {}
           round == chats[h].round
           c == IF raised \/ round = MaxIterations THEN Idle
                ELSE [chats[h] EXCEPT !.round = round + 1]
<1>1. /\ chats[h].pc = "model" /\ Say(h, Added(raised, round))
      /\ chats' = [chats EXCEPT ![h] = c]
      /\ UNCHANGED <<provider, registered>>
  BY DEF CallTools
<1>2. Added(raised, round) \in Seq(Kinds)
  BY AddedType
<1>3. round \in 1 .. MaxIterations
  BY <1>1 DEF Inv, TypeOK, Chats, Idle
<1>4. c = Idle \/ (chats[h].round < MaxIterations /\ c = [chats[h] EXCEPT !.round = @ + 1])
  BY <1>3, AssistantAssumption
<1> HIDE DEF raised, c
<1> QED
  BY <1>1, <1>2, <1>4, SayInv

LEMMA SwitchInv ==
    ASSUME Inv, NEW kind \in {"ollama", "anthropic"}, NEW given \in BOOLEAN, Switch(kind, given)
    PROVE  Inv'
<1>1. provider' \in Providers
  BY DEF Switch, Inv, TypeOK, Providers
<1>2. DOMAIN registered' = {} /\ UNCHANGED <<managers, chats>>
  BY DEF Switch
<1>3. Chats' = Chats
  BY <1>2 DEF Chats
<1> QED
  BY <1>1, <1>2, <1>3 DEF Inv, TypeOK, RegisteredUseCurrent

LEMMA GetHistoryInv == ASSUME Inv, NEW auth \in Auths, GetHistory(auth) PROVE Inv'
<1>1. /\ managers' = ManagersFor(auth) /\ registered' = RegisteredFor(auth)
      /\ UNCHANGED <<provider, chats>>
  BY DEF GetHistory
<1>2. /\ managers' \in Seq(Managers) /\ DOMAIN managers \subseteq DOMAIN managers'
      /\ DOMAIN registered' \subseteq Users
      /\ \A u \in DOMAIN registered' : /\ registered'[u] \in DOMAIN managers'
                                       /\ managers'[registered'[u]].provider = provider
                                       /\ managers'[registered'[u]].auth.user = u
  BY <1>1, LookedUp
<1>3. Chats \subseteq Chats'
  BY <1>2 DEF Chats
<1> QED
  BY <1>1, <1>2, <1>3 DEF Inv, TypeOK, RegisteredUseCurrent

-----------------------------------------------------------------------------
LEMMA StepInv == ASSUME Inv, [Next]_vars PROVE Inv'
<1>1. ASSUME NEW h \in Handlers, Served(h) PROVE Inv'
  BY <1>1, CheckedInv, AnswerTextInv, CallToolsInv, EndInv DEF Served, Unavailable, ProviderFails
<1>2. ASSUME UNCHANGED vars PROVE Inv'
  <2>1. UNCHANGED <<provider, managers, registered, chats>>
    BY <1>2 DEF vars
  <2>2. Chats' = Chats
    BY <2>1 DEF Chats
  <2> QED
    BY <2>1, <2>2 DEF Inv, TypeOK, RegisteredUseCurrent
<1> QED
  BY <1>1, <1>2, AskInv, SwitchInv, GetHistoryInv DEF Next

(* Types, and with them: a chat that waits for a model has a manager that  *)
(* exists and no more rounds behind it than the limit of the tool loop.    *)
THEOREM Invariance == Spec => []Inv
<1>1. Inv /\ [Next]_vars => Inv'
  BY StepInv
<1> QED
  BY <1>1, InitInv, PTL DEF Spec

(* Whoever starts a chat now talks to the provider that was chosen last,   *)
(* however the awaits of chats, switches and requests for a history        *)
(* interleave (_get_conversation and switch_provider in routes_chat.py).   *)
THEOREM ChatsUseTheCurrentProvider == Spec => []RegisteredUseCurrent
<1>1. Inv => RegisteredUseCurrent
  BY DEF Inv
<1> QED
  BY <1>1, Invariance, PTL

-----------------------------------------------------------------------------
(* Calls and their results                                                 *)

(* Messages that do not begin with results leave every call before them as *)
(* it was.                                                                 *)
LEMMA OpenOfMore ==
    ASSUME NEW q \in Seq(Kinds), NEW r \in Seq(Kinds), Len(r) > 0, r[1] # "results"
    PROVE  /\ Open(q) \subseteq 1 .. Len(q)
           /\ Open(q \o r) = Open(q) \cup {Len(q) + k : k \in Open(r)}
<1> DEFINE t == q \o r
<1>1. /\ t \in Seq(Kinds) /\ Len(t) = Len(q) + Len(r) /\ DOMAIN t = 1 .. Len(q) + Len(r)
      /\ \A i \in 1 .. Len(q) : t[i] = q[i]
      /\ \A i \in 1 .. Len(r) : t[Len(q) + i] = r[i]
      /\ DOMAIN q = 1 .. Len(q) /\ DOMAIN r = 1 .. Len(r) /\ Len(q) \in Nat /\ Len(r) \in Nat
  OBVIOUS
<1> HIDE DEF t
<1>2. PICK n \in Nat, l \in Nat : n = Len(q) /\ l = Len(r) /\ l > 0
  BY <1>1
<1>3. ASSUME NEW i \in Open(t) PROVE i \in Open(q) \/ \E k \in Open(r) : i = n + k
  <2>1. /\ i \in 1 .. n + l /\ t[i] = "use"
        /\ i + 1 \in 1 .. n + l => t[i + 1] # "results"
    BY <1>1, <1>2, <1>3 DEF Open
  <2>2. CASE i \in 1 .. n
    <3>1. q[i] = "use" /\ (i + 1 \in 1 .. n => q[i + 1] # "results")
      BY <1>1, <1>2, <2>1, <2>2
    <3> QED
      BY <1>1, <1>2, <2>2, <3>1 DEF Open
  <2>3. CASE i \notin 1 .. n
    <3>1. PICK k \in 1 .. l : i = n + k
      <4>1. i - n \in 1 .. l /\ i = n + (i - n)
        BY <1>2, <2>1, <2>3
      <4> QED
        BY <4>1
    <3>2. k + 1 \in 1 .. l => n + (k + 1) = i + 1 /\ i + 1 \in 1 .. n + l
      BY <3>1
    <3>3. r[k] = "use" /\ (k + 1 \in 1 .. l => r[k + 1] # "results")
      BY <1>1, <1>2, <2>1, <3>1, <3>2
    <3> QED
      BY <1>1, <1>2, <3>1, <3>3 DEF Open
  <2> QED
    BY <2>2, <2>3
<1>4. ASSUME NEW i \in Open(q) PROVE i \in Open(t)
  <2>1. i \in 1 .. n /\ q[i] = "use" /\ (i + 1 \in 1 .. n => q[i + 1] # "results")
    BY <1>1, <1>2, <1>4 DEF Open
  <2>2. i + 1 \in 1 .. n + l => t[i + 1] # "results"
    <3>1. CASE i + 1 \in 1 .. n
      BY <1>1, <1>2, <2>1, <3>1
    <3>2. CASE i = n
      BY <1>1, <1>2, <3>2
    <3> QED
      BY <1>2, <2>1, <3>1, <3>2
  <2> QED
    BY <1>1, <1>2, <2>1, <2>2 DEF Open
<1>5. ASSUME NEW k \in Open(r) PROVE n + k \in Open(t)
  <2>1. k \in 1 .. l /\ r[k] = "use" /\ (k + 1 \in 1 .. l => r[k + 1] # "results")
    BY <1>1, <1>2, <1>5 DEF Open
  <2>2. n + k \in 1 .. n + l /\ t[n + k] = "use"
    BY <1>1, <1>2, <2>1
  <2>3. (n + k) + 1 \in 1 .. n + l => t[(n + k) + 1] # "results"
    <3>1. (n + k) + 1 = n + (k + 1) /\ ((n + k) + 1 \in 1 .. n + l => k + 1 \in 1 .. l)
      BY <2>1
    <3> QED
      BY <1>1, <1>2, <2>1, <3>1
  <2> QED
    BY <1>1, <1>2, <2>2, <2>3 DEF Open
<1>6. Open(q) \subseteq 1 .. n
  BY <1>1, <1>2 DEF Open
<1> QED
  BY <1>2, <1>3, <1>4, <1>5, <1>6 DEF t

(* What a chat adds to a history leaves a call unanswered when execute()   *)
(* ended it, and otherwise none.                                           *)
LEMMA OpenOfAdded ==
    /\ Open(<<"user">>) = {} /\ Open(<<"assistant">>) = {} /\ Open(<<"use">>) = {1}
    /\ Open(<<"use", "results">>) = {} /\ Open(<<"use", "results", "assistant">>) = {}
BY DEF Open

LEMMA OneUnanswered ==
    ASSUME NEW ms, NEW z \in Unanswered(ms)
    PROVE  \E i \in DOMAIN ms : \E x \in DOMAIN ms[i].sessions : \E k \in Open(ms[i].sessions[x]) :
               z = <<i, x, k>>
<1>1. PICK i \in DOMAIN ms : z \in UNION {{<<i, x, k>> : k \in Open(ms[i].sessions[x])} : x \in DOMAIN ms[i].sessions}
  BY DEF Unanswered
<1>2. PICK x \in DOMAIN ms[i].sessions : z \in {<<i, x, k>> : k \in Open(ms[i].sessions[x])}
  BY <1>1
<1> QED
  BY <1>2

LEMMA IsUnanswered ==
    ASSUME NEW ms, NEW i \in DOMAIN ms, NEW x \in DOMAIN ms[i].sessions, NEW k \in Open(ms[i].sessions[x])
    PROVE  <<i, x, k>> \in Unanswered(ms)
<1>1. <<i, x, k>> \in {<<i, x, j>> : j \in Open(ms[i].sessions[x])}
  OBVIOUS
<1>2. <<i, x, k>> \in UNION {{<<i, y, j>> : j \in Open(ms[i].sessions[y])} : y \in DOMAIN ms[i].sessions}
  BY <1>1
<1> QED
  BY <1>2 DEF Unanswered

LEMMA WrittenOpen ==
    ASSUME NEW ms \in Seq(Managers), NEW at \in DOMAIN ms, NEW s \in Sessions,
           NEW r \in Seq(Kinds), Len(r) > 0, r[1] # "results"
    PROVE  LET q == History(ms[at], s)
               w == [ms EXCEPT ![at] = WithHistory(ms[at], s, q \o r)]
           IN  /\ Open(r) = {} => Unanswered(w) = Unanswered(ms)
               /\ Open(r) = {1} => Unanswered(w) = Unanswered(ms) \cup {<<at, s, Len(q) + 1>>}
               /\ <<at, s, Len(q) + 1>> \notin Unanswered(ms)
<1> DEFINE q == History(ms[at], s)
           t == q \o r
           f == [x \in DOMAIN ms[at].sessions \cup {s} |-> IF x = s THEN t ELSE ms[at].sessions[x]]
           w == [ms EXCEPT ![at] = WithHistory(ms[at], s, t)]
<1>1. ms[at] \in Managers /\ ms[at] = [auth |-> ms[at].auth, provider |-> ms[at].provider, sessions |-> ms[at].sessions]
  <2>1. ms[at] \in Managers
    OBVIOUS
  <2> QED
    BY <2>1 DEF Managers
<1>2. q \in Seq(Kinds) /\ Len(q) \in Nat
  BY <1>1, HistoryType
<1>3. Open(q) \subseteq 1 .. Len(q) /\ Open(t) = Open(q) \cup {Len(q) + k : k \in Open(r)}
  BY <1>2, OpenOfMore
<1>4. DOMAIN w = DOMAIN ms /\ (\A i \in DOMAIN ms : i # at => w[i] = ms[i]) /\ w[at].sessions = f
  BY <1>1 DEF WithHistory
<1>5. IF s \in DOMAIN ms[at].sessions THEN q = ms[at].sessions[s] ELSE q = <<>>
  BY DEF History
<1> HIDE DEF q, t, w
<1>6. DOMAIN f = DOMAIN ms[at].sessions \cup {s} /\ f[s] = t
      /\ \A x \in DOMAIN ms[at].sessions : x # s => f[x] = ms[at].sessions[x]
  OBVIOUS
<1> HIDE DEF f
<1>7. s \notin DOMAIN ms[at].sessions => Open(q) = {}
  BY <1>5 DEF Open
<1>8. Unanswered(w) \subseteq Unanswered(ms) \cup {<<at, s, Len(q) + k>> : k \in Open(r)}
  <2> SUFFICES ASSUME NEW z \in Unanswered(w)
               PROVE  z \in Unanswered(ms) \cup {<<at, s, Len(q) + j>> : j \in Open(r)}
    OBVIOUS
  <2>1. PICK i \in DOMAIN w : \E x \in DOMAIN w[i].sessions : \E k \in Open(w[i].sessions[x]) : z = <<i, x, k>>
    BY OneUnanswered
  <2>2. PICK x \in DOMAIN w[i].sessions : \E k \in Open(w[i].sessions[x]) : z = <<i, x, k>>
    BY <2>1
  <2>3. PICK k \in Open(w[i].sessions[x]) : z = <<i, x, k>>
    BY <2>2
  <2>4. CASE i # at
    <3>1. i \in DOMAIN ms /\ w[i] = ms[i]
      BY <1>4, <2>4
    <3> QED
      BY <2>3, <3>1, IsUnanswered
  <2>5. CASE i = at /\ x # s
    <3>1. x \in DOMAIN ms[at].sessions /\ k \in Open(ms[at].sessions[x])
      BY <1>4, <1>6, <2>5
    <3> QED
      BY <2>5, <2>3, <3>1, IsUnanswered
  <2>6. CASE i = at /\ x = s
    <3>1. k \in Open(t)
      BY <1>4, <1>6, <2>6
    <3>2. CASE k \in Open(q)
      <4>1. s \in DOMAIN ms[at].sessions /\ k \in Open(ms[at].sessions[s])
        BY <1>5, <1>7, <3>2
      <4> QED
        BY <2>6, <2>3, <4>1, IsUnanswered
    <3>3. CASE k \notin Open(q)
      BY <1>3, <2>6, <2>3, <3>1, <3>3
    <3> QED
      BY <3>2, <3>3
  <2> QED
    BY <2>4, <2>5, <2>6
<1>9. Unanswered(ms) \subseteq Unanswered(w)
  <2> SUFFICES ASSUME NEW z \in Unanswered(ms) PROVE z \in Unanswered(w)
    OBVIOUS
  <2>1. PICK i \in DOMAIN ms : \E x \in DOMAIN ms[i].sessions : \E k \in Open(ms[i].sessions[x]) : z = <<i, x, k>>
    BY OneUnanswered
  <2>2. PICK x \in DOMAIN ms[i].sessions : \E k \in Open(ms[i].sessions[x]) : z = <<i, x, k>>
    BY <2>1
  <2>3. PICK k \in Open(ms[i].sessions[x]) : z = <<i, x, k>>
    BY <2>2
  <2>4. i \in DOMAIN w /\ x \in DOMAIN w[i].sessions /\ k \in Open(w[i].sessions[x])
    <3>1. CASE i # at
      BY <1>4, <3>1
    <3>2. CASE i = at /\ x # s
      BY <1>4, <1>6, <3>2
    <3>3. CASE i = at /\ x = s
      BY <1>3, <1>4, <1>5, <1>6, <3>3
    <3> QED
      BY <3>1, <3>2, <3>3
  <2> QED
    BY <2>3, <2>4, IsUnanswered
<1>10. {<<at, s, Len(q) + k>> : k \in Open(r)} \subseteq Unanswered(w)
  <2> SUFFICES ASSUME NEW k \in Open(r) PROVE <<at, s, Len(q) + k>> \in Unanswered(w)
    OBVIOUS
  <2>1. at \in DOMAIN w /\ s \in DOMAIN w[at].sessions /\ Len(q) + k \in Open(w[at].sessions[s])
    BY <1>3, <1>4, <1>6
  <2> QED
    BY <2>1, IsUnanswered
<1>11. <<at, s, Len(q) + 1>> \notin Unanswered(ms)
  <2> SUFFICES ASSUME <<at, s, Len(q) + 1>> \in Unanswered(ms) PROVE FALSE
    OBVIOUS
  <2>1. s \in DOMAIN ms[at].sessions /\ Len(q) + 1 \in Open(ms[at].sessions[s])
    BY OneUnanswered
  <2>2. Len(q) + 1 \in 1 .. Len(q)
    BY <1>3, <1>5, <2>1
  <2> QED
    BY <1>2, <2>2
<1>12. Unanswered(w) = Unanswered(ms) \cup {<<at, s, Len(q) + k>> : k \in Open(r)}
  BY <1>8, <1>9, <1>10
<1>13. Open(r) = {} => Unanswered(w) = Unanswered(ms)
  BY <1>12
<1>14. Open(r) = {1} => Unanswered(w) = Unanswered(ms) \cup {<<at, s, Len(q) + 1>>}
  BY <1>12
<1> QED
  BY <1>11, <1>13, <1>14 DEF w, t, q

(* There are finitely many calls without results, as many as chats that    *)
(* execute() ended.                                                        *)
AnswersInv ==
    /\ counts = [chats |-> counts.chats, others |-> counts.others, calls |-> counts.calls, died |-> counts.died]
    /\ counts.died \in Nat
    /\ IsFiniteSet(Unanswered(managers)) /\ ResultsFollowCalls

LEMMA InitAnswers == Init => AnswersInv
<1> SUFFICES ASSUME Init PROVE AnswersInv
  OBVIOUS
<1>1. managers = <<>> /\ counts = [chats |-> 0, others |-> 0, calls |-> 0, died |-> 0]
  BY DEF Init
<1>2. Unanswered(managers) = {}
  BY <1>1 DEF Unanswered
<1>3. IsFiniteSet(Unanswered(managers)) /\ Cardinality(Unanswered(managers)) = 0
  BY <1>2, FS_EmptySet
<1> QED
  BY <1>1, <1>3 DEF AnswersInv, ResultsFollowCalls

LEMMA AnswersKept ==
    ASSUME AnswersInv, Unanswered(managers') = Unanswered(managers), counts'.died = counts.died,
           counts' = [chats |-> counts'.chats, others |-> counts'.others, calls |-> counts'.calls, died |-> counts'.died]
    PROVE  AnswersInv'
BY DEF AnswersInv, ResultsFollowCalls

(* A new manager has no history.                                           *)
LEMMA NewUnanswered ==
    ASSUME Inv, NEW auth \in Auths
    PROVE  ManagersFor(auth) \in Seq(Managers) /\ Unanswered(ManagersFor(auth)) = Unanswered(managers)
<1> DEFINE ms == ManagersFor(auth)
           new == Append(managers, Manager(auth, provider))
<1>1. ms \in Seq(Managers)
  BY LookedUp
<1>2. CASE HasManager(auth)
  BY <1>1, <1>2 DEF ManagersFor
<1>3. CASE ~ HasManager(auth)
  <2>1. Manager(auth, provider) \in Managers /\ managers \in Seq(Managers)
    BY NewManagerType DEF Inv, TypeOK
  <2>2. /\ DOMAIN managers = 1 .. Len(managers) /\ Len(managers) \in Nat
        /\ DOMAIN new = 1 .. Len(managers) + 1
        /\ \A i \in DOMAIN managers : new[i] = managers[i]
        /\ new[Len(managers) + 1] = Manager(auth, provider)
    BY <2>1
  <2>3. ms = new
    BY <1>3 DEF ManagersFor
  <2>4. Manager(auth, provider).sessions = <<>>
    BY DEF Manager
  <2> HIDE DEF new
  <2>5. ASSUME NEW z \in Unanswered(new) PROVE z \in Unanswered(managers)
    <3>1. PICK i \in DOMAIN new : \E x \in DOMAIN new[i].sessions : \E k \in Open(new[i].sessions[x]) : z = <<i, x, k>>
      BY <2>5, OneUnanswered
    <3>2. PICK x \in DOMAIN new[i].sessions : \E k \in Open(new[i].sessions[x]) : z = <<i, x, k>>
      BY <3>1
    <3>3. PICK k \in Open(new[i].sessions[x]) : z = <<i, x, k>>
      BY <3>2
    <3>4. i # Len(managers) + 1
      BY <2>2, <2>4, <3>2
    <3>5. i \in DOMAIN managers /\ new[i] = managers[i]
      BY <2>2, <3>4
    <3> QED
      BY <3>3, <3>5, IsUnanswered
  <2>6. ASSUME NEW z \in Unanswered(managers) PROVE z \in Unanswered(new)
    <3>1. PICK i \in DOMAIN managers : \E x \in DOMAIN managers[i].sessions :
              \E k \in Open(managers[i].sessions[x]) : z = <<i, x, k>>
      BY <2>6, OneUnanswered
    <3>2. PICK x \in DOMAIN managers[i].sessions : \E k \in Open(managers[i].sessions[x]) : z = <<i, x, k>>
      BY <3>1
    <3>3. PICK k \in Open(managers[i].sessions[x]) : z = <<i, x, k>>
      BY <3>2
    <3>4. i \in DOMAIN new /\ new[i] = managers[i]
      BY <2>2
    <3> QED
      BY <3>3, <3>4, IsUnanswered
  <2> QED
    BY <1>1, <2>3, <2>5, <2>6
<1> QED
  BY <1>2, <1>3

LEMMA CheckedAnswers == ASSUME Inv, AnswersInv, NEW h \in Handlers, Checked(h) PROVE AnswersInv'
<1> DEFINE auth == chats[h].auth
           s == chats[h].session
           at == RegisteredFor(auth)[auth.user]
           ms == ManagersFor(auth)
           q == History(ms[at], s)
<1>1. managers' = [ms EXCEPT ![at] = WithHistory(ms[at], s, Append(q, "user"))] /\ UNCHANGED counts
  BY DEF Checked
<1>2. auth \in Auths /\ s \in Sessions
  BY DEF Checked, Inv, TypeOK, Chats, Idle
<1>3. ms \in Seq(Managers) /\ Unanswered(ms) = Unanswered(managers)
  BY <1>2, NewUnanswered
<1>4. at \in DOMAIN ms
  BY <1>2, LookedUp
<1> HIDE DEF auth, s, at, ms
<1>5. q \in Seq(Kinds)
  <2>1. ms[at] \in Managers
    BY <1>3, <1>4
  <2> QED
    BY <1>2, <2>1, HistoryType
<1>6. Append(q, "user") = q \o <<"user">>
  BY <1>5 DEF Kinds
<1>7. <<"user">> \in Seq(Kinds) /\ Len(<<"user">>) > 0 /\ <<"user">>[1] # "results"
  BY DEF Kinds
<1>8. Unanswered(managers') = Unanswered(ms)
  <2>1. managers' = [ms EXCEPT ![at] = WithHistory(ms[at], s, q \o <<"user">>)]
    BY <1>1, <1>6
  <2>2. PICK r : r = <<"user">>
    OBVIOUS
  <2>3. r \in Seq(Kinds) /\ Len(r) > 0 /\ r[1] # "results"
    BY <1>7, <2>2
  <2>4. Open(r) = {}
    BY <2>2, OpenOfAdded
  <2>5. ms \in Seq(Managers) /\ s \in Sessions
    BY <1>2, <1>3
  <2>6. /\ Open(r) = {} => Unanswered([ms EXCEPT ![at] = WithHistory(ms[at], s, q \o r)]) = Unanswered(ms)
        /\ Open(r) = {1} => Unanswered([ms EXCEPT ![at] = WithHistory(ms[at], s, q \o r)])
                               = Unanswered(ms) \cup {<<at, s, Len(q) + 1>>}
        /\ <<at, s, Len(q) + 1>> \notin Unanswered(ms)
    BY <1>4, <2>3, <2>5, WrittenOpen
  <2>7. Unanswered([ms EXCEPT ![at] = WithHistory(ms[at], s, q \o r)]) = Unanswered(ms)
    BY <2>4, <2>6
  <2> QED
    BY <2>1, <2>2, <2>7
<1>9. Unanswered(managers') = Unanswered(managers)
  BY <1>3, <1>8
<1> QED
  BY <1>1, <1>9, AnswersKept DEF AnswersInv

(* What a chat says when it has the model's reply.                         *)
LEMMA SaidOpen ==
    ASSUME Inv, NEW h \in Handlers, chats[h].pc = "model",
           NEW messages \in Seq(Kinds), Len(messages) > 0, messages[1] # "results", Say(h, messages)
    PROVE  /\ Open(messages) = {} => Unanswered(managers') = Unanswered(managers)
           /\ Open(messages) = {1} =>
                \E z : z \notin Unanswered(managers) /\ Unanswered(managers') = Unanswered(managers) \cup {z}
<1> DEFINE at == chats[h].at
           s == chats[h].session
           q == History(managers[at], s)
           w == [managers EXCEPT ![at] = WithHistory(managers[at], s, q \o messages)]
<1>1. at \in DOMAIN managers /\ s \in Sessions /\ managers \in Seq(Managers)
  BY DEF Inv, TypeOK, Chats, Idle
<1>2. managers' = w
  BY DEF Say, Messages
<1> HIDE DEF at, s
<1>3. /\ Open(messages) = {} => Unanswered(w) = Unanswered(managers)
      /\ Open(messages) = {1} => Unanswered(w) = Unanswered(managers) \cup {<<at, s, Len(q) + 1>>}
      /\ <<at, s, Len(q) + 1>> \notin Unanswered(managers)
  BY <1>1, WrittenOpen
<1> HIDE DEF w, q
<1> QED
  BY <1>2, <1>3

LEMMA AnswerTextAnswers == ASSUME Inv, AnswersInv, NEW h \in Handlers, AnswerText(h) PROVE AnswersInv'
<1>1. <<"assistant">> \in Seq(Kinds) /\ Len(<<"assistant">>) > 0 /\ <<"assistant">>[1] # "results"
  BY DEF Kinds
<1>2. chats[h].pc = "model" /\ Say(h, <<"assistant">>) /\ UNCHANGED counts
  BY DEF AnswerText
<1>3. Unanswered(managers') = Unanswered(managers)
  BY <1>1, <1>2, SaidOpen, OpenOfAdded
<1> QED
  BY <1>2, <1>3, AnswersKept DEF AnswersInv

LEMMA CallToolsAnswers ==
    ASSUME Inv, AnswersInv, NEW h \in Handlers, NEW calls, CallTools(h, calls) PROVE AnswersInv'
<1> PICK auth : auth = managers[chats[h].at].auth
  OBVIOUS
<1> PICK raising : raising = {i \in Made(calls, auth) : Raises(calls[i], auth)}
  OBVIOUS
<1> PICK round : round = chats[h].round
  OBVIOUS
<1> DEFINE raised == raising # {}
<1>1. /\ chats[h].pc = "model" /\ Say(h, Added(raised, round))
      /\ counts' = [counts EXCEPT !.calls = @ + Cardinality(Made(calls, auth)),
                                  !.died = @ + IF raised THEN 1 ELSE 0]
  BY DEF CallTools
<1>2. PICK messages : messages = Added(raised, round)
  OBVIOUS
<1>3. /\ messages \in Seq(Kinds) /\ Len(messages) > 0 /\ messages[1] # "results"
      /\ Open(messages) = IF raised THEN {1} ELSE {}
  <2>1. messages \in Seq(Kinds)
    BY <1>2, AddedType
  <2>2. Len(messages) > 0 /\ messages[1] # "results"
    BY <1>2 DEF Added
  <2>3. Open(messages) = IF raised THEN {1} ELSE {}
    BY <1>2, OpenOfAdded DEF Added
  <2> QED
    BY <2>1, <2>2, <2>3
<1>4. /\ Open(messages) = {} => Unanswered(managers') = Unanswered(managers)
      /\ Open(messages) = {1} =>
           \E z : z \notin Unanswered(managers) /\ Unanswered(managers') = Unanswered(managers) \cup {z}
  BY <1>1, <1>2, <1>3, SaidOpen
<1>5. /\ counts' = [chats |-> counts'.chats, others |-> counts'.others, calls |-> counts'.calls, died |-> counts'.died]
      /\ counts'.died = counts.died + IF raised THEN 1 ELSE 0
  BY <1>1 DEF AnswersInv
<1>6. CASE ~ raised
  <2>1. Unanswered(managers') = Unanswered(managers)
    BY <1>3, <1>4, <1>6
  <2>2. counts'.died = counts.died
    BY <1>5, <1>6 DEF AnswersInv
  <2> QED
    BY <1>5, <2>1, <2>2, AnswersKept
<1>7. CASE raised
  <2>1. PICK z : z \notin Unanswered(managers) /\ Unanswered(managers') = Unanswered(managers) \cup {z}
    BY <1>3, <1>4, <1>7
  <2>2. /\ IsFiniteSet(Unanswered(managers'))
        /\ Cardinality(Unanswered(managers')) = Cardinality(Unanswered(managers)) + 1
    BY <2>1, FS_AddElement DEF AnswersInv
  <2>3. counts'.died = counts.died + 1
    BY <1>5, <1>7
  <2> QED
    BY <1>5, <2>2, <2>3 DEF AnswersInv, ResultsFollowCalls
<1> QED
  BY <1>6, <1>7

LEMMA StepAnswers == ASSUME Inv, AnswersInv, [Next]_vars PROVE AnswersInv'
<1>1. ASSUME NEW h \in Handlers, Checked(h) PROVE AnswersInv'
  BY <1>1, CheckedAnswers
<1>2. ASSUME NEW h \in Handlers, AnswerText(h) PROVE AnswersInv'
  BY <1>2, AnswerTextAnswers
<1>3. ASSUME NEW h \in Handlers, NEW calls \in CallLists, CallTools(h, calls) PROVE AnswersInv'
  BY <1>3, CallToolsAnswers
<1>4. ASSUME NEW h \in Handlers, Unavailable(h) \/ ProviderFails(h) PROVE AnswersInv'
  BY <1>4, AnswersKept DEF Unavailable, ProviderFails, AnswersInv
<1>5. ASSUME NEW h \in Handlers, NEW auth \in Auths, NEW s \in Sessions, Ask(h, auth, s) PROVE AnswersInv'
  <2>1. managers' = managers /\ counts' = [counts EXCEPT !.chats = @ + 1]
    BY <1>5 DEF Ask
  <2> QED
    BY <2>1, AnswersKept DEF AnswersInv
<1>6. ASSUME NEW kind \in {"ollama", "anthropic"}, NEW given \in BOOLEAN, Switch(kind, given) PROVE AnswersInv'
  <2>1. managers' = managers /\ counts' = [counts EXCEPT !.others = @ + 1]
    BY <1>6 DEF Switch, Other
  <2> QED
    BY <2>1, AnswersKept DEF AnswersInv
<1>7. ASSUME NEW auth \in Auths, GetHistory(auth) PROVE AnswersInv'
  <2>1. managers' = ManagersFor(auth) /\ counts' = [counts EXCEPT !.others = @ + 1]
    BY <1>7 DEF GetHistory, Other
  <2>2. Unanswered(managers') = Unanswered(managers)
    BY <2>1, NewUnanswered
  <2> QED
    BY <2>1, <2>2, AnswersKept DEF AnswersInv
<1>8. ASSUME UNCHANGED vars PROVE AnswersInv'
  BY <1>8, AnswersKept DEF vars, AnswersInv
<1> QED
  BY <1>1, <1>2, <1>3, <1>4, <1>5, <1>6, <1>7, <1>8 DEF Next, Served

(* In every history, whatever chats of the same session run at once and    *)
(* however often the provider is switched, the results of a reply's calls  *)
(* follow them directly, but for one reply of each chat that execute()     *)
(* ended with an exception (conversation.py:chat).                         *)
THEOREM ResultsAlwaysFollow == Spec => []ResultsFollowCalls
<1>1. Inv /\ AnswersInv /\ [Next]_vars => AnswersInv'
  BY StepAnswers
<1>2. AnswersInv => ResultsFollowCalls
  BY DEF AnswersInv
<1> QED
  BY <1>1, <1>2, InitAnswers, Invariance, PTL DEF Spec

-----------------------------------------------------------------------------
(* What was done and what the table tells                                  *)

(* Whose conversation a waiting chat is in.                                *)
LEMMA ManagerAuth ==
    ASSUME Inv, NEW h \in Handlers, chats[h].pc = "model"
    PROVE  managers[chats[h].at].auth \in Auths
<1>1. chats[h].at \in DOMAIN managers /\ managers \in Seq(Managers)
  BY DEF Inv, TypeOK, Chats, Idle
<1>2. managers[chats[h].at] \in Managers
  BY <1>1
<1> QED
  BY <1>2 DEF Managers

(* A demo user's role is his own.                                          *)
LEMMA DemoRole ==
    ASSUME NEW auth \in Auths
    PROVE  /\ auth.user \in DOMAIN DemoUsers => auth.role = DemoUsers[auth.user]
           /\ auth = [user |-> auth.user, role |-> auth.role]
BY DEF Auths, Auth

(* Every manager was made for a request there was, and the one that a chat *)
(* waits in is the asking user's.                                          *)
AskedInv ==
    /\ \A i \in DOMAIN managers : managers[i].auth \in requests
    /\ \A h \in Handlers :
         chats[h].pc = "model" => managers[chats[h].at].auth.user = chats[h].auth.user

LEMMA AskedKept ==
    ASSUME Inv, AskedInv, requests \subseteq requests',
           DOMAIN managers' = DOMAIN managers,
           \A i \in DOMAIN managers : managers'[i].auth = managers[i].auth,
           NEW h \in Handlers, NEW c, chats' = [chats EXCEPT ![h] = c],
           c.pc = "model" => /\ chats[h].pc = "model"
                             /\ c.at = chats[h].at /\ c.auth = chats[h].auth
    PROVE  AskedInv'
<1>1. \A i \in DOMAIN managers' : managers'[i].auth \in requests'
  BY DEF AskedInv
<1>2. ASSUME NEW g \in Handlers, chats'[g].pc = "model"
      PROVE  managers'[chats'[g].at].auth.user = chats'[g].auth.user
  <2>1. chats[g].pc = "model" /\ chats'[g].at = chats[g].at /\ chats'[g].auth = chats[g].auth
    <3>1. chats'[g] = IF g = h THEN c ELSE chats[g]
      BY DEF Inv, TypeOK
    <3> QED
      BY <1>2, <3>1
  <2>2. chats[g].at \in DOMAIN managers
    BY <2>1 DEF Inv, TypeOK, Chats, Idle
  <2>3. managers'[chats[g].at].auth = managers[chats[g].at].auth
    BY <2>2
  <2> QED
    BY <2>1, <2>3 DEF AskedInv
<1> QED
  BY <1>1, <1>2 DEF AskedInv

(* Looking up a manager makes at most one, for who asks.                   *)
LEMMA MadeForAsker ==
    ASSUME Inv, NEW auth \in Auths, NEW i \in DOMAIN ManagersFor(auth)
    PROVE  \/ i \in DOMAIN managers /\ ManagersFor(auth)[i] = managers[i]
           \/ i \notin DOMAIN managers /\ ManagersFor(auth)[i].auth = auth
<1> PICK m : m = Manager(auth, provider)
  OBVIOUS
<1>1. m.auth = auth /\ m \in Managers /\ managers \in Seq(Managers)
  BY NewManagerType DEF Inv, TypeOK
<1>2. CASE HasManager(auth)
  BY <1>2 DEF ManagersFor
<1>3. CASE ~ HasManager(auth)
  <2>1. ManagersFor(auth) = Append(managers, m)
    BY <1>3 DEF ManagersFor
  <2> QED
    BY <1>1, <2>1
<1> QED
  BY <1>2, <1>3

LEMMA CheckedAsked == ASSUME Inv, AskedInv, NEW h \in Handlers, Checked(h) PROVE AskedInv'
<1> DEFINE auth == chats[h].auth
           s == chats[h].session
           at == RegisteredFor(auth)[auth.user]
           ms == ManagersFor(auth)
           q == Append(History(ms[at], s), "user")
           c == [pc |-> "model", auth |-> auth, at |-> at, session |-> s, round |-> 1]
<1>1. /\ managers' = [ms EXCEPT ![at] = WithHistory(ms[at], s, q)]
      /\ chats' = [chats EXCEPT ![h] = c]
      /\ requests' = requests \cup {auth}
  BY DEF Checked
<1>2. auth \in Auths /\ s \in Sessions
  BY DEF Checked, Inv, TypeOK, Chats, Idle
<1>3. /\ ms \in Seq(Managers) /\ at \in DOMAIN ms /\ DOMAIN managers \subseteq DOMAIN ms
      /\ ms[at].auth.user = auth.user
  BY <1>2, LookedUp
<1>4. \A i \in DOMAIN ms : \/ i \in DOMAIN managers /\ ms[i] = managers[i]
                           \/ i \notin DOMAIN managers /\ ms[i].auth = auth
  BY <1>2, MadeForAsker
<1> HIDE DEF auth, s, at, ms
<1>5. q \in Seq(Kinds)
  <2>1. ms[at] \in Managers
    BY <1>3
  <2>2. History(ms[at], s) \in Seq(Kinds)
    BY <1>2, <2>1, HistoryType
  <2> QED
    BY <2>2 DEF Kinds
<1> HIDE DEF q
<1>6. /\ DOMAIN managers' = DOMAIN ms
      /\ \A i \in DOMAIN ms : managers'[i].auth = ms[i].auth
  BY <1>1, <1>2, <1>3, <1>5, Written
<1>7. \A i \in DOMAIN managers' : managers'[i].auth \in requests'
  BY <1>1, <1>4, <1>6 DEF AskedInv
<1>8. c.pc = "model" /\ c.at = at /\ c.auth = auth
  OBVIOUS
<1> HIDE DEF c
<1>9. ASSUME NEW g \in Handlers, chats'[g].pc = "model"
      PROVE  managers'[chats'[g].at].auth.user = chats'[g].auth.user
  <2>1. chats'[g] = IF g = h THEN c ELSE chats[g]
    BY <1>1 DEF Inv, TypeOK
  <2>2. CASE g = h
    BY <1>3, <1>6, <1>8, <2>1, <2>2
  <2>3. CASE g # h
    <3>1. chats'[g] = chats[g] /\ chats[g].at \in DOMAIN managers
      BY <1>9, <2>1, <2>3 DEF Inv, TypeOK, Chats, Idle
    <3>2. managers'[chats[g].at].auth = managers[chats[g].at].auth
      BY <1>3, <1>4, <1>6, <3>1
    <3> QED
      BY <1>9, <3>1, <3>2 DEF AskedInv
  <2> QED
    BY <2>2, <2>3
<1> QED
  BY <1>7, <1>9 DEF AskedInv

(* What is said is no reason to keep less.                                 *)
LEMMA SayAsked ==
    ASSUME Inv, AskedInv, NEW h \in Handlers, chats[h].pc = "model", NEW messages \in Seq(Kinds),
           Say(h, messages), requests' = requests,
           NEW c, chats' = [chats EXCEPT ![h] = c],
           c.pc = "model" => c.at = chats[h].at /\ c.auth = chats[h].auth
    PROVE  AskedInv'
<1> DEFINE at == chats[h].at
           s == chats[h].session
           q == History(managers[at], s) \o messages
<1>1. at \in DOMAIN managers /\ s \in Sessions
  BY DEF Inv, TypeOK, Chats, Idle
<1>2. managers \in Seq(Managers) /\ managers[at] \in Managers
  BY <1>1 DEF Inv, TypeOK
<1>3. managers' = [managers EXCEPT ![at] = WithHistory(managers[at], s, q)]
  BY DEF Say, Messages
<1>4. q \in Seq(Kinds)
  <2>1. History(managers[at], s) \in Seq(Kinds)
    BY <1>1, <1>2, HistoryType
  <2> QED
    BY <2>1
<1> HIDE DEF q
<1>5. /\ DOMAIN managers' = DOMAIN managers
      /\ \A i \in DOMAIN managers : managers'[i].auth = managers[i].auth
  BY <1>1, <1>2, <1>3, <1>4, Written
<1> QED
  BY <1>5, AskedKept

LEMMA CallToolsAsked ==
    ASSUME Inv, AskedInv, NEW h \in Handlers, NEW calls, CallTools(h, calls) PROVE AskedInv'
<1> DEFINE auth == managers[chats[h].at].auth
           raised == {i \in Made(calls, auth) : Raises(calls[i], auth)} # {}
           round == chats[h].round
           c == IF raised \/ round = MaxIterations THEN Idle
                ELSE [chats[h] EXCEPT !.round = round + 1]
<1>1. /\ chats[h].pc = "model" /\ Say(h, Added(raised, round))
      /\ chats' = [chats EXCEPT ![h] = c] /\ requests' = requests
  BY DEF CallTools
<1>2. Added(raised, round) \in Seq(Kinds)
  BY AddedType
<1>3. c.pc = "model" => c.at = chats[h].at /\ c.auth = chats[h].auth
  <2>1. PICK a, b, d, e : chats[h] = [pc |-> "model", auth |-> a, at |-> b, session |-> d, round |-> e]
    BY <1>1 DEF Inv, TypeOK, Chats, Idle
  <2>2. [chats[h] EXCEPT !.round = round + 1].at = chats[h].at
    BY <2>1
  <2>3. [chats[h] EXCEPT !.round = round + 1].auth = chats[h].auth
    BY <2>1
  <2> HIDE DEF round
  <2> QED
    BY <2>2, <2>3 DEF Idle
<1> HIDE DEF raised, c
<1> QED
  BY <1>1, <1>2, <1>3, SayAsked

LEMMA InitAsked == Init => AskedInv
BY DEF Init, AskedInv, Idle

LEMMA StepAsked == ASSUME Inv, AskedInv, [Next]_vars PROVE AskedInv'
<1>1. ASSUME NEW h \in Handlers, AnswerText(h) PROVE AskedInv'
  <2>1. <<"assistant">> \in Seq(Kinds)
    BY DEF Kinds
  <2>2. /\ chats[h].pc = "model" /\ Say(h, <<"assistant">>)
        /\ chats' = [chats EXCEPT ![h] = Idle] /\ requests' = requests
    BY <1>1 DEF AnswerText
  <2>3. Idle.pc # "model"
    BY DEF Idle
  <2> QED
    BY <2>1, <2>2, <2>3, SayAsked
<1>2. ASSUME NEW h \in Handlers, Unavailable(h) \/ ProviderFails(h) PROVE AskedInv'
  <2>1. chats' = [chats EXCEPT ![h] = Idle] /\ UNCHANGED <<managers, requests>>
    BY <1>2 DEF Unavailable, ProviderFails
  <2>2. Idle.pc # "model"
    BY DEF Idle
  <2> QED
    BY <2>1, <2>2, AskedKept
<1>3. ASSUME NEW h \in Handlers, NEW auth \in Auths, NEW s \in Sessions, Ask(h, auth, s) PROVE AskedInv'
  <2>1. PICK c : c = [pc |-> "check", auth |-> auth, session |-> s, asked |-> provider.kind]
    OBVIOUS
  <2>2. chats' = [chats EXCEPT ![h] = c] /\ UNCHANGED <<managers, requests>>
    BY <1>3, <2>1 DEF Ask
  <2>3. c.pc # "model"
    BY <2>1
  <2> QED
    BY <2>2, <2>3, AskedKept
<1>4. ASSUME NEW kind \in {"ollama", "anthropic"}, NEW given \in BOOLEAN, Switch(kind, given) PROVE AskedInv'
  BY <1>4 DEF Switch, AskedInv
<1>5. ASSUME NEW auth \in Auths, GetHistory(auth) PROVE AskedInv'
  <2>1. managers' = ManagersFor(auth) /\ requests' = requests \cup {auth} /\ UNCHANGED chats
    BY <1>5 DEF GetHistory
  <2>2. DOMAIN managers \subseteq DOMAIN managers'
    BY <2>1, LookedUp
  <2>3. \A i \in DOMAIN managers' : \/ i \in DOMAIN managers /\ managers'[i] = managers[i]
                                    \/ i \notin DOMAIN managers /\ managers'[i].auth = auth
    BY <2>1, MadeForAsker
  <2>4. \A i \in DOMAIN managers' : managers'[i].auth \in requests'
    BY <2>1, <2>3 DEF AskedInv
  <2>5. ASSUME NEW h \in Handlers, chats[h].pc = "model"
        PROVE  managers'[chats[h].at].auth.user = chats[h].auth.user
    <3>1. chats[h].at \in DOMAIN managers
      BY <2>5 DEF Inv, TypeOK, Chats, Idle
    <3>2. managers'[chats[h].at] = managers[chats[h].at]
      BY <2>2, <2>3, <3>1
    <3> QED
      BY <2>5, <3>2 DEF AskedInv
  <2> QED
    BY <2>1, <2>4, <2>5 DEF AskedInv
<1>6. ASSUME UNCHANGED vars PROVE AskedInv'
  BY <1>6 DEF vars, AskedInv
<1> QED
  BY <1>1, <1>2, <1>3, <1>4, <1>5, <1>6, CheckedAsked, CallToolsAsked DEF Next, Served

(* What the history keeps of a call.                                       *)
LEMMA ActFields ==
    ASSUME NEW no, NEW call, NEW auth, NEW asker
    PROVE  LET a == Act(no, call, auth, asker)
           IN  a.tool = call.tool /\ a.role = auth.role /\ a.user = auth.user /\ a.asker = asker
BY DEF Act

(* What execute() carries out is offered to the role (the RBAC gate).      *)
LEMMA DoneIsOffered ==
    ASSUME NEW call, NEW auth, Verdict(call, auth) = "done"
    PROVE  call.tool \in ToolsFor(auth.role)
<1>1. call.tool \in DOMAIN Tools
  BY DEF Verdict
<1>2. May(auth, Tools[call.tool].permission)
  BY <1>1 DEF Verdict
<1> QED
  BY <1>1, <1>2 DEF ToolsFor, May

(* Only the last call that is made can raise.                              *)
LEMMA OneRaises ==
    ASSUME NEW calls \in CallLists, NEW auth,
           NEW i \in Made(calls, auth), NEW j \in Made(calls, auth),
           Raises(calls[i], auth), Raises(calls[j], auth)
    PROVE  i = j
<1>1. calls \in Seq(Range(calls))
  BY AssistantAssumption
<1>2. i \in 1 .. Len(calls) /\ j \in 1 .. Len(calls) /\ Len(calls) \in Nat
  BY <1>1 DEF Made
<1>3. ~ i < j
  BY <1>2 DEF Made
<1>4. ~ j < i
  BY <1>2 DEF Made
<1> QED
  BY <1>2, <1>3, <1>4

(* The row of a call that was carried out tells what was done.             *)
LEMMA RowTells ==
    ASSUME NEW no, NEW call, NEW auth, NEW asker
    PROVE  LET r == Row(no, call, auth)
           IN  /\ r.done <=> Verdict(call, auth) = "done"
               /\ [call |-> r.call, user |-> r.user, role |-> r.role, tool |-> r.tool]
                     = Done(Act(no, call, auth, asker))
BY DEF Row, Act, Done

(* There are finitely many calls without a row, no more than chats that    *)
(* execute() ended.                                                        *)
AuditInv ==
    /\ IsFiniteSet(Untold)
    /\ AuditTellsActs

LEMMA InitAudit == Init => AuditInv
<1> SUFFICES ASSUME Init PROVE AuditInv
  OBVIOUS
<1>1. acts = {} /\ audit = {} /\ counts.died = 0
  BY DEF Init
<1>2. Told = {} /\ Untold = {}
  BY <1>1 DEF Told, Untold
<1>3. IsFiniteSet(Untold) /\ Cardinality(Untold) = 0
  BY <1>2, FS_EmptySet
<1> QED
  BY <1>1, <1>2, <1>3 DEF AuditInv, AuditTellsActs

LEMMA AuditKept ==
    ASSUME AuditInv, UNCHANGED <<audit, acts>>, counts'.died = counts.died,
           requests \subseteq requests'
    PROVE  AuditInv'
BY DEF AuditInv, AuditTellsActs, Told, Untold, InEarlierRole

(* What a reply adds: every act with a row, but that of the call that      *)
(* raises; all of tools its user may call, for the user that asked.        *)
LEMMA CallToolsAudit ==
    ASSUME Inv, AnswersInv, AskedInv, AuditInv, NEW h \in Handlers, NEW calls \in CallLists,
           CallTools(h, calls)
    PROVE  AuditInv'
<1>a. PICK auth : auth = managers[chats[h].at].auth
  OBVIOUS
<1>b. PICK asker : asker = chats[h].auth
  OBVIOUS
<1>c. PICK made : made = Made(calls, auth)
  OBVIOUS
<1>d. PICK raising : raising = {i \in made : Raises(calls[i], auth)}
  OBVIOUS
<1>e. PICK done : done = {i \in made : Verdict(calls[i], auth) = "done"}
  OBVIOUS
<1>f. PICK no : no = [i \in made |-> counts.calls + i]
  OBVIOUS
<1>g. PICK act : act = [i \in made |-> Act(no[i], calls[i], auth, asker)]
  OBVIOUS
<1>1. /\ audit' = audit \cup {Row(no[i], calls[i], auth) : i \in made \ raising}
      /\ acts' = acts \cup {act[i] : i \in done}
      /\ counts'.died = counts.died + IF raising # {} THEN 1 ELSE 0
  <2>1. /\ audit' = audit \cup {Row(counts.calls + i, calls[i], auth) : i \in made \ raising}
        /\ acts' = acts \cup {Act(counts.calls + i, calls[i], auth, asker) : i \in done}
        /\ counts' = [counts EXCEPT !.calls = @ + Cardinality(made),
                                    !.died = @ + IF raising # {} THEN 1 ELSE 0]
    BY <1>a, <1>b, <1>c, <1>d, <1>e DEF CallTools
  <2>2. counts'.died = counts.died + IF raising # {} THEN 1 ELSE 0
    BY <2>1 DEF AnswersInv
  <2>3. {Row(no[i], calls[i], auth) : i \in made \ raising}
          = {Row(counts.calls + i, calls[i], auth) : i \in made \ raising}
    BY <1>f
  <2>4. {act[i] : i \in done} = {Act(counts.calls + i, calls[i], auth, asker) : i \in done}
    BY <1>e, <1>f, <1>g
  <2> QED
    BY <2>1, <2>2, <2>3, <2>4
<1>2. auth \in Auths /\ asker \in Auths /\ auth.user = asker.user /\ auth \in requests /\ requests' = requests
  <2>1. chats[h].pc = "model" /\ requests' = requests
    BY DEF CallTools
  <2>2. auth \in Auths
    BY <1>a, <2>1, ManagerAuth
  <2>3. asker \in Auths /\ chats[h].at \in DOMAIN managers
    BY <1>b, <2>1 DEF Inv, TypeOK, Chats, Idle
  <2> QED
    BY <1>a, <1>b, <2>1, <2>2, <2>3 DEF AskedInv
<1>h. /\ done \subseteq made /\ raising \subseteq made
      /\ \A i \in made : act[i] = Act(no[i], calls[i], auth, asker)
  BY <1>d, <1>e, <1>g
<1>3. Told' = Told \cup {Done(act[i]) : i \in done \ raising}
  <2>1. ASSUME NEW a \in Told' PROVE a \in Told \cup {Done(act[i]) : i \in done \ raising}
    <3>1. PICK r \in audit' : r.done /\ a = [call |-> r.call, user |-> r.user, role |-> r.role, tool |-> r.tool]
      BY <2>1 DEF Told
    <3>2. CASE r \in audit
      BY <3>1, <3>2 DEF Told
    <3>3. CASE r \notin audit
      <4>1. PICK i \in made \ raising : r = Row(no[i], calls[i], auth)
        BY <1>1, <3>3
      <4>2. Verdict(calls[i], auth) = "done" /\ a = Done(act[i])
        BY <1>h, <3>1, <4>1, RowTells
      <4>3. i \in done \ raising
        BY <1>e, <4>2
      <4> QED
        BY <4>2, <4>3
    <3> QED
      BY <3>2, <3>3
  <2>2. Told \subseteq Told'
    BY <1>1 DEF Told
  <2>3. ASSUME NEW i \in done \ raising PROVE Done(act[i]) \in Told'
    <3>2. PICK r : r = Row(no[i], calls[i], auth)
      OBVIOUS
    <3>3. i \in made \ raising /\ Verdict(calls[i], auth) = "done"
      BY <1>e
    <3>4. r \in audit'
      BY <1>1, <3>2, <3>3
    <3>5. r.done /\ Done(act[i]) = [call |-> r.call, user |-> r.user, role |-> r.role, tool |-> r.tool]
      BY <1>h, <3>2, <3>3, RowTells
    <3> QED
      BY <3>4, <3>5 DEF Told
  <2> QED
    BY <2>1, <2>2, <2>3
<1>4. /\ Told \subseteq {Done(a) : a \in acts} /\ IsFiniteSet(Untold)
      /\ Cardinality(Untold) <= counts.died /\ counts.died \in Nat
  BY DEF AuditInv, AuditTellsActs, AnswersInv
<1>5. Told' \subseteq {Done(a) : a \in acts'}
  <2>1. \A i \in done : act[i] \in acts'
    BY <1>1
  <2> QED
    BY <1>1, <1>3, <1>4, <2>1
<1>6. PICK old, new : old = Untold /\ new = Untold'
  OBVIOUS
<1>7. IsFiniteSet(new) /\ Cardinality(new) <= counts'.died
  <2>0. \A a \in new : a \in old \/ \E i \in done \cap raising : a = act[i]
    <3>1. ASSUME NEW a \in new PROVE a \in old \/ \E i \in done \cap raising : a = act[i]
      <4>1. a \in acts' /\ Done(a) \notin Told'
        BY <1>6, <3>1 DEF Untold
      <4>2. CASE a \in acts
        BY <1>3, <1>6, <4>1, <4>2 DEF Untold
      <4>3. CASE a \notin acts
        <5>1. PICK i \in done : a = act[i]
          BY <1>1, <4>1, <4>3
        <5>2. i \in raising
          BY <1>3, <4>1, <5>1
        <5> QED
          BY <5>1, <5>2
      <4> QED
        BY <4>2, <4>3
    <3> QED
      BY <3>1
  <2>1. CASE raising = {}
    <3>1. new \subseteq old
      BY <2>0, <2>1
    <3>2. IsFiniteSet(new) /\ Cardinality(new) <= Cardinality(old) /\ Cardinality(new) \in Nat /\ Cardinality(old) \in Nat
      BY <1>4, <1>6, <3>1, FS_Subset, FS_CardinalityType
    <3>3. counts'.died = counts.died
      BY <1>1, <1>4, <2>1
    <3> QED
      BY <1>4, <1>6, <3>2, <3>3
  <2>2. CASE raising # {}
    <3>1. PICK k : k \in raising
      BY <2>2
    <3>2. \A i \in raising : i = k
      BY <1>c, <1>d, <3>1, OneRaises
    <3>3. PICK b : b = act[k]
      OBVIOUS
    <3>5. new \subseteq old \cup {b}
      BY <2>0, <3>2, <3>3
    <3>7. IsFiniteSet(old \cup {b}) /\ Cardinality(old \cup {b}) <= Cardinality(old) + 1
      <4>1. IsFiniteSet(old) /\ Cardinality(old) \in Nat
        BY <1>4, <1>6, FS_CardinalityType
      <4>2. /\ IsFiniteSet(old \cup {b})
            /\ Cardinality(old \cup {b}) = IF b \in old THEN Cardinality(old) ELSE Cardinality(old) + 1
        BY <4>1, FS_AddElement
      <4> QED
        BY <4>1, <4>2
    <3>8. /\ IsFiniteSet(new) /\ Cardinality(new) <= Cardinality(old \cup {b})
          /\ Cardinality(new) \in Nat /\ Cardinality(old) \in Nat /\ Cardinality(old \cup {b}) \in Nat
      BY <1>4, <1>6, <3>5, <3>7, FS_Subset, FS_CardinalityType
    <3>9. counts'.died = counts.died + 1
      BY <1>1, <2>2
    <3> QED
      BY <1>4, <1>6, <3>7, <3>8, <3>9
  <2> QED
    BY <2>1, <2>2
<1>8. ASSUME NEW a \in acts'
      PROVE  /\ a.user = a.asker.user
             /\ a.tool \in ToolsFor(a.role)
             /\ a.role = a.asker.role \/ InEarlierRole(a)'
  <2>1. CASE a \in acts
    <3>1. /\ a.user = a.asker.user /\ a.tool \in ToolsFor(a.role)
          /\ a.role = a.asker.role \/ InEarlierRole(a)
      BY <2>1 DEF AuditInv, AuditTellsActs
    <3> QED
      BY <1>2, <3>1 DEF InEarlierRole
  <2>2. CASE a \notin acts
    <3>1. PICK i \in done : a = act[i]
      BY <1>1, <2>2
    <3>2. Verdict(calls[i], auth) = "done"
      BY <1>e
    <3>3. a.tool = calls[i].tool /\ a.role = auth.role /\ a.user = auth.user /\ a.asker = asker
      <4>1. i \in made /\ act[i] = Act(no[i], calls[i], auth, asker)
        BY <1>h, <3>1
      <4> QED
        BY <3>1, <4>1, ActFields
    <3>4. calls[i].tool \in ToolsFor(auth.role)
      BY <3>2, DoneIsOffered
    <3>5. auth = [user |-> auth.user, role |-> auth.role]
      BY <1>2, DemoRole
    <3>6. auth.user \in DOMAIN DemoUsers => auth.role = asker.role
      BY <1>2, DemoRole
    <3>7. [user |-> auth.user, role |-> auth.role] \in requests
      BY <1>2, <3>5
    <3> QED
      BY <1>2, <3>3, <3>4, <3>6, <3>7 DEF InEarlierRole
  <2> QED
    BY <2>1, <2>2
<1>9. \A a \in acts' : /\ a.user = a.asker.user
                       /\ a.tool \in ToolsFor(a.role)
                       /\ a.role = a.asker.role \/ InEarlierRole(a)'
  BY <1>8
<1> QED
  BY <1>5, <1>6, <1>7, <1>9 DEF AuditInv, AuditTellsActs

LEMMA StepAudit == ASSUME Inv, AnswersInv, AskedInv, AuditInv, [Next]_vars PROVE AuditInv'
<1>1. ASSUME NEW h \in Handlers, NEW calls \in CallLists, CallTools(h, calls) PROVE AuditInv'
  BY <1>1, CallToolsAudit
<1>2. ASSUME NEW h \in Handlers,
             Checked(h) \/ Unavailable(h) \/ AnswerText(h) \/ ProviderFails(h)
      PROVE  AuditInv'
  <2>1. UNCHANGED <<audit, acts, counts>> /\ requests \subseteq requests'
    BY <1>2 DEF Checked, Unavailable, AnswerText, ProviderFails
  <2> QED
    BY <2>1, AuditKept
<1>3. ASSUME NEW h \in Handlers, NEW auth \in Auths, NEW s \in Sessions, Ask(h, auth, s) PROVE AuditInv'
  <2>1. counts'.died = counts.died /\ UNCHANGED <<audit, acts>> /\ requests \subseteq requests'
    BY <1>3 DEF Ask, AnswersInv
  <2> QED
    BY <2>1, AuditKept
<1>4. ASSUME NEW kind \in {"ollama", "anthropic"}, NEW given \in BOOLEAN, Switch(kind, given) PROVE AuditInv'
  <2>1. counts'.died = counts.died /\ UNCHANGED <<audit, acts>> /\ requests \subseteq requests'
    BY <1>4 DEF Switch, Other, AnswersInv
  <2> QED
    BY <2>1, AuditKept
<1>5. ASSUME NEW auth \in Auths, GetHistory(auth) PROVE AuditInv'
  <2>1. counts'.died = counts.died /\ UNCHANGED <<audit, acts>> /\ requests \subseteq requests'
    BY <1>5 DEF GetHistory, Other, AnswersInv
  <2> QED
    BY <2>1, AuditKept
<1>6. ASSUME UNCHANGED vars PROVE AuditInv'
  BY <1>6, AuditKept DEF vars
<1> QED
  BY <1>1, <1>2, <1>3, <1>4, <1>5, <1>6 DEF Next, Served

(* Every call the table has as done was carried out, of that tool and for  *)
(* that user and role; those carried out without a row ended their chats,  *)
(* one each.  What was done was done for the user that asked and offered   *)
(* to the role it was done in, which is the role of the request, or, for   *)
(* who has no demo account, one that an earlier request of his came with   *)
(* (tool_executor.py:execute, _get_conversation in routes_chat.py).        *)
THEOREM AuditAlwaysTells == Spec => []AuditTellsActs
<1>1. Inv /\ AnswersInv /\ AskedInv /\ AuditInv /\ [Next]_vars => AuditInv'
  BY StepAudit
<1>2. Inv /\ AnswersInv /\ [Next]_vars => AnswersInv'
  BY StepAnswers
<1>3. Inv /\ AskedInv /\ [Next]_vars => AskedInv'
  BY StepAsked
<1>4. AuditInv => AuditTellsActs
  BY DEF AuditInv
<1> QED
  BY <1>1, <1>2, <1>3, <1>4, InitAnswers, InitAsked, InitAudit, Invariance, PTL DEF Spec
=============================================================================
