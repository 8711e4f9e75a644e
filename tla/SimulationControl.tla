-------------------------- MODULE SimulationControl --------------------------
(***************************************************************************)
(* The control of the simulation (python/api/routes_simulation.py): the    *)
(* module's globals _engine and _thread, the handlers of start, stop,      *)
(* reset, pause and resume, which the server runs in several threads, the  *)
(* thread in which an engine runs, and the streams that carry its events   *)
(* to the clients, each through a queue of limited size.                   *)
(*                                                                         *)
(* A handler is cut between the statements that read or write a global; a  *)
(* statement that finds None where it needs an object raises, and the      *)
(* request is answered 500.  The day loop is cut where it looks at a flag  *)
(* (SimulationEngine has the days).                                        *)
(***************************************************************************)
EXTENDS Integers, Sequences, FiniteSets, FiniteSetsExt

CONSTANTS
    Handlers,      \* threads that serve requests
    Requests,      \* the requests that are made
    QueueSize,     \* the size of a client's queue, 2000 in the code
    MaxRequests    \* bound: requests

None == 0

ASSUME RequestsAssumption == Requests \subseteq {"start", "stop", "reset", "pause", "resume"}
ASSUME BoundsAssumption == MaxRequests \in Nat /\ QueueSize \in Nat \ {0}

VARIABLES
    engine,      \* _engine: None or a position in engines
    thread,      \* _thread: None or a position in threads
    engines,     \* the SimulationEngine objects, in the order of their making
    threads,     \* the Thread objects
    handler,     \* where each handler is
    streams,     \* the clients' streams, in the order they were opened
    requests,    \* how many there were
    raced,       \* history: two requests were handled at once, or a join timed
                 \* out before its thread had run at all
    timedOut     \* history: a join once took longer than five seconds

controlVars == <<engine, thread, engines, threads, handler, streams, requests, raced, timedOut>>

-----------------------------------------------------------------------------
(* hooks: the callbacks registered; open: its bridges have connections.    *)
NewEngine == [stopped |-> FALSE, paused |-> FALSE, open |-> TRUE, hooks |-> 0]

NewThread == [pc |-> "new", eng |-> None]

Over == {"new", "ended", "crashed"}
Alive(t) == threads[t].pc \notin Over
ThreadAlive == thread # None /\ Alive(thread)

Resting == [pc |-> "idle", joins |-> None]

ControlInit ==
    /\ engine = None /\ thread = None /\ engines = <<>> /\ threads = <<>>
    /\ handler = [h \in Handlers |-> Resting]
    /\ streams = <<>>
    /\ requests = 0 /\ raced = FALSE /\ timedOut = FALSE

At(h, pc) == handler[h].pc = pc
Goto(h, pc) == handler' = [handler EXCEPT ![h].pc = pc]
Answer(h) == handler' = [handler EXCEPT ![h] = Resting]

Objects == <<engine, thread, engines, threads, streams>>
Counts == <<requests, raced, timedOut>>

Ask(h, r) ==
    /\ At(h, "idle") /\ requests < MaxRequests
    /\ Goto(h, r)
    /\ requests' = requests + 1
    /\ raced' = (raced \/ \E g \in Handlers : ~At(g, "idle"))
    /\ UNCHANGED <<timedOut, Objects>>

-----------------------------------------------------------------------------
(* POST /simulation/start                                                  *)

StartUnchecked(h) ==    \* mutant: a running simulation is not looked for
    /\ At(h, "start")
    /\ Goto(h, "make")
    /\ UNCHANGED <<Objects, Counts>>
Start(h) ==
    /\ At(h, "start")
    /\ IF ThreadAlive THEN Answer(h) ELSE Goto(h, "make")
    /\ UNCHANGED <<Objects, Counts>>

MakeEngine(h) ==
    /\ At(h, "make")
    /\ engines' = Append(engines, NewEngine)
    /\ engine' = Len(engines')
    /\ Goto(h, "hook")
    /\ UNCHANGED <<thread, threads, streams, Counts>>

(* _engine.register_callback(broadcast)                                    *)
RegisterCallback(h) ==
    /\ At(h, "hook")
    /\ IF engine = None THEN Answer(h) /\ UNCHANGED engines
       ELSE engines' = [engines EXCEPT ![engine].hooks = @ + 1] /\ Goto(h, "spawn")
    /\ UNCHANGED <<engine, thread, threads, streams, Counts>>

MakeThread(h) ==
    /\ At(h, "spawn")
    /\ threads' = Append(threads, NewThread)
    /\ thread' = Len(threads')
    /\ Goto(h, "launch")
    /\ UNCHANGED <<engine, engines, streams, Counts>>

(* _thread.start(), which raises for a thread that was started before.     *)
StartThread(h) ==
    /\ At(h, "launch")
    /\ threads' = IF thread = None \/ threads[thread].pc # "new" THEN threads
                  ELSE [threads EXCEPT ![thread].pc = "ready"]
    /\ Answer(h)
    /\ UNCHANGED <<engine, thread, engines, streams, Counts>>

-----------------------------------------------------------------------------
(* POST /simulation/stop, pause, resume                                    *)

Check(h) ==
    \/ At(h, "stop") /\ IF engine = None THEN Answer(h) ELSE Goto(h, "set_stop")
    \/ At(h, "pause") /\ IF engine # None /\ ThreadAlive THEN Goto(h, "set_pause") ELSE Answer(h)
    \/ At(h, "resume") /\ IF engine # None /\ ThreadAlive THEN Goto(h, "set_resume") ELSE Answer(h)

CheckFlag(h) == Check(h) /\ UNCHANGED <<Objects, Counts>>

SetFlag(h) ==
    /\ handler[h].pc \in {"set_stop", "set_pause", "set_resume"}
    /\ engines' = IF engine = None THEN engines
                  ELSE CASE At(h, "set_stop") -> [engines EXCEPT ![engine].stopped = TRUE]
                         [] At(h, "set_pause") -> [engines EXCEPT ![engine].paused = TRUE]
                         [] At(h, "set_resume") -> [engines EXCEPT ![engine].paused = FALSE]
    /\ Answer(h)
    /\ UNCHANGED <<engine, thread, threads, streams, Counts>>

-----------------------------------------------------------------------------
(* POST /simulation/reset                                                  *)

ResetWithoutStop(h) ==    \* mutant: the engine is not told to stop
    /\ At(h, "reset")
    /\ Goto(h, "join")
    /\ UNCHANGED <<Objects, Counts>>
Reset(h) ==
    /\ At(h, "reset")
    /\ engines' = IF engine = None THEN engines ELSE [engines EXCEPT ![engine].stopped = TRUE]
    /\ Goto(h, "join")
    /\ UNCHANGED <<engine, thread, threads, streams, Counts>>

(* if _thread is not None and _thread.is_alive(): _thread.join(timeout=5)  *)
Join(h) ==
    /\ At(h, "join")
    /\ handler' = [handler EXCEPT ![h] = IF ThreadAlive THEN [pc |-> "joining", joins |-> thread]
                                         ELSE [pc |-> "close", joins |-> None]]
    /\ UNCHANGED <<Objects, Counts>>

Joined(h) ==
    /\ At(h, "joining") /\ ~Alive(handler[h].joins)
    /\ Goto(h, "close")
    /\ UNCHANGED <<Objects, Counts>>

JoinForever(h) ==    \* mutant: the join has no timeout
    At(h, "joining") /\ FALSE /\ UNCHANGED controlVars
JoinTimesOut(h) ==
    /\ At(h, "joining") /\ Alive(handler[h].joins)
    /\ Goto(h, "close")
    /\ timedOut' = TRUE
    /\ raced' = (raced \/ threads[handler[h].joins].pc = "ready")
    /\ UNCHANGED <<Objects, requests>>

CloseBridges(h) ==
    /\ At(h, "close")
    /\ engines' = IF engine = None THEN engines ELSE [engines EXCEPT ![engine].open = FALSE]
    /\ Goto(h, "forget_engine")
    /\ UNCHANGED <<engine, thread, threads, streams, Counts>>

ForgetEngine(h) ==
    /\ At(h, "forget_engine")
    /\ engine' = None
    /\ Goto(h, "forget_thread")
    /\ UNCHANGED <<thread, engines, threads, streams, Counts>>

(* Afterwards the databases are deleted and seeded anew.                   *)
ForgetThread(h) ==
    /\ At(h, "forget_thread")
    /\ thread' = None
    /\ Answer(h)
    /\ UNCHANGED <<engine, engines, threads, streams, Counts>>

-----------------------------------------------------------------------------
(* GET /simulation/events.  listed: the queue is in _event_queues; queue:  *)
(* how many events wait in it; history: the kinds of events that were not  *)
(* put into it, and of those after which others were.                      *)

NewStream == [listed |-> TRUE, queue |-> 0, missed |-> {}, gaps |-> {}]

Full(s) == s.queue = QueueSize

Put(s, kind) ==
    IF Full(s) THEN [s EXCEPT !.missed = @ \cup {kind}]
    ELSE [s EXCEPT !.queue = @ + 1, !.gaps = @ \cup s.missed]

(* broadcast: a queue that is full is taken off the list.                  *)
BroadcastKeepsFull(all) ==    \* mutant: a queue that is full stays
    [i \in DOMAIN all |-> IF all[i].listed THEN Put(all[i], "engine") ELSE all[i]]
Broadcast(all) ==
    [i \in DOMAIN all |->
        IF all[i].listed THEN [Put(all[i], "engine") EXCEPT !.listed = ~Full(all[i])]
        ELSE all[i]]

(* ENGINE_ERROR and TAMPER_BALANCE: a queue that is full stays.            *)
Announce(all) ==
    [i \in DOMAIN all |-> IF all[i].listed THEN Put(all[i], "announcement") ELSE all[i]]

OpenStream ==
    /\ requests < MaxRequests
    /\ streams' = Append(streams, NewStream)
    /\ requests' = requests + 1
    /\ UNCHANGED <<engine, thread, engines, threads, handler, raced, timedOut>>

(* The generator takes one event and sends it to the client.               *)
Read(i) ==
    /\ streams[i].queue > 0
    /\ streams' = [streams EXCEPT ![i].queue = @ - 1]
    /\ UNCHANGED <<engine, thread, engines, threads, handler, Counts>>

(* The client goes away: finally, the queue is removed if it is listed.    *)
CloseStream(i) ==
    /\ streams[i].listed
    /\ streams' = [streams EXCEPT ![i].listed = FALSE, ![i].queue = 0]
    /\ UNCHANGED <<engine, thread, engines, threads, handler, Counts>>

(* POST /tamper-demo, which needs no engine.                               *)
TamperDemo ==
    /\ requests < MaxRequests
    /\ streams' = Announce(streams)
    /\ requests' = requests + 1
    /\ UNCHANGED <<engine, thread, engines, threads, handler, raced, timedOut>>

-----------------------------------------------------------------------------
(* The thread of an engine                                                 *)

In(t, pc) == threads[t].pc = pc
Moves(t, pc) == threads' = [threads EXCEPT ![t].pc = pc]
Of(t) == engines[threads[t].eng]

(* Every callback the engine has broadcasts the event.                     *)
Fire(t) ==
    streams' = FoldSet(LAMBDA i, all : Broadcast(all), streams, 1 .. Of(t).hooks)

(* An exception ends the thread, which announces it.                       *)
Raises(t) == Moves(t, "crashed") /\ streams' = Announce(streams)

(* run_engine reads the global when the thread gets to run.                *)
ReadEngine(t) ==
    /\ In(t, "ready")
    /\ IF engine = None THEN Raises(t)
       ELSE /\ threads' = [threads EXCEPT ![t] = [pc |-> "loop", eng |-> engine]]
            /\ UNCHANGED streams
    /\ UNCHANGED <<engine, thread, engines, handler, Counts>>

(* while not self._stopped; the last day may have come.  A day begins with *)
(* a look at the accounts, which raises when the bridges are closed, and   *)
(* with its scenario events, if it has any.                                *)
BeginDay(t) ==
    /\ In(t, "loop")
    /\ \/ Moves(t, "ended") /\ UNCHANGED streams
       \/ /\ ~Of(t).stopped
          /\ IF Of(t).open THEN Moves(t, "tx") /\ (Fire(t) \/ UNCHANGED streams) ELSE Raises(t)
    /\ UNCHANGED <<engine, thread, engines, handler, Counts>>

(* A stop, or no transactions left, ends the day.                          *)
LookAtStop(t) ==
    /\ In(t, "tx")
    /\ \/ Moves(t, "loop") /\ Fire(t)
       \/ ~Of(t).stopped /\ Moves(t, "wait") /\ UNCHANGED streams
    /\ UNCHANGED <<engine, thread, engines, handler, Counts>>

(* A stop while it was paused ends the day as well.                        *)
WaitForResume(t) ==    \* mutant: a paused engine does not look at _stopped
    /\ In(t, "wait") /\ ~Of(t).paused
    /\ IF Of(t).stopped THEN Moves(t, "loop") /\ Fire(t) ELSE Moves(t, "post") /\ UNCHANGED streams
    /\ UNCHANGED <<engine, thread, engines, handler, Counts>>
Wait(t) ==
    /\ In(t, "wait") /\ (~Of(t).paused \/ Of(t).stopped)
    /\ IF Of(t).stopped THEN Moves(t, "loop") /\ Fire(t) ELSE Moves(t, "post") /\ UNCHANGED streams
    /\ UNCHANGED <<engine, thread, engines, handler, Counts>>

(* The sleep, which no flag interrupts, and the transaction.  On a closed  *)
(* connection an internal one raises, and a settlement returns FAILED.     *)
Transact(t) ==
    /\ In(t, "post")
    /\ \/ Moves(t, "tx") /\ Fire(t)
       \/ ~Of(t).open /\ Raises(t)
    /\ UNCHANGED <<engine, thread, engines, handler, Counts>>

HandlerStep(h) ==
    \/ Start(h) \/ MakeEngine(h) \/ RegisterCallback(h) \/ MakeThread(h) \/ StartThread(h)
    \/ CheckFlag(h) \/ SetFlag(h)
    \/ Reset(h) \/ Join(h) \/ Joined(h) \/ JoinTimesOut(h) \/ CloseBridges(h) \/ ForgetEngine(h) \/ ForgetThread(h)
EngineStep(t) == ReadEngine(t) \/ BeginDay(t) \/ LookAtStop(t) \/ Wait(t) \/ Transact(t)

ControlNext ==
    \/ \E h \in Handlers : HandlerStep(h) \/ \E r \in Requests : Ask(h, r)
    \/ \E t \in DOMAIN threads : EngineStep(t)
    \/ OpenStream \/ TamperDemo
    \/ \E i \in DOMAIN streams : Read(i) \/ CloseStream(i)

(* Handlers and threads are scheduled, and a join ends, if only by its     *)
(* timeout.  Requests need not come.                                       *)
ControlFairness ==
    /\ \A h \in Handlers : WF_controlVars(HandlerStep(h))
    /\ \A t \in 1 .. MaxRequests : WF_controlVars(t \in DOMAIN threads /\ EngineStep(t))
ControlSpec == ControlInit /\ [][ControlNext]_controlVars /\ ControlFairness

-----------------------------------------------------------------------------
(* Properties                                                              *)

Running == {t \in DOMAIN threads : Alive(t)}

ThreadPcs == Over \cup {"ready", "loop", "tx", "wait", "post"}
HandlerPcs ==
    {"idle"} \cup Requests \cup
    {"make", "hook", "spawn", "launch", "set_stop", "set_pause", "set_resume", "join", "joining",
     "close", "forget_engine", "forget_thread"}
Kinds == {"engine", "announcement"}

EngineObject == [stopped : BOOLEAN, paused : BOOLEAN, open : BOOLEAN, hooks : Nat]
Stream == [listed : BOOLEAN, queue : 0 .. QueueSize, missed : SUBSET Kinds, gaps : SUBSET Kinds]

(* The types of the variables; a queue keeps to its size, a thread has an  *)
(* engine once it runs, and no thread is joined unstarted.                 *)
ControlTypeOK ==
    /\ engine \in 0 .. Len(engines) /\ thread \in 0 .. Len(threads)
    /\ engines \in Seq(EngineObject)
    /\ threads \in Seq([pc : ThreadPcs, eng : 0 .. Len(engines)])
    /\ \A t \in DOMAIN threads :
          /\ threads[t].pc \in {"new", "ready"} => threads[t].eng = None
          /\ threads[t].pc \in {"loop", "tx", "wait", "post"} => threads[t].eng # None
    /\ handler \in [Handlers -> [pc : HandlerPcs, joins : 0 .. Len(threads)]]
    /\ \A h \in Handlers :
          /\ At(h, "joining") => handler[h].joins # None
          /\ handler[h].joins # None => threads[handler[h].joins].pc # "new"
    /\ streams \in Seq(Stream)
    /\ requests \in Nat /\ raced \in BOOLEAN /\ timedOut \in BOOLEAN

(* The globals tell the truth when requests come one at a time and no join *)
(* timed out: at most one thread runs, it is _thread, it runs _engine, and *)
(* between requests a thread that runs can be stopped, paused and resumed  *)
(* by whoever asks, and reports each event once.                           *)
Orderly == ~raced /\ ~timedOut
GlobalsTellTheTruth ==
    Orderly => \A t \in Running :
        /\ thread = t
        /\ threads[t].eng \in {None, engine}
        /\ (\A h \in Handlers : At(h, "idle")) => engine # None /\ engines[engine].hooks = 1

(* No thread runs on beyond everybody's reach: an engine that runs was     *)
(* told to stop or is still _engine, also when a join timed out and the    *)
(* thread outlived the reset.                                              *)
NoneOutOfReach ==
    ~raced => \A t \in Running :
        LET e == threads[t].eng IN e # None => e = engine \/ engines[e].stopped

(* Whatever races: an engine that was told to stop stops, in every thread  *)
(* that runs it, also when it is paused.                                   *)
StoppedEnginesEnd ==
    \A e \in 1 .. MaxRequests :
        (e \in DOMAIN engines /\ engines[e].stopped) ~>
            (\A t \in DOMAIN threads : threads[t].eng = e => ~Alive(t))

(* Whatever engines run, a client reads all of their events from the one   *)
(* it connected at up to some point, and none after it: once its queue was *)
(* full it gets no further one.  Only announcements may be missing before  *)
(* others, because they leave a full queue on the list.                    *)
NoGapInEngineEvents == \A i \in DOMAIN streams : "engine" \notin streams[i].gaps

(* The invariant that proves these three.  A stream on the list has missed *)
(* no engine event.  While requests come one at a time, a running thread   *)
(* that is not _thread has an engine that was told to stop; start goes on  *)
(* only without a running _thread, and reset forgets the engine only when  *)
(* every running one was told to stop, or, with no timeout, has ended.     *)
StreamOK(s) == "engine" \notin s.gaps /\ (s.listed => "engine" \notin s.missed)
StreamsOK(all) == all \in Seq(Stream) /\ \A i \in DOMAIN all : StreamOK(all[i])

ToldToStop(t) == threads[t].eng # None /\ engines[threads[t].eng].stopped
Within(pcs) == \E h \in Handlers : handler[h].pc \in pcs
Forgetting == {"close", "forget_engine", "forget_thread"}

ReachInv ==
    /\ \A g, h \in Handlers : ~ At(g, "idle") /\ ~ At(h, "idle") => g = h
    /\ \A t \in Running :
          /\ t # thread \/ Within(Forgetting) => ToldToStop(t)
          /\ threads[t].eng = None => engine # None
          /\ threads[t].eng \in {None, engine} \/ ToldToStop(t)
    /\ Within({"make", "hook", "spawn", "launch"}) => ~ ThreadAlive
    /\ Within({"join", "joining"}) /\ engine # None => engines[engine].stopped
    /\ \A h \in Handlers : At(h, "joining") => handler[h].joins = thread
    /\ Within({"hook", "spawn", "launch"}) => engine # None

OrderlyInv ==
    /\ \A t \in Running :
          /\ t = thread /\ threads[t].eng \in {None, engine}
          /\ engine # None /\ engines[engine].hooks = 1
    /\ Within(Forgetting) => Running = {}
    /\ Within({"hook"}) => engines[engine].hooks = 0
    /\ Within({"spawn", "launch"}) => engines[engine].hooks = 1

ControlInv ==
    /\ ControlTypeOK
    /\ StreamsOK(streams)
    /\ ~raced => ReachInv
    /\ Orderly => OrderlyInv

(* Every request is answered.  Reset waits for a thread that was told to   *)
(* stop, if it waits for the right one.                                    *)
RequestsAnswered == \A h \in Handlers : ~At(h, "idle") ~> At(h, "idle")
=============================================================================
