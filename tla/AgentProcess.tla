----------------------------- MODULE AgentProcess -----------------------------
(***************************************************************************)
(* One process of Agent 2 from main() on: the start of its parts in order, *)
(* the thread of the health server, the execution log store that this      *)
(* thread and the worker share through a global variable, the signal that  *)
(* ends it.  What the worker does with a message is RunbookWorker's; here  *)
(* it takes messages and writes entries to the store.                      *)
(*                                                                         *)
(* The probes /healthz and /readyz only read "ready", so they are no       *)
(* actions.  A connection that Redis refuses leaves everything as it is.   *)
(***************************************************************************)
EXTENDS Naturals, Sequences

CONSTANTS
    HealthServer,   \* ENABLE_HEALTH_SERVER
    MaxMessages,    \* bound: messages taken
    MaxEntries,     \* bound: entries written
    MaxRequests     \* bound: requests for /logs

ASSUME ProcessAssumption ==
    /\ HealthServer \in BOOLEAN
    /\ MaxMessages \in Nat /\ MaxEntries \in Nat /\ MaxRequests \in Nat

VARIABLES
    at,           \* the next step of main: a position of Startup, Worker or Ended
    work,         \* the worker: in its loop, polling or handling a message
    connected,    \* whether the worker has a connection
    reached,      \* history: whether it ever had one
    first,        \* whether the process is the first of its container
    handlers,     \* whether the signal handlers are installed
    stop,         \* stop_event
    terminating,  \* whether SIGTERM was sent
    asked,        \* history: whether it was sent so that the process must end
    ready,        \* _redis_ready of health.py
    http,         \* the health server: down, idle or answering /logs
    requests,     \* requests for /logs so far
    store,        \* _store: the number of a store, 0 for None
    made,         \* stores created so far
    backed,       \* those with a Redis client
    entries,      \* [s] entries in store s
    lookup,       \* [t] a thread's progress in init_ or get_execution_log_store
    client,       \* [t] the redis_client it passes: given or not
    holds,        \* [t] the store it was handed, 0 if none
    taken, late   \* history: messages taken, and those taken after stop was set

thread  == <<lookup, client, holds>>
stores  == <<store, made, backed, entries>>
worker  == <<work, connected, reached, taken, late>>
server  == <<http, requests>>
signals == <<first, handlers, stop, terminating, asked>>
vars    == <<at, worker, signals, ready, server, stores, thread>>

Threads == {"main", "http"}

\* Mutant: the health server is up before there is a store.
StartupHealthFirst == <<"kube", "health", "store", "handlers", "ready">>

\* Mutant: the store is left to whoever asks first.
StartupStoreless == <<"kube", "health", "handlers", "ready">>

\* main() in its order.
Startup == <<"store", "kube", "health", "handlers", "ready">>

Worker == Len(Startup) + 1
Ended  == 0

Init ==
    /\ at = 1 /\ work = "loop" /\ taken = 0 /\ late = 0
    /\ connected = FALSE /\ reached = FALSE
    /\ first \in BOOLEAN /\ handlers = FALSE /\ ready = FALSE
    /\ stop = FALSE /\ terminating = FALSE /\ asked = FALSE
    /\ http = "down" /\ requests = 0
    /\ store = 0 /\ made = 0 /\ backed = {} /\ entries = [s \in 1..2 |-> 0]
    /\ lookup = [t \in Threads |-> "out"]
    /\ client = [t \in Threads |-> FALSE]
    /\ holds  = [t \in Threads |-> 0]

-----------------------------------------------------------------------------
(* init_execution_log_store and get_execution_log_store.                   *)

Calls(t, given) ==
    /\ lookup' = [lookup EXCEPT ![t] = "called"]
    /\ client' = [client EXCEPT ![t] = given]
    /\ holds'  = [holds EXCEPT ![t] = 0]

Frame == UNCHANGED <<at, worker, signals, ready, server>>

\* Mutant: a store is made whether there is one or not.
FindsNoneAlways(t) ==
    /\ lookup[t] = "called" /\ made < 2
    /\ lookup' = [lookup EXCEPT ![t] = "making"]
    /\ UNCHANGED <<stores, client, holds>> /\ Frame

FindsNone(t) ==
    /\ lookup[t] = "called" /\ store = 0
    /\ lookup' = [lookup EXCEPT ![t] = "making"]
    /\ UNCHANGED <<stores, client, holds>> /\ Frame

Makes(t) ==
    /\ lookup[t] = "making"
    /\ made' = made + 1 /\ store' = made + 1
    /\ backed' = IF client[t] THEN backed \cup {made + 1} ELSE backed
    /\ lookup' = [lookup EXCEPT ![t] = "called"]
    /\ UNCHANGED <<entries, client, holds>> /\ Frame

\* return _store.
Finds(t) ==
    /\ lookup[t] = "called" /\ store # 0
    /\ lookup' = [lookup EXCEPT ![t] = "out"]
    /\ holds'  = [holds EXCEPT ![t] = store]
    /\ UNCHANGED <<stores, client>> /\ Frame

Looks(t) == at # Ended /\ (FindsNone(t) \/ Makes(t) \/ Finds(t))

-----------------------------------------------------------------------------
(* main().                                                                 *)

Reaches(step) == at \in DOMAIN Startup /\ Startup[at] = step /\ lookup["main"] = "out"

OpenStore ==
    /\ Reaches("store") /\ at' = at + 1 /\ Calls("main", FALSE)
    /\ UNCHANGED <<worker, signals, ready, server, stores>>

\* Loaded or not, main goes on.
LoadKubeConfig ==
    /\ Reaches("kube") /\ at' = at + 1
    /\ UNCHANGED <<worker, signals, ready, server, stores, thread>>

StartHealthServer ==
    /\ Reaches("health") /\ at' = at + 1
    /\ http' = IF HealthServer THEN "idle" ELSE "down"
    /\ UNCHANGED <<worker, signals, ready, requests, stores, thread>>

\* The port is taken: the OSError ends main().
PortTaken ==
    /\ Reaches("health") /\ HealthServer /\ at' = Ended
    /\ UNCHANGED <<worker, signals, ready, server, stores, thread>>

InstallHandlers ==
    /\ Reaches("handlers") /\ at' = at + 1 /\ handlers' = TRUE
    /\ UNCHANGED <<worker, first, stop, terminating, asked, ready, server, stores, thread>>

SignalReady ==
    /\ Reaches("ready") /\ at' = at + 1 /\ ready' = TRUE
    /\ UNCHANGED <<worker, signals, server, stores, thread>>

-----------------------------------------------------------------------------
(* RedisWorker.run, as far as the process sees it.                         *)

Working(where) == at = Worker /\ lookup["main"] = "out" /\ work = where

\* _ensure_connected: a new connection is offered to the store.
Connect ==
    /\ Working("loop") /\ ~stop /\ ~connected
    /\ work' = "polling" /\ connected' = TRUE /\ reached' = TRUE
    /\ Calls("main", TRUE)
    /\ UNCHANGED <<at, taken, late, signals, ready, server, stores>>

\* The ping times out: the worker keeps the client, the store is not offered it.
ConnectTimesOut ==
    /\ Working("loop") /\ ~stop /\ ~connected /\ connected' = TRUE
    /\ UNCHANGED <<at, work, reached, taken, late, signals, ready, server, stores, thread>>

Poll ==
    /\ Working("loop") /\ ~stop /\ connected
    /\ work' = "polling"
    /\ UNCHANGED <<at, connected, reached, taken, late, signals, ready, server, stores, thread>>

\* No message, or the connection is lost.
PollEnds ==
    /\ Working("polling") /\ work' = "loop" /\ connected' \in BOOLEAN
    /\ UNCHANGED <<at, reached, taken, late, signals, ready, server, stores, thread>>

\* A message: _handle_message asks for the store.
Take ==
    /\ Working("polling") /\ taken < MaxMessages
    /\ work' = "handling" /\ taken' = taken + 1
    /\ late' = IF stop THEN late + 1 ELSE late
    /\ Calls("main", FALSE)
    /\ UNCHANGED <<at, connected, reached, signals, ready, server, stores>>

Log ==
    /\ Working("handling") /\ entries[holds["main"]] < MaxEntries
    /\ entries' = [entries EXCEPT ![holds["main"]] = @ + 1]
    /\ UNCHANGED <<at, worker, signals, ready, server, store, made, backed, thread>>

\* Mutant: the list is emptied before the loop looks at stop_event.
HandledPollsOn ==
    /\ Working("handling") /\ work' = "polling"
    /\ UNCHANGED <<at, connected, reached, taken, late, signals, ready, server, stores, thread>>

\* Mutant: the event is cleared after a message.
HandledClears ==
    /\ Working("handling") /\ work' = "loop" /\ stop' = FALSE
    /\ UNCHANGED <<at, connected, reached, taken, late, first, handlers, terminating,
                   asked, ready, server, stores, thread>>

Handled ==
    /\ Working("handling") /\ work' = "loop"
    /\ UNCHANGED <<at, connected, reached, taken, late, signals, ready, server, stores, thread>>

\* Mutant: the loop ends only when Redis is there.
StopsConnected ==
    /\ Working("loop") /\ stop /\ connected /\ at' = Ended
    /\ UNCHANGED <<worker, signals, ready, server, stores, thread>>

Stops ==
    /\ Working("loop") /\ stop /\ at' = Ended
    /\ UNCHANGED <<worker, signals, ready, server, stores, thread>>

-----------------------------------------------------------------------------
(* The health server's thread, and Kubernetes.                             *)

\* GET /logs.
LogsAsked ==
    /\ at # Ended /\ http = "idle" /\ requests < MaxRequests
    /\ http' = "logs" /\ requests' = requests + 1
    /\ Calls("http", FALSE)
    /\ UNCHANGED <<at, worker, signals, ready, stores>>

LogsAnswered ==
    /\ at # Ended /\ http = "logs" /\ lookup["http"] = "out" /\ http' = "idle"
    /\ holds' = [holds EXCEPT !["http"] = 0]
    /\ UNCHANGED <<at, worker, signals, ready, requests, stores, lookup, client>>

\* Without a handler SIGTERM ends a process, unless it is the first of its
\* container: then it is ignored.  It may be sent again.
Sigterm ==
    /\ at # Ended /\ terminating' = TRUE
    /\ asked' = (asked \/ handlers \/ ~first)
    /\ \/ handlers /\ stop' = TRUE /\ UNCHANGED at
       \/ ~handlers /\ first /\ UNCHANGED <<stop, at>>
       \/ ~handlers /\ ~first /\ at' = Ended /\ UNCHANGED stop
    /\ UNCHANGED <<worker, first, handlers, ready, server, stores, thread>>

\* SIGKILL once the grace period is over.
Kill ==
    /\ at # Ended /\ terminating /\ at' = Ended
    /\ UNCHANGED <<worker, signals, ready, server, stores, thread>>

Main ==
    \/ Looks("main")
    \/ OpenStore \/ LoadKubeConfig \/ StartHealthServer \/ PortTaken
    \/ InstallHandlers \/ SignalReady
    \/ Connect \/ ConnectTimesOut \/ Poll \/ PollEnds \/ Take \/ Log \/ Handled \/ Stops

Next == Main \/ Looks("http") \/ LogsAsked \/ LogsAnswered \/ Sigterm \/ Kill

Spec == Init /\ [][Next]_vars

\* The main thread goes on: BRPOP has a timeout and the handling of a message
\* ends.
FairSpec == Spec /\ WF_vars(Main)
=============================================================================
