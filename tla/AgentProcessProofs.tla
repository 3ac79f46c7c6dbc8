-------------------------- MODULE AgentProcessProofs --------------------------
(***************************************************************************)
(* TypeOK, LogsAreWhole, OneMoreAtMost, SignalIsHonoured and               *)
(* StoreStaysInMemory hold of AgentProcess for every configuration and     *)
(* bound.                                                                  *)
(*                                                                         *)
(* get_execution_log_store creates a store if it finds none, and nothing   *)
(* keeps two threads from doing so at once.  What does is the order of     *)
(* main(): StoreFirst says that only the main thread ever finds none, and  *)
(* before the health server is there.                                      *)
(***************************************************************************)
EXTENDS AgentProcessProperties, TLAPS

\* TypeOK in two halves: the flags, and everything else.
Flags ==
    /\ connected \in BOOLEAN /\ reached \in BOOLEAN /\ ready \in BOOLEAN
    /\ first \in BOOLEAN /\ handlers \in BOOLEAN
    /\ stop \in BOOLEAN /\ terminating \in BOOLEAN /\ asked \in BOOLEAN
    /\ client \in [Threads -> BOOLEAN]

Kinds ==
    /\ at \in Ended..Worker /\ work \in {"loop", "polling", "handling"}
    /\ http \in {"down", "idle", "logs"} /\ requests \in Nat
    /\ made \in 0..1 /\ store \in 0..made /\ backed \subseteq 1..made
    /\ entries \in [1..2 -> Nat] /\ taken \in Nat /\ late \in Nat
    /\ lookup \in [Threads -> {"out", "called", "making"}]
    /\ holds \in [Threads -> 0..made]

StoreFirst ==
    /\ store = made
    /\ made = 0 => /\ http = "down" /\ lookup["http"] = "out"
                   /\ at \in {Ended, 1} \/ (at = 2 /\ lookup["main"] # "out")
    /\ lookup["main"] = "making" => made = 0
    /\ lookup["http"] # "making"
    /\ entries[2] = 0 /\ (made = 0 => entries[1] = 0)
    /\ work # "loop" => at \in {Ended, Worker}
    /\ work = "handling" /\ lookup["main"] = "out" => holds["main"] = 1
    /\ holds["main"] = 1 \/ holds["http"] = 1 => made = 1

StoreInv == Kinds /\ StoreFirst

LEMMA Steps5 ==
    /\ Worker = 6 /\ Ended = 0 /\ DOMAIN Startup = 1..5
    /\ Startup[1] = "store" /\ Startup[2] = "kube" /\ Startup[3] = "health"
    /\ Startup[4] = "handlers" /\ Startup[5] = "ready"
  BY DEF Worker, Ended, Startup

LEMMA FlagsInit == Init => Flags
  BY Zenon DEF Init, Flags

LEMMA FlagsStep == Flags /\ [Next]_vars => Flags'
<1> SUFFICES ASSUME Flags, [Next]_vars PROVE Flags'
  OBVIOUS
<1> USE DEF Flags, worker, signals, server, stores, thread
<1>1. ASSUME NEW t \in Threads, FindsNone(t) PROVE Flags'
  BY <1>1, Zenon DEF FindsNone, Frame
<1>2. ASSUME NEW t \in Threads, Makes(t) PROVE Flags'
  BY <1>2, Zenon DEF Makes, Frame
<1>3. ASSUME NEW t \in Threads, Finds(t) PROVE Flags'
  BY <1>3, Zenon DEF Finds, Frame
<1>4. CASE OpenStore
  BY <1>4 DEF OpenStore, Calls
<1>5. CASE LoadKubeConfig
  BY <1>5, Zenon DEF LoadKubeConfig
<1>6. CASE StartHealthServer
  BY <1>6, Zenon DEF StartHealthServer
<1>7. CASE PortTaken
  BY <1>7, Zenon DEF PortTaken
<1>8. CASE InstallHandlers
  BY <1>8, Zenon DEF InstallHandlers
<1>9. CASE SignalReady
  BY <1>9, Zenon DEF SignalReady
<1>10. CASE Connect
  BY <1>10 DEF Connect, Calls
<1>11. CASE ConnectTimesOut
  BY <1>11, Zenon DEF ConnectTimesOut
<1>12. CASE Poll
  BY <1>12, Zenon DEF Poll
<1>13. CASE PollEnds
  BY <1>13, Zenon DEF PollEnds
<1>14. CASE Take
  BY <1>14 DEF Take, Calls
<1>15. CASE Log
  BY <1>15, Zenon DEF Log
<1>16. CASE Handled
  BY <1>16, Zenon DEF Handled
<1>17. CASE Stops
  BY <1>17, Zenon DEF Stops
<1>18. CASE LogsAsked
  BY <1>18 DEF LogsAsked, Calls
<1>19. CASE LogsAnswered
  BY <1>19, Zenon DEF LogsAnswered
<1>20. CASE Sigterm
  BY <1>20, Zenon DEF Sigterm
<1>21. CASE Kill
  BY <1>21, Zenon DEF Kill
<1>22. CASE UNCHANGED vars
  BY <1>22, Zenon DEF vars
<1> QED
  BY <1>1, <1>2, <1>3, <1>4, <1>5, <1>6, <1>7, <1>8, <1>9, <1>10, <1>11, <1>12, <1>13, <1>14,
     <1>15, <1>16, <1>17, <1>18, <1>19, <1>20, <1>21, <1>22
  DEF Next, Main, Looks, Threads

LEMMA StoreInvInit == Init => StoreInv
<1> SUFFICES ASSUME Init PROVE StoreInv
  OBVIOUS
<1>1. Kinds
  BY Steps5 DEF Init, Kinds, Threads
<1>2. StoreFirst
  BY Steps5 DEF Init, StoreFirst, Threads
<1> QED BY <1>1, <1>2 DEF StoreInv

LEMMA StoreInvStep == StoreInv /\ [Next]_vars => StoreInv'
<1> SUFFICES ASSUME StoreInv, [Next]_vars PROVE StoreInv'
  OBVIOUS
<1> USE Steps5 DEF StoreInv, StoreFirst, Kinds, worker, signals, server, stores, thread
<1>1. ASSUME NEW t \in Threads, FindsNone(t) PROVE StoreInv'
  <2>1. t = "main" /\ made = 0
    BY <1>1 DEF FindsNone, Threads
  <2> QED BY <1>1, <2>1 DEF FindsNone, Frame, Threads
<1>2. ASSUME NEW t \in Threads, Makes(t) PROVE StoreInv'
  BY <1>2 DEF Makes, Frame, Threads
<1>3. ASSUME NEW t \in Threads, Finds(t) PROVE StoreInv'
  BY <1>3 DEF Finds, Frame, Threads
<1>4. CASE OpenStore
  BY <1>4 DEF OpenStore, Reaches, Calls, Threads
<1>5. CASE LoadKubeConfig
  BY <1>5 DEF LoadKubeConfig, Reaches
<1>6. CASE StartHealthServer
  BY <1>6 DEF StartHealthServer, Reaches
<1>7. CASE PortTaken
  BY <1>7 DEF PortTaken, Reaches
<1>8. CASE InstallHandlers
  BY <1>8 DEF InstallHandlers, Reaches
<1>9. CASE SignalReady
  BY <1>9 DEF SignalReady, Reaches
<1>10. CASE Connect
  BY <1>10 DEF Connect, Working, Calls, Threads
<1>11. CASE ConnectTimesOut
  BY <1>11 DEF ConnectTimesOut, Working
<1>12. CASE Poll
  BY <1>12 DEF Poll, Working
<1>13. CASE PollEnds
  BY <1>13 DEF PollEnds, Working
<1>14. CASE Take
  BY <1>14 DEF Take, Working, Calls, Threads
<1>15. CASE Log
  BY <1>15 DEF Log, Working, Threads
<1>16. CASE Handled
  BY <1>16 DEF Handled, Working
<1>17. CASE Stops
  BY <1>17 DEF Stops, Working
<1>18. CASE LogsAsked
  BY <1>18 DEF LogsAsked, Calls, Threads
<1>19. CASE LogsAnswered
  BY <1>19 DEF LogsAnswered, Threads
<1>20. CASE Sigterm
  BY <1>20 DEF Sigterm
<1>21. CASE Kill
  BY <1>21 DEF Kill
<1>22. CASE UNCHANGED vars
  BY <1>22 DEF vars
<1> QED
  BY <1>1, <1>2, <1>3, <1>4, <1>5, <1>6, <1>7, <1>8, <1>9, <1>10, <1>11, <1>12, <1>13, <1>14,
     <1>15, <1>16, <1>17, <1>18, <1>19, <1>20, <1>21, <1>22
  DEF Next, Main, Looks, Threads

LEMMA StoreInvAlways == Spec => []StoreInv
<1> QED BY StoreInvInit, StoreInvStep, PTL DEF Spec

\* Every variable keeps its type, and there is only one store: only main()
\* creates one, before the health server is there to ask for it.
THEOREM ProcessTypeCorrect == Spec => []TypeOK
<1>1. Flags /\ StoreInv => TypeOK
  BY Zenon DEF Flags, StoreInv, Kinds, TypeOK
<1>2. Spec => []Flags
  BY FlagsInit, FlagsStep, PTL DEF Spec
<1> QED BY <1>1, <1>2, StoreInvAlways, PTL

\* /logs is answered from the store the worker writes to.
THEOREM LogsAreAlwaysWhole == Spec => []LogsAreWhole
<1>1. StoreInv => LogsAreWhole
  BY DEF StoreInv, StoreFirst, Kinds, LogsAreWhole, Threads
<1> QED BY <1>1, StoreInvAlways, PTL

\* A worker that still polls has taken nothing since it was asked to stop.
PollInv == /\ ~stop \/ work = "polling" => late = 0
           /\ late <= 1

LEMMA PollInvStep == StoreInv /\ PollInv /\ [Next]_vars => PollInv'
<1> SUFFICES ASSUME StoreInv, PollInv, [Next]_vars PROVE PollInv'
  OBVIOUS
<1> USE DEF StoreInv, Kinds, PollInv, worker, signals
<1>1. ASSUME NEW t \in Threads, FindsNone(t) \/ Makes(t) \/ Finds(t) PROVE PollInv'
  BY <1>1 DEF FindsNone, Makes, Finds, Frame
<1>2. CASE OpenStore \/ LoadKubeConfig \/ StartHealthServer
  BY <1>2 DEF OpenStore, LoadKubeConfig, StartHealthServer
<1>3. CASE PortTaken \/ InstallHandlers \/ SignalReady
  BY <1>3 DEF PortTaken, InstallHandlers, SignalReady
<1>4. CASE Connect \/ ConnectTimesOut \/ Poll
  BY <1>4 DEF Connect, ConnectTimesOut, Poll, Working
<1>5. CASE PollEnds
  BY <1>5 DEF PollEnds, Working
<1>6. CASE Take
  BY <1>6 DEF Take, Working
<1>7. CASE Log \/ Handled \/ Stops
  BY <1>7 DEF Log, Handled, Stops, Working
<1>8. CASE LogsAsked \/ LogsAnswered
  BY <1>8 DEF LogsAsked, LogsAnswered
<1>9. CASE Sigterm
  BY <1>9 DEF Sigterm
<1>10. CASE Kill \/ UNCHANGED vars
  BY <1>10 DEF Kill, vars
<1> QED
  BY <1>1, <1>2, <1>3, <1>4, <1>5, <1>6, <1>7, <1>8, <1>9, <1>10 DEF Next, Main, Looks, Threads

\* Whatever the interleaving of signal, poll and message, one more message is
\* taken at most.
THEOREM OneMoreAtMostHolds == Spec => []OneMoreAtMost
<1>1. Init => PollInv
  BY DEF Init, PollInv
<1>2. PollInv => OneMoreAtMost
  BY DEF PollInv, OneMoreAtMost
<1> QED BY <1>1, <1>2, PollInvStep, StoreInvAlways, PTL DEF Spec

-----------------------------------------------------------------------------
(* Signals.                                                                *)

\* A process that was asked to end has ended or will stop.
Heeded == asked => stop \/ at = Ended

\* From the step that installs the handlers on, signals are heard.
Hearing == at \in {5, 6} \/ ready => handlers

SignalInv == Heeded /\ Hearing

LEMMA SignalInvStep == Flags /\ SignalInv /\ [Next]_vars => SignalInv'
<1> SUFFICES ASSUME Flags, SignalInv, [Next]_vars PROVE SignalInv'
  OBVIOUS
<1>1. ASSUME asked' = asked, stop' = stop, at # Ended \/ at' = Ended PROVE Heeded'
  BY <1>1, Zenon DEF SignalInv, Heeded
<1>2. ASSUME handlers' = handlers, ready' = ready, at' = at \/ at' \notin {5, 6} PROVE Hearing'
  BY <1>2, Zenon DEF SignalInv, Hearing
<1>3. ASSUME UNCHANGED <<signals, ready, at>> PROVE SignalInv'
  <2>1. asked' = asked /\ stop' = stop /\ handlers' = handlers /\ ready' = ready /\ at' = at
    BY <1>3 DEF signals
  <2> QED BY <2>1, Zenon DEF SignalInv, Heeded, Hearing
<1>4. ASSUME NEW t \in Threads, FindsNone(t) \/ Makes(t) \/ Finds(t) PROVE SignalInv'
  BY <1>3, <1>4 DEF FindsNone, Makes, Finds, Frame
<1>5. CASE OpenStore \/ LoadKubeConfig \/ StartHealthServer \/ PortTaken
  <2>1. asked' = asked /\ stop' = stop /\ handlers' = handlers /\ ready' = ready
    BY <1>5 DEF OpenStore, LoadKubeConfig, StartHealthServer, PortTaken, signals
  <2>2. at \in 1..3
    <3>1. at \in 1..5 /\ Startup[at] \in {"store", "kube", "health"}
      BY <1>5, Steps5 DEF OpenStore, LoadKubeConfig, StartHealthServer, PortTaken, Reaches
    <3>2. at # 4 /\ at # 5
      BY <3>1, Steps5
    <3> QED BY <3>1, <3>2
  <2>3. at' \in {at + 1, 0}
    BY <1>5, Steps5 DEF OpenStore, LoadKubeConfig, StartHealthServer, PortTaken
  <2>4. at # Ended /\ at' \notin {5, 6}
    BY <2>2, <2>3, Steps5
  <2> QED BY <1>1, <1>2, <2>1, <2>4 DEF SignalInv
<1>6. CASE InstallHandlers
  <2>1. asked' = asked /\ stop' = stop /\ handlers' /\ at # Ended
    BY <1>6, Steps5 DEF InstallHandlers, Reaches
  <2> QED BY <1>1, <2>1, Zenon DEF SignalInv, Hearing
<1>7. CASE SignalReady
  <2>1. /\ asked' = asked /\ stop' = stop /\ handlers' = handlers
        /\ at = 5 /\ at # Ended
    BY <1>7, Steps5 DEF SignalReady, Reaches, signals
  <2>2. handlers
    BY <2>1 DEF SignalInv, Hearing
  <2> QED BY <1>1, <2>1, <2>2, Zenon DEF SignalInv, Hearing
<1>8. CASE Connect \/ ConnectTimesOut \/ Poll \/ PollEnds \/ Take \/ Log \/ Handled
  BY <1>3, <1>8 DEF Connect, ConnectTimesOut, Poll, PollEnds, Take, Log, Handled
<1>9. CASE LogsAsked \/ LogsAnswered \/ UNCHANGED vars
  BY <1>3, <1>9 DEF LogsAsked, LogsAnswered, vars
<1>10. CASE Stops \/ Kill
  <2>1. /\ asked' = asked /\ stop' = stop /\ handlers' = handlers /\ ready' = ready
        /\ at' = Ended /\ at' \notin {5, 6}
    BY <1>10, Steps5 DEF Stops, Kill, signals
  <2> QED BY <1>1, <1>2, <2>1 DEF SignalInv
<1>11. CASE Sigterm
  <2>1. handlers' = handlers /\ ready' = ready /\ (at' = at \/ at' \notin {5, 6})
    BY <1>11, Steps5 DEF Sigterm
  <2>2. Heeded'
    <3>1. CASE handlers \/ ~first
      BY <1>11, <3>1, Zenon DEF Sigterm, Heeded
    <3>2. CASE ~handlers /\ first
      <4>1. asked' = asked /\ stop' = stop /\ at' = at
        BY <1>11, <3>2, Zenon DEF Sigterm, Flags
      <4> QED BY <4>1, Zenon DEF SignalInv, Heeded
    <3> QED BY <3>1, <3>2
  <2> QED BY <1>2, <2>1, <2>2 DEF SignalInv
<1> QED
  BY <1>4, <1>5, <1>6, <1>7, <1>8, <1>9, <1>10, <1>11 DEF Next, Main, Looks, Threads

\* A SIGTERM asks the worker to stop or ends the process, whenever it comes and
\* also in the first process of a container: that one misses only what comes
\* before the handlers are there, which is before it is ready.
THEOREM SignalsAreHonoured == Spec => []SignalIsHonoured
<1>1. Init => SignalInv
  BY Steps5 DEF Init, SignalInv, Heeded, Hearing
<1>2. SignalInv => SignalIsHonoured
  BY DEF SignalInv, Heeded, Hearing, SignalIsHonoured
<1> QED BY <1>1, <1>2, SignalInvStep, FlagsInit, FlagsStep, PTL DEF Spec

-----------------------------------------------------------------------------
(* The store and Redis.                                                    *)

\* Whoever may come to make a store passes no client.
WireInv ==
    /\ backed = {}
    /\ \A t \in Threads :
          lookup[t] = "making" \/ (lookup[t] = "called" /\ made = 0) => client[t] = FALSE

LEMMA WireInvStep == Flags /\ StoreInv /\ WireInv /\ [Next]_vars => WireInv'
<1> SUFFICES ASSUME Flags, StoreInv, WireInv, [Next]_vars PROVE WireInv'
  OBVIOUS
<1> DEFINE Kept == /\ backed' = backed /\ made' = made
                   /\ lookup' = lookup /\ client' = client
<1>1. CASE Kept
  BY <1>1 DEF WireInv
<1>2. ASSUME NEW t \in Threads, NEW given, Calls(t, given), made' = made, backed' = backed,
             given = FALSE \/ made # 0
      PROVE  WireInv'
  <2>1. /\ lookup \in [Threads -> {"out", "called", "making"}]
        /\ client \in [Threads -> BOOLEAN]
        /\ client' = [client EXCEPT ![t] = given] /\ lookup' = [lookup EXCEPT ![t] = "called"]
    BY <1>2 DEF Calls, StoreInv, Kinds, Flags
  <2>2. \A u \in Threads : u # t => client'[u] = client[u] /\ lookup'[u] = lookup[u]
    BY <2>1
  <2>3. lookup'[t] = "called"
    BY <2>1
  <2>4. given = FALSE => client'[t] = FALSE
    BY <2>1
  <2> QED BY <1>2, <2>2, <2>3, <2>4 DEF WireInv
<1>3. ASSUME NEW t \in Threads, FindsNone(t) PROVE WireInv'
  <2>1. /\ lookup[t] = "called" /\ made = 0 /\ made' = made /\ backed' = backed
        /\ client' = client /\ lookup' = [lookup EXCEPT ![t] = "making"]
        /\ lookup \in [Threads -> {"out", "called", "making"}]
    BY <1>3 DEF FindsNone, stores, StoreInv, StoreFirst, Kinds
  <2>2. \A u \in Threads : u # t => lookup'[u] = lookup[u]
    BY <2>1
  <2> QED BY <2>1, <2>2, Zenon DEF WireInv
<1>4. ASSUME NEW t \in Threads, Makes(t) PROVE WireInv'
  <2>1. client[t] = FALSE
    BY <1>4 DEF Makes, WireInv
  <2>2. backed' = {}
    BY <1>4, <2>1, Zenon DEF Makes, WireInv
  <2>3. /\ made' = made + 1 /\ made \in 0..1 /\ client' = client
        /\ lookup \in [Threads -> {"out", "called", "making"}]
        /\ lookup' = [lookup EXCEPT ![t] = "called"]
    BY <1>4 DEF Makes, StoreInv, Kinds
  <2>4. made' # 0
    BY <2>3
  <2>5. \A u \in Threads : lookup'[u] = "making" => lookup[u] = "making"
    BY <2>3
  <2> QED BY <2>2, <2>3, <2>4, <2>5, Zenon DEF WireInv
<1>5. ASSUME NEW t \in Threads, Finds(t) PROVE WireInv'
  <2>1. /\ made' = made /\ backed' = backed /\ client' = client
        /\ lookup' = [lookup EXCEPT ![t] = "out"]
        /\ lookup \in [Threads -> {"out", "called", "making"}]
    BY <1>5 DEF Finds, stores, StoreInv, Kinds
  <2>2. \A u \in Threads : lookup'[u] \in {lookup[u], "out"}
    BY <2>1
  <2> QED BY <2>1, <2>2 DEF WireInv
<1>6. CASE OpenStore \/ Take
  BY <1>2, <1>6 DEF OpenStore, Take, stores, Threads
<1>7. CASE LogsAsked
  BY <1>2, <1>7 DEF LogsAsked, stores, Threads
<1>8. CASE Connect
  <2>1. made # 0
    BY <1>8, Steps5 DEF Connect, Working, StoreInv, StoreFirst
  <2> QED BY <1>2, <1>8, <2>1 DEF Connect, stores, Threads
<1>9. CASE LoadKubeConfig \/ StartHealthServer \/ PortTaken \/ InstallHandlers \/ SignalReady
  BY <1>1, <1>9 DEF LoadKubeConfig, StartHealthServer, PortTaken, InstallHandlers, SignalReady,
                    stores, thread
<1>10. CASE ConnectTimesOut \/ Poll \/ PollEnds \/ Log \/ Handled \/ Stops
  BY <1>1, <1>10 DEF ConnectTimesOut, Poll, PollEnds, Log, Handled, Stops, stores, thread
<1>11. CASE LogsAnswered \/ Sigterm \/ Kill \/ UNCHANGED vars
  BY <1>1, <1>11 DEF LogsAnswered, Sigterm, Kill, vars, stores, thread
<1> QED
  BY <1>3, <1>4, <1>5, <1>6, <1>7, <1>8, <1>9, <1>10, <1>11 DEF Next, Main, Looks, Threads

\* No execution log ever reaches Redis: main() makes the store before there is
\* a connection, and what the worker offers later is dropped.
THEOREM StoreNeverWired == Spec => []StoreStaysInMemory
<1>1. Init => WireInv
  BY DEF Init, WireInv
<1>2. WireInv => StoreStaysInMemory
  BY DEF WireInv, StoreStaysInMemory
<1> QED BY <1>1, <1>2, WireInvStep, StoreInvAlways, FlagsInit, FlagsStep, PTL DEF Spec
=============================================================================
