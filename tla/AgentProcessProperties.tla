------------------------ MODULE AgentProcessProperties ------------------------
(***************************************************************************)
(* What the parts of the process may rely on.                              *)
(***************************************************************************)
EXTENDS AgentProcess

\* Every variable holds a value of its kind; there is never a second store.
TypeOK ==
    /\ at \in Ended..Worker /\ work \in {"loop", "polling", "handling"}
    /\ connected \in BOOLEAN /\ reached \in BOOLEAN /\ ready \in BOOLEAN
    /\ first \in BOOLEAN /\ handlers \in BOOLEAN
    /\ stop \in BOOLEAN /\ terminating \in BOOLEAN /\ asked \in BOOLEAN
    /\ http \in {"down", "idle", "logs"} /\ requests \in Nat
    /\ made \in 0..1 /\ store \in 0..made /\ backed \subseteq 1..made
    /\ entries \in [1..2 -> Nat] /\ taken \in Nat /\ late \in Nat
    /\ lookup \in [Threads -> {"out", "called", "making"}]
    /\ client \in [Threads -> BOOLEAN] /\ holds \in [Threads -> 0..made]

\* The answer to /logs is taken from the store that holds everything the
\* worker wrote: the two threads, each of which creates the store if it finds
\* none, never come to have two (get_execution_log_store, main).
LogsAreWhole ==
    http = "logs" /\ holds["http"] # 0
    => \A s \in DOMAIN entries : entries[s] > 0 => s = holds["http"]

\* No store ever has a Redis client, whatever connections the worker makes:
\* the store main() opens stays the only one, and the client offered later is
\* dropped.  What the log holds ends with the process (main,
\* get_execution_log_store, RedisWorker._ensure_connected).
StoreStaysInMemory == backed = {}

\* After stop_event is set the worker takes one more message at most: the one
\* it was waiting for (RedisWorker.run looks at stop_event before each poll).
\* That one it may take: app/redis_worker.py:126 says of _poll_once that it
\* "Returns immediately if the queue is empty or stop is requested", but it
\* does not look at stop_event, and BRPOP waits on for its timeout.
OneMoreAtMost == late <= 1

\* The process ends by itself once stop_event is set, whatever Redis does.
StopEndsProcess == stop ~> at = Ended

\* A SIGTERM is not forgotten: from the moment it is sent the process has ended
\* or is going to stop, however often and at whatever step of the start, a poll
\* or a message it comes.  Only the first process of a container - which this
\* one is in its image - misses those that come before main() installs the
\* handlers, and it is never ready while it would miss one (main,
\* main._handle_signal, RedisWorker.run).
SignalIsHonoured ==
    /\ asked => stop \/ at = Ended
    /\ ready => handlers

-----------------------------------------------------------------------------
(* Stated by a comment, and not kept by the code.                          *)

\* app/redis_worker.py:120: "Wire the execution log store to Redis once we know
\* Redis is reachable."
StoreIsWired == work = "handling" /\ holds["main"] # 0 => holds["main"] \in backed
=============================================================================
