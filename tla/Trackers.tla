------------------------------ MODULE Trackers ------------------------------
(***************************************************************************)
(* CooldownTracker and RunbookDeduplicator of app/utils.py.  Both are      *)
(* dictionaries of monotonic timestamps; a key the dictionary does not     *)
(* hold maps to Never here.  The operators take the clock as argument.     *)
(***************************************************************************)
EXTENDS Integers

CONSTANTS
    CooldownSeconds,   \* COOLDOWN_SECONDS
    RunbookDedupTTL    \* RUNBOOK_DEDUP_TTL

ASSUME TrackerAssumption == CooldownSeconds \in Nat /\ RunbookDedupTTL \in Nat

Never == -1
Timestamp == Nat \cup {Never}

-----------------------------------------------------------------------------
\* Mutant: the boundary is one tick early.
IsAllowedEarly(last, t) == last = Never \/ t - last >= CooldownSeconds - 1

\* CooldownTracker.is_allowed, given the recorded timestamp of the key.
IsAllowed(last, t) == last = Never \/ t - last >= CooldownSeconds

\* Mutant: setdefault instead of an assignment.
RecordFirst(lastRun, key, t) ==
    IF lastRun[key] = Never THEN [lastRun EXCEPT ![key] = t] ELSE lastRun

\* CooldownTracker.record
Record(lastRun, key, t) == [lastRun EXCEPT ![key] = t]

-----------------------------------------------------------------------------
\* RunbookDeduplicator._evict_expired
EvictExpired(seen, t) ==
    [id \in DOMAIN seen |-> IF t >= seen[id] THEN Never ELSE seen[id]]

\* RunbookDeduplicator.is_duplicate, which evicts first
IsDuplicate(seen, id, t) ==
    LET exp == EvictExpired(seen, t)[id] IN exp # Never /\ t < exp

\* Mutant: the time of processing is stored where the expiry belongs.
MarkProcessedNow(seen, id, t) == [seen EXCEPT ![id] = t]

\* RunbookDeduplicator.mark_processed
MarkProcessed(seen, id, t) == [seen EXCEPT ![id] = t + RunbookDedupTTL]
=============================================================================
