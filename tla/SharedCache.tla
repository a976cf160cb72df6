----------------------------- MODULE SharedCache -----------------------------
(***************************************************************************)
(* The scheduler's single-flight cache (_cached, src/src/task_scheduler.py *)
(* 55-98), for one key: keys do not interact.  The first caller to miss    *)
(* owns the fetch, later ones await its future; any of them may be         *)
(* cancelled, for they run inside scheduled tasks that can be stopped.     *)
(*                                                                         *)
(* Nothing inside `async with _shared_cache_lock' suspends, so a lookup    *)
(* is one step, and so is what follows a fetch.  The cache is a machine of *)
(* its own beside the scheduler's: the names say which is which where      *)
(* TaskSchedulerProofs extends both.                                       *)
(***************************************************************************)
EXTENDS Naturals

CONSTANTS
  Callers,      \* scheduled tasks that want the key
  NoCaller,     \* Python's None, where a caller could be
  MaxCancels,   \* bound: cancellations
  MaxFailures   \* bound: fetches that raise

ASSUME CacheAssumption ==
  NoCaller \notin Callers /\ MaxCancels \in Nat /\ MaxFailures \in Nat

VARIABLES
  entry,      \* _shared_cache[key]: "absent", "fresh" or "stale" (past its ttl)
  pending,    \* the caller whose future is _shared_cache_pending[key], or none
  dead,       \* that future is cancelled
  call,       \* where each caller's call of _cached is, or how it ended
  cancels, failures   \* what the bounds count

cacheVars == <<entry, pending, dead, call, cancels, failures>>

Over == {"returned", "raised", "cancelled"}

CacheTypeOK ==
  /\ entry \in {"absent", "fresh", "stale"}
  /\ pending \in Callers \cup {NoCaller} /\ dead \in BOOLEAN
  /\ call \in [Callers -> {"idle", "fetching", "waiting"} \cup Over]
  /\ cancels \in 0..MaxCancels /\ failures \in 0..MaxFailures

CacheInit ==
  /\ entry = "absent" /\ pending = NoCaller /\ dead = FALSE
  /\ call = [c \in Callers |-> "idle"]
  /\ cancels = 0 /\ failures = 0

Waiting == {c \in Callers : call[c] = "waiting"}

\* The call ends: c's with `mine', and those that share its future with `theirs'.
Settled(c, mine, theirs) ==
  [d \in Callers |-> IF d = c THEN mine ELSE IF d \in Waiting THEN theirs ELSE call[d]]

-----------------------------------------------------------------------------
(* Faults a change to this code could bring in.                             *)

\* Two callers look the key up before either registers its future.
LookupForgetsPending(c) ==
  \/ entry = "fresh" /\ call' = [call EXCEPT ![c] = "returned"] /\ UNCHANGED pending
  \/ entry # "fresh" /\ call' = [call EXCEPT ![c] = "fetching"] /\ pending' = c

\* The handler of a failed fetch drops the future without settling it.
FetchRaisesSilently(c) ==
  /\ call[c] = "fetching" /\ failures < MaxFailures
  /\ failures' = failures + 1
  /\ pending' = NoCaller /\ dead' = FALSE
  /\ call' = [call EXCEPT ![c] = "raised"]
  /\ UNCHANGED <<entry, cancels>>

-----------------------------------------------------------------------------
(* The call and its steps.                                                  *)

\* The lookup.  Awaiting a future that is already cancelled raises at once.
Lookup(c) ==
  \/ entry = "fresh" /\ call' = [call EXCEPT ![c] = "returned"] /\ UNCHANGED pending
  \/ /\ entry # "fresh" /\ pending # NoCaller
     /\ call' = [call EXCEPT ![c] = IF dead THEN "cancelled" ELSE "waiting"]
     /\ UNCHANGED pending
  \/ /\ entry # "fresh" /\ pending = NoCaller
     /\ call' = [call EXCEPT ![c] = "fetching"] /\ pending' = c

Call(c) ==
  /\ call[c] = "idle"
  /\ Lookup(c)
  /\ UNCHANGED <<entry, dead, cancels, failures>>

\* The value is stored first; set_result on a cancelled future then raises.
FetchReturns(c) ==
  /\ call[c] = "fetching"
  /\ entry' = "fresh" /\ pending' = NoCaller /\ dead' = FALSE
  /\ call' = IF dead THEN [call EXCEPT ![c] = "raised"] ELSE Settled(c, "returned", "returned")
  /\ UNCHANGED <<cancels, failures>>

FetchRaises(c) ==
  /\ call[c] = "fetching" /\ failures < MaxFailures
  /\ failures' = failures + 1
  /\ pending' = NoCaller /\ dead' = FALSE
  /\ call' = IF dead THEN [call EXCEPT ![c] = "raised"] ELSE Settled(c, "raised", "raised")
  /\ UNCHANGED <<entry, cancels>>

\* CancelledError is not an Exception: no handler runs, the future stays.
CancelOwner(c) ==
  /\ call[c] = "fetching" /\ cancels < MaxCancels
  /\ call' = [call EXCEPT ![c] = "cancelled"]
  /\ cancels' = cancels + 1
  /\ UNCHANGED <<entry, pending, dead, failures>>

\* Cancelling a task cancels the future it awaits, which all waiters share.
CancelWaiter(c) ==
  /\ call[c] = "waiting" /\ cancels < MaxCancels
  /\ call' = [d \in Callers |-> IF d \in Waiting THEN "cancelled" ELSE call[d]]
  /\ dead' = TRUE
  /\ cancels' = cancels + 1
  /\ UNCHANGED <<entry, pending, failures>>

Expire ==
  /\ entry = "fresh" /\ entry' = "stale"
  /\ UNCHANGED <<pending, dead, call, cancels, failures>>

\* The task runs again later and asks for the key anew.
Again(c) ==
  /\ call[c] \in Over
  /\ call' = [call EXCEPT ![c] = "idle"]
  /\ UNCHANGED <<entry, pending, dead, cancels, failures>>

CacheNext ==
  \/ Expire
  \/ \E c \in Callers : \/ Call(c) \/ FetchReturns(c) \/ FetchRaises(c)
                        \/ CancelOwner(c) \/ CancelWaiter(c) \/ Again(c)

CacheSpec == CacheInit /\ [][CacheNext]_cacheVars

\* A fetch ends: it is an HTTP request with a timeout.
CacheFairSpec == CacheSpec /\ \A c \in Callers : WF_cacheVars(FetchReturns(c) \/ FetchRaises(c))

-----------------------------------------------------------------------------
(* Properties.                                                              *)

\* Concurrent callers that miss share one fetch: never two at a time (line 66).
OneFetch == \A c, d \in Callers : call[c] = "fetching" /\ call[d] = "fetching" => c = d

\* Who waits waits on a future that is still registered and not cancelled, so
\* that whoever settles the registered one reaches them all (lines 76-87).
WaitersShareTheFuture == Waiting # {} => pending # NoCaller /\ ~dead

\* While nobody is cancelled every call answers: a caller that fetches or waits
\* gets the value or the exception (lines 89-98).
CallsEnd ==
  [](cancels = 0) =>
    \A c \in Callers : call[c] \in {"fetching", "waiting"} ~> call[c] \in Over

\* "Exceptions propagate to every waiter and do not poison the cache" (line 67):
\* whatever ends a fetch, a caller of the key does not wait for ever.
NotPoisoned == \A c \in Callers : call[c] = "waiting" ~> call[c] # "waiting"

\* "Return a cached result for key if fresh, else call fetch() and store" (line
\* 64): a fetch that succeeds gives its caller the value.
FetchedIsReturned ==
  [][\A c \in Callers : call[c] = "fetching" /\ entry' = "fresh" /\ call'[c] # "fetching"
       => call'[c] = "returned"]_cacheVars

=============================================================================
