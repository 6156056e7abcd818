------------------------------- MODULE NseLimiter -------------------------------
(***************************************************************************)
(* Access to NSE's public API: the process-wide rate limiter and circuit    *)
(* breaker of core/data/nse_rate_limiter.py, and the caching fetchers that  *)
(* share them (nse_vix, nse_pcr, nse_fii_dii, nse_atm_iv).                  *)
(*                                                                          *)
(* Threads call the getters whenever they like.  A getter that finds its    *)
(* cache stale takes the limiter's lock, sleeps in it until the gap is      *)
(* over, asks the breaker, sends one request (two where NSE wants a session *)
(* cookie first), reports the answer to the breaker, and stores the value    *)
(* and then its timestamp, in two assignments.                              *)
(* Nothing but the limiter and the breaker themselves is locked, so all of  *)
(* these are steps of their own.  Time is kept as ages, each counted up to  *)
(* the value beyond which the code no longer tells a difference.            *)
(***************************************************************************)
EXTENDS Naturals, FiniteSets

CONSTANTS
  Threads,      \* threads of the process that call the getters
  Sources,      \* the four fetchers, or some of them
  TwoRequests,  \* those that visit the home page first: nse_pcr, nse_atm_iv
  Uses,         \* the sources each thread asks for
  Ttl,          \* _CACHE_TTL_SECONDS of each source
  Gap,          \* _MIN_INTERVAL
  Threshold,    \* _TRIP_THRESHOLD
  Lockout,      \* _LOCKOUT_SECONDS
  Periodic,     \* threads that ask again and again: the agent's main thread
  Nobody        \* the lock is free

ASSUME NseAssumption ==
  /\ IsFiniteSet(Threads)
  /\ Sources # {}
  /\ TwoRequests \subseteq Sources
  /\ Uses \in [Threads -> SUBSET Sources]
  /\ Ttl \in [Sources -> Nat]
  /\ Gap \in Nat
  /\ Threshold \in Nat \ {0}
  /\ Lockout \in Nat
  /\ Periodic \subseteq Threads
  /\ Nobody \notin Threads

VARIABLES
  lock,         \* holder of _rl_lock
  sinceCall,    \* age of _last_call
  failures,     \* _consecutive_failures
  isOpen,       \* _is_open
  openFor,      \* age of _open_since
  cache,        \* per source: is there a value, the age of the timestamp, that of the
                \* value itself; history: the time since it was put there, the thread
                \* that did and has yet to set the timestamp, if any, and whether
                \* both are of one call
  call,         \* per thread: where it is, for which source, since when, and what it got
  quiet         \* history: time since a thread last left the limiter

limiter == <<lock, sinceCall, quiet>>
breaker == <<failures, isOpen, openFor>>
nseVars == <<limiter, breaker, cache, call>>


(* One unit of time more, up to a bound.                                    *)
Older(age, bound) == IF age < bound THEN age + 1 ELSE age

(* A timestamp of 0.0, on a host that is up for longer than a lifetime.     *)
NoValue(s) == [full |-> FALSE, age |-> Ttl[s], data |-> Ttl[s], put |-> Ttl[s],
               by |-> Nobody, own |-> FALSE]

(* A call that is over leaves nothing behind.                               *)
AtRest == [at |-> "idle", src |-> CHOOSE s \in Sources : TRUE, age |-> 0, data |-> 0]

NseInit ==
  /\ lock = Nobody
  /\ sinceCall = Gap
  /\ quiet = Gap
  /\ failures = 0
  /\ isOpen = FALSE
  /\ openFor = 0
  /\ cache = [s \in Sources |-> NoValue(s)]
  /\ call = [t \in Threads |-> AtRest]

GoTo(t, step) == call' = [call EXCEPT ![t].at = step]

Return(t) == call' = [call EXCEPT ![t] = AtRest]

-----------------------------------------------------------------------------
(* The getters: get_vix and its likes                                       *)

(* A fresh cached value is returned at once, and is no step.  Otherwise the *)
(* instant of the call, now, will be the timestamp of whatever comes back.  *)
Get(t, s) ==
  /\ call[t].at = "idle"
  /\ s \in Uses[t]
  /\ ~(cache[s].full /\ cache[s].age < Ttl[s])
  /\ call' = [call EXCEPT ![t] = [at |-> "enter", src |-> s, age |-> 0, data |-> 0]]
  /\ UNCHANGED <<limiter, breaker, cache>>

(* The value goes to the cache, whatever is in it by now, and counts as     *)
(* fresh at once if the timestamp there is.                                 *)
Store(t) ==
  LET s == call[t].src IN
  /\ call[t].at = "store"
  /\ cache' = [cache EXCEPT ![s] =
                 [@ EXCEPT !.full = TRUE, !.data = call[t].data, !.put = 0, !.by = t,
                           !.own = FALSE]]
  /\ call' = [call EXCEPT ![t] = [@ EXCEPT !.at = "stamp", !.data = 0]]
  /\ UNCHANGED <<limiter, breaker>>

(* The cache with a timestamp set by a thread, which is that of the value   *)
(* unless another thread has put its own there meanwhile.                   *)
Stamped(entry, t, age) ==
  [entry EXCEPT !.age = age, !.own = entry.by = t,
                !.by = IF entry.by = t THEN Nobody ELSE entry.by]

(* Mutant of SetTimestamp: the time is taken when the value is stored.      *)
SetTimestampLate(t) ==
  LET s == call[t].src IN
  /\ call[t].at = "stamp"
  /\ cache' = [cache EXCEPT ![s] = Stamped(@, t, 0)]
  /\ Return(t)
  /\ UNCHANGED <<limiter, breaker>>

(* Then its timestamp does, whoever's value is there by now.                *)
SetTimestamp(t) ==
  LET s == call[t].src IN
  /\ call[t].at = "stamp"
  /\ cache' = [cache EXCEPT ![s] = Stamped(@, t, call[t].age)]
  /\ Return(t)
  /\ UNCHANGED <<limiter, breaker>>

-----------------------------------------------------------------------------
(* nse_rate_limit                                                           *)

Enter(t) ==
  /\ call[t].at = "enter"
  /\ lock = Nobody
  /\ lock' = t
  /\ GoTo(t, "sleep")
  /\ UNCHANGED <<sinceCall, quiet, breaker, cache>>

(* Mutant of Leave: the sleep is a unit short.                              *)
LeaveEarly(t) ==
  /\ call[t].at = "sleep"
  /\ sinceCall + 1 >= Gap
  /\ sinceCall' = 0
  /\ quiet' = 0
  /\ lock' = Nobody
  /\ GoTo(t, "check")
  /\ UNCHANGED <<breaker, cache>>

(* The sleep is over, and the lock is released.                             *)
Leave(t) ==
  /\ call[t].at = "sleep"
  /\ sinceCall = Gap
  /\ sinceCall' = 0
  /\ quiet' = 0
  /\ lock' = Nobody
  /\ GoTo(t, "check")
  /\ UNCHANGED <<breaker, cache>>

-----------------------------------------------------------------------------
(* _CircuitBreaker                                                          *)

Reset == failures' = 0 /\ isOpen' = FALSE /\ openFor' = 0

Expired == isOpen /\ openFor = Lockout

(* Mutant of CheckBreaker: the lockout never expires.                       *)
CheckForever(t) ==
  /\ call[t].at = "check"
  /\ IF isOpen THEN Return(t)
     ELSE GoTo(t, IF call[t].src \in TwoRequests THEN "home" ELSE "request")
  /\ UNCHANGED <<limiter, breaker, cache>>

(* is_open: an expired lockout closes the breaker.                          *)
CheckBreaker(t) ==
  /\ call[t].at = "check"
  /\ \/ /\ isOpen /\ ~Expired
        /\ Return(t)
        /\ UNCHANGED breaker
     \/ /\ ~isOpen \/ Expired
        /\ GoTo(t, IF call[t].src \in TwoRequests THEN "home" ELSE "request")
        /\ IF Expired THEN Reset ELSE UNCHANGED breaker
  /\ UNCHANGED <<limiter, cache>>

(* Mutant of RecordFailure: one failure more than the threshold is needed.  *)
RecordFailureStrict ==
  LET trips == failures + 1 > Threshold /\ ~isOpen IN
  /\ failures' = failures + 1
  /\ isOpen' = (isOpen \/ trips)
  /\ openFor' = IF trips THEN 0 ELSE openFor

(* record_failure: only the first failure that reaches the threshold starts *)
(* the lockout, but every one of them is counted.                           *)
RecordFailure ==
  LET trips == failures + 1 >= Threshold /\ ~isOpen IN
  /\ failures' = failures + 1
  /\ isOpen' = (isOpen \/ trips)
  /\ openFor' = IF trips THEN 0 ELSE openFor

(* record_success closes the breaker even when it is open.                  *)
RecordSuccess == Reset

-----------------------------------------------------------------------------
(* The requests                                                             *)

(* 403 or 429, to either request.                                           *)
Refused(t) ==
  /\ call[t].at \in {"home", "request"}
  /\ RecordFailure
  /\ Return(t)
  /\ UNCHANGED <<limiter, cache>>

(* Any other error, a timeout included: no value, and no news to the breaker.*)
Failed(t) ==
  /\ call[t].at \in {"home", "request"}
  /\ Return(t)
  /\ UNCHANGED <<limiter, breaker, cache>>

(* The home page is there.  The data is asked for at once.                  *)
HomeServed(t) ==
  /\ call[t].at = "home"
  /\ GoTo(t, "request")
  /\ UNCHANGED <<limiter, breaker, cache>>

(* The data is there, and holds a value or not.                             *)
Served(t) ==
  /\ call[t].at = "request"
  /\ RecordSuccess
  /\ \/ call' = [call EXCEPT ![t].at = "store", ![t].data = 0]
     \/ Return(t)
  /\ UNCHANGED <<limiter, cache>>

-----------------------------------------------------------------------------
Elapse ==
  /\ sinceCall' = Older(sinceCall, Gap)
  /\ quiet' = Older(quiet, Gap)
  /\ openFor' = IF isOpen THEN Older(openFor, Lockout) ELSE openFor
  /\ cache' = [s \in Sources |->
       [cache[s] EXCEPT !.age = Older(@, Ttl[s]), !.data = Older(@, Ttl[s]),
                        !.put = Older(@, Ttl[s])]]
  /\ call' = [t \in Threads |->
       IF call[t].at = "idle" THEN call[t]
       ELSE [call[t] EXCEPT
               !.age = Older(@, Ttl[call[t].src]),
               !.data = IF call[t].at = "store" THEN Older(@, Ttl[call[t].src]) ELSE @]]
  /\ UNCHANGED <<lock, failures, isOpen>>

Proceed(t) ==
  \/ Store(t) \/ SetTimestamp(t) \/ Enter(t) \/ Leave(t) \/ CheckBreaker(t)
  \/ Refused(t) \/ Failed(t) \/ HomeServed(t) \/ Served(t)

NseNext == Elapse \/ \E t \in Threads : Proceed(t) \/ \E s \in Sources : Get(t, s)

NseFairness ==
  /\ WF_nseVars(Elapse)
  /\ \A t \in Threads : WF_nseVars(Proceed(t))
  /\ \A t \in Periodic : \A s \in Uses[t] : WF_nseVars(Get(t, s))

NseSpec == NseInit /\ [][NseNext]_nseVars /\ NseFairness

-----------------------------------------------------------------------------
(* However the threads meet, a thread leaves the limiter only when Gap has  *)
(* gone by since the last one left: the abstract pacer (nse_rate_limit).    *)
Pace == INSTANCE Pacer
IsPaced == Pace!Spec

(* A server that keeps refusing is refused to at most this often in a row:  *)
(* the threshold, and once by every other thread that was already past      *)
(* is_open when the breaker opened (record_failure, is_open).               *)
RefusalsBounded == failures <= Threshold + Cardinality(Threads) - 1

(* What a getter answers from its cache was put there less than a TTL ago,  *)
(* and was true less than a TTL ago if its timestamp is of the same call,   *)
(* although the call that fetched it waited in the limiter and for NSE, and *)
(* although others fetch and store meanwhile, value and timestamp one after *)
(* the other. Where the two are of different calls, the value may be older  *)
(* by whatever its own call was delayed (get_vix and its likes).            *)
FreshIsFresh ==
  \A s \in Sources :
    cache[s].full /\ cache[s].age < Ttl[s] =>
      /\ cache[s].put < Ttl[s]
      /\ cache[s].own => cache[s].data < Ttl[s]

(* As long as the agent keeps asking, an open breaker closes again: a       *)
(* lockout is over some day, even if NSE never answers (is_open).           *)
LockoutEnds == isOpen ~> ~isOpen

(* A thread that waits for the lock does not wait for nothing: somebody     *)
(* gets past the limiter, which sleeps with the lock held (nse_rate_limit). *)
SomebodyPasses ==
  (\E t \in Threads : call[t].at = "enter") ~> (\E t \in Threads : call[t].at = "check")

(* Neither the limiter nor the breaker shuts anybody out for ever.          *)
NobodyIsShutOut == SomebodyPasses /\ LockoutEnds
=============================================================================
