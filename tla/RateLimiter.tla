----------------------------- MODULE RateLimiter ------------------------------
(***************************************************************************)
(* The per-tenant request limiter (rate_limit.rs): one fixed window for    *)
(* each tenant in a map behind a mutex, shared by every handler.           *)
(*                                                                         *)
(* check() reads the clock before it takes the mutex, so the time it works *)
(* with may be old when it gets there; a handler that was refused takes    *)
(* the mutex a second time to compute Retry-After.  Time is counted in     *)
(* ticks, TicksPerSecond to the second.                                    *)
(***************************************************************************)
EXTENDS Integers, Sequences, FiniteSets

CONSTANTS
  Tenants,
  Handlers,         \* request handlers in the limiter at one time
  max_per_window,
  window_size,      \* in ticks
  TicksPerSecond,
  MaxStall,         \* bound: the most ticks a handler waits for the mutex
  MaxTime           \* bound: the last tick

ASSUME LimiterAssumption ==
  /\ max_per_window \in Nat
  /\ window_size \in Nat \ {0}
  /\ TicksPerSecond \in Nat \ {0}
  /\ MaxStall \in Nat
  /\ MaxTime \in Nat

VARIABLES
  clock,
  window,     \* the map: for each tenant its window, or NoWindow
  stage,      \* of each handler: "idle", "checking", "limited"
  tenant,     \* the tenant each handler serves
  now,        \* the time each handler read
  admitted,   \* history: the ticks at which each tenant's requests were admitted
  told        \* the last Retry-After: the tick, the wait, the window's end

vars == <<clock, window, stage, tenant, now, admitted, told>>

NoWindow == [count |-> 0, reset_at |-> -1]
Windows == [count : Nat, reset_at : Nat]
NobodyTold == [at |-> 0, secs |-> 1, reset_at |-> 0]

TypeOK ==
  /\ clock \in 0 .. MaxTime
  /\ window \in [Tenants -> Windows \cup {NoWindow}]
  /\ stage \in [Handlers -> {"idle", "checking", "limited"}]
  /\ tenant \in [Handlers -> Tenants]
  /\ now \in [Handlers -> 0 .. MaxTime]
  /\ admitted \in [Tenants -> Seq(0 .. MaxTime)]
  /\ told \in [at : 0 .. MaxTime, secs : Nat \ {0}, reset_at : Nat]

Init ==
  /\ clock = 0
  /\ window = [t \in Tenants |-> NoWindow]
  /\ stage = [h \in Handlers |-> "idle"]
  /\ tenant \in {[h \in Handlers |-> t] : t \in Tenants}
  /\ now = [h \in Handlers |-> 0]
  /\ admitted = [t \in Tenants |-> <<>>]
  /\ told = NobodyTold

\* Instant::now(), before the lock.
Arrive(h, t) ==
  /\ stage[h] = "idle"
  /\ stage' = [stage EXCEPT ![h] = "checking"]
  /\ tenant' = [tenant EXCEPT ![h] = t]
  /\ now' = [now EXCEPT ![h] = clock]
  /\ UNCHANGED <<clock, window, admitted, told>>

\* Fault seeded: the window's seconds are added as if they were ticks.
EntryInSeconds(t, n) ==
  IF window[t] = NoWindow \/ n >= window[t].reset_at
  THEN [count |-> 0, reset_at |-> n + window_size \div TicksPerSecond]
  ELSE window[t]

\* Fault seeded: a new window keeps the old count.
EntryUnreset(t, n) ==
  IF window[t] = NoWindow THEN [count |-> 0, reset_at |-> n + window_size]
  ELSE IF n >= window[t].reset_at
  THEN [window[t] EXCEPT !.reset_at = n + window_size]
  ELSE window[t]

\* The window of t as a check at time n leaves it before counting.
Entry(t, n) ==
  IF window[t] = NoWindow \/ n >= window[t].reset_at
  THEN [count |-> 0, reset_at |-> n + window_size]
  ELSE window[t]

\* The critical section of check().
Allow(h) ==
  LET t == tenant[h]  w == Entry(t, now[h]) IN
  /\ stage[h] = "checking"
  /\ w.count < max_per_window
  /\ window' = [window EXCEPT ![t] = [w EXCEPT !.count = @ + 1]]
  /\ admitted' = [admitted EXCEPT ![t] = Append(@, clock)]
  /\ stage' = [stage EXCEPT ![h] = "idle"]
  /\ UNCHANGED <<clock, tenant, now, told>>

Limit(h) ==
  LET t == tenant[h]  w == Entry(t, now[h]) IN
  /\ stage[h] = "checking"
  /\ w.count >= max_per_window
  /\ window' = [window EXCEPT ![t] = w]
  /\ stage' = [stage EXCEPT ![h] = "limited"]
  /\ now' = [now EXCEPT ![h] = clock]
  /\ UNCHANGED <<clock, tenant, admitted, told>>

\* Faults seeded: no floor of one second; the unit of time forgotten.
RetryAfterUnfloored(t, n) ==
  IF n >= window[t].reset_at THEN 1
  ELSE (window[t].reset_at - n) \div TicksPerSecond

RetryAfterInTicks(t, n) ==
  IF n >= window[t].reset_at THEN 1 ELSE window[t].reset_at - n

\* Duration::as_secs drops the fraction; a window that is over says 1.
RetryAfterSecs(t, n) ==
  IF n >= window[t].reset_at THEN 1
  ELSE LET secs == (window[t].reset_at - n) \div TicksPerSecond
       IN IF secs < 1 THEN 1 ELSE secs

\* retry_after_secs(): the clock is read again, the mutex taken again.
TellRetryAfter(h) ==
  /\ stage[h] = "limited"
  /\ told' = [at |-> now[h], secs |-> RetryAfterSecs(tenant[h], now[h]),
              reset_at |-> window[tenant[h]].reset_at]
  /\ stage' = [stage EXCEPT ![h] = "idle"]
  /\ UNCHANGED <<clock, window, tenant, now, admitted>>

\* Handlers reach the mutex within MaxStall ticks of reading the clock.
Tick ==
  /\ clock < MaxTime
  /\ \A h \in Handlers : stage[h] # "idle" => clock - now[h] < MaxStall
  /\ clock' = clock + 1
  /\ UNCHANGED <<window, stage, tenant, now, admitted, told>>

Next ==
  \/ \E h \in Handlers, t \in Tenants : Arrive(h, t)
  \/ \E h \in Handlers : Allow(h) \/ Limit(h) \/ TellRetryAfter(h)
  \/ Tick

Spec == Init /\ [][Next]_vars
-------------------------------------------------------------------------------
(* Properties *)

Within(ticks, stretch) == {i \in DOMAIN ticks : ticks[i] \in stretch}
AdmittedIn(t, from, to) == Cardinality(Within(admitted[t], from .. to))

(***************************************************************************)
(* How far the fixed window is from a rate: any stretch of time as long as *)
(* the window admits at most so many windows' worth of requests.  Two come *)
(* from the bursts around a reset; handlers that waited for the mutex with *)
(* an old reading of the clock add one for each window's length they wait, *)
(* begun after the first tick: without a wait there are two, for a wait of *)
(* up to a window there are three.                                         *)
(***************************************************************************)
WindowsSpanned == 2 + (MaxStall + window_size - 2) \div window_size

BurstBound ==
  \A t \in Tenants, from \in 0 .. MaxTime :
    AdmittedIn(t, from, from + window_size - 1) <= WindowsSpanned * max_per_window

(***************************************************************************)
(* Nobody is refused without cause: when a handler refuses a request, the  *)
(* tenant has used a whole window's worth within the last window, give or  *)
(* take the wait for the mutex.                                            *)
(***************************************************************************)
RefusedOnlyWhenSpent ==
  [][\A h \in Handlers : Limit(h) =>
       AdmittedIn(tenant[h], clock - window_size - MaxStall + 1, clock)
         >= max_per_window]_vars

(***************************************************************************)
(* Retry-After, which is computed after the mutex was let go, is short of  *)
(* the end of the window by less than a second, and never more than a      *)
(* window plus the wait for the mutex.                                     *)
(***************************************************************************)
RetryAfterIsClose ==
  /\ told.reset_at - (told.at + told.secs * TicksPerSecond) < TicksPerSecond
  /\ told.secs = 1 \/ told.secs * TicksPerSecond <= window_size + MaxStall
===============================================================================
