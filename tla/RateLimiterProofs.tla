-------------------------- MODULE RateLimiterProofs ---------------------------
(***************************************************************************)
(* The types of RateLimiter, what Retry-After promises, how many requests  *)
(* a stretch of time admits and when one is refused, for every number of   *)
(* tenants and handlers, every limit, window, resolution of the clock and  *)
(* wait for the mutex.                                                     *)
(***************************************************************************)
EXTENDS RateLimiter, FiniteSetTheorems, SequenceTheorems, TLAPS

\* Dividing time into whole seconds loses less than a second.
LEMMA WholeSeconds ==
  ASSUME NEW ticks \in Nat
  PROVE  /\ ticks \div TicksPerSecond \in Nat
         /\ (ticks \div TicksPerSecond) * TicksPerSecond <= ticks
         /\ ticks - (ticks \div TicksPerSecond) * TicksPerSecond < TicksPerSecond
<1>1. TicksPerSecond \in Nat /\ TicksPerSecond > 0
  BY LimiterAssumption
<1>2. /\ ticks \div TicksPerSecond \in Int
      /\ ticks = (ticks \div TicksPerSecond) * TicksPerSecond + (ticks % TicksPerSecond)
      /\ ticks % TicksPerSecond \in 0 .. TicksPerSecond - 1
  BY <1>1
<1> QED
  BY <1>1, <1>2

\* The window a check works with, renewed or not, is one of the window type.
LEMMA EntryTyped ==
  ASSUME TypeOK, NEW t \in Tenants, NEW n \in 0 .. MaxTime
  PROVE  /\ Entry(t, n) \in Windows
         /\ Entry(t, n) = window[t] \/ Entry(t, n).reset_at = n + window_size
BY LimiterAssumption DEF TypeOK, Entry, Windows, NoWindow

\* A wait that is told is at least a second.
LEMMA RetryAfterTyped ==
  ASSUME TypeOK, NEW t \in Tenants, NEW n \in 0 .. MaxTime, window[t] # NoWindow
  PROVE  RetryAfterSecs(t, n) \in Nat \ {0}
<1>1. window[t].reset_at \in Nat /\ n \in Nat
  BY LimiterAssumption DEF TypeOK, Windows
<1>2. CASE n >= window[t].reset_at
  BY <1>2 DEF RetryAfterSecs
<1>3. CASE ~(n >= window[t].reset_at)
  <2>1. window[t].reset_at - n \in Nat
    BY <1>1, <1>3
  <2> QED
    BY <1>3, <2>1, WholeSeconds DEF RetryAfterSecs
<1> QED
  BY <1>2, <1>3

(* A tenant that was refused has a window.  A window ends at most a window *)
(* from now, and a handler at work read the clock at most MaxStall ago.    *)
LimitedHasWindow ==
  \A h \in Handlers : stage[h] = "limited" => window[tenant[h]] # NoWindow

WindowsEndSoon ==
  \A t \in Tenants : window[t] # NoWindow => window[t].reset_at <= clock + window_size

ReadingsAreFresh ==
  \A h \in Handlers : /\ now[h] <= clock
                      /\ stage[h] # "idle" => clock - now[h] <= MaxStall

LimiterInv ==
  /\ TypeOK
  /\ LimitedHasWindow
  /\ WindowsEndSoon
  /\ ReadingsAreFresh

\* A check works with a window of its tenant that ends in time.
LEMMA EntryEndsSoon ==
  ASSUME LimiterInv, NEW h \in Handlers
  PROVE  /\ Entry(tenant[h], now[h]) \in Windows
         /\ Entry(tenant[h], now[h]).reset_at <= clock + window_size
<1>0. TypeOK
  BY DEF LimiterInv
<1>1. /\ tenant[h] \in Tenants /\ now[h] \in 0 .. MaxTime /\ now[h] <= clock
      /\ clock \in Nat /\ window_size \in Nat /\ TypeOK
      /\ window[tenant[h]] # NoWindow => window[tenant[h]].reset_at <= clock + window_size
  BY LimiterAssumption DEF LimiterInv, TypeOK, WindowsEndSoon, ReadingsAreFresh
<1>2. Entry(tenant[h], now[h]) \in Windows
  BY <1>1, EntryTyped
<1>3. NoWindow \notin Windows
  BY DEF NoWindow, Windows
<1> QED
  BY <1>1, <1>2, <1>3, EntryTyped

\* What a check leaves of the map of windows.
LEMMA CheckedWindows ==
  ASSUME LimiterInv, NEW h \in Handlers, NEW w \in Windows,
         w.reset_at <= clock + window_size,
         window' = [window EXCEPT ![tenant[h]] = w]
  PROVE  /\ window' \in [Tenants -> Windows \cup {NoWindow}]
         /\ \A t \in Tenants : window[t] # NoWindow => window'[t] # NoWindow
         /\ window'[tenant[h]] # NoWindow
         /\ \A t \in Tenants : window'[t] # NoWindow =>
              window'[t].reset_at <= clock + window_size
<1>1. NoWindow \notin Windows
  BY DEF NoWindow, Windows
<1> QED
  BY <1>1 DEF LimiterInv, TypeOK, WindowsEndSoon

\* An admitted request: one more in the window.
LEMMA AllowKeeps ==
  ASSUME LimiterInv, NEW h \in Handlers, Allow(h)
  PROVE  LimiterInv'
<1> DEFINE w == Entry(tenant[h], now[h])
           counted == [w EXCEPT !.count = @ + 1]
           t == tenant[h]
<1>1. w \in Windows /\ w.reset_at <= clock + window_size
  BY EntryEndsSoon
<1>2. window' = [window EXCEPT ![t] = counted]
  BY DEF Allow
<1>3. /\ stage' = [stage EXCEPT ![h] = "idle"] /\ UNCHANGED <<clock, tenant, now, told>>
      /\ admitted' = [admitted EXCEPT ![t] = Append(@, clock)]
  BY DEF Allow
<1> HIDE DEF w
<1>4. counted \in Windows /\ counted.reset_at <= clock + window_size
  BY <1>1 DEF Windows
<1> HIDE DEF counted
<1>5. admitted' \in [Tenants -> Seq(0 .. MaxTime)]
  <2>1. t \in Tenants /\ clock \in 0 .. MaxTime /\ admitted[t] \in Seq(0 .. MaxTime)
    BY DEF LimiterInv, TypeOK
  <2>2. Append(admitted[t], clock) \in Seq(0 .. MaxTime)
    BY <2>1, AppendProperties
  <2> QED
    BY <1>3, <2>1, <2>2 DEF LimiterInv, TypeOK
<1>6. TypeOK'
  BY <1>2, <1>3, <1>4, <1>5, CheckedWindows DEF LimiterInv, TypeOK
<1>7. LimitedHasWindow'
  BY <1>2, <1>3, <1>4, CheckedWindows DEF LimiterInv, TypeOK, LimitedHasWindow
<1>8. WindowsEndSoon'
  BY <1>2, <1>3, <1>4, CheckedWindows DEF WindowsEndSoon
<1>9. ReadingsAreFresh'
  BY <1>3 DEF LimiterInv, TypeOK, ReadingsAreFresh
<1> QED
  BY <1>6, <1>7, <1>8, <1>9 DEF LimiterInv

\* A refused request: the window may be a new one all the same.
LEMMA LimitKeeps ==
  ASSUME LimiterInv, NEW h \in Handlers, Limit(h)
  PROVE  LimiterInv'
<1> DEFINE w == Entry(tenant[h], now[h])
           t == tenant[h]
<1>1. w \in Windows /\ w.reset_at <= clock + window_size
  BY EntryEndsSoon
<1>2. window' = [window EXCEPT ![t] = w]
  BY DEF Limit
<1>3. /\ stage' = [stage EXCEPT ![h] = "limited"] /\ now' = [now EXCEPT ![h] = clock]
      /\ UNCHANGED <<clock, tenant, admitted, told>>
  BY DEF Limit
<1> HIDE DEF w
<1>4. TypeOK'
  BY <1>1, <1>2, <1>3, CheckedWindows DEF LimiterInv, TypeOK
<1>5. LimitedHasWindow'
  BY <1>1, <1>2, <1>3, CheckedWindows DEF LimiterInv, TypeOK, LimitedHasWindow
<1>6. WindowsEndSoon'
  BY <1>1, <1>2, <1>3, CheckedWindows DEF WindowsEndSoon
<1>7. ReadingsAreFresh'
  BY <1>3, LimiterAssumption DEF LimiterInv, TypeOK, ReadingsAreFresh
<1> QED
  BY <1>4, <1>5, <1>6, <1>7 DEF LimiterInv

\* The answer: the wait is computed and told.
LEMMA TellKeeps ==
  ASSUME LimiterInv, NEW h \in Handlers, TellRetryAfter(h)
  PROVE  LimiterInv'
<1>1. /\ stage' = [stage EXCEPT ![h] = "idle"]
      /\ UNCHANGED <<clock, window, tenant, now, admitted>>
  BY DEF TellRetryAfter
<1>2. told' \in [at : 0 .. MaxTime, secs : Nat \ {0}, reset_at : Nat]
  <2>1. /\ tenant[h] \in Tenants /\ now[h] \in 0 .. MaxTime
        /\ window[tenant[h]] \in Windows /\ window[tenant[h]] # NoWindow
    BY DEF LimiterInv, LimitedHasWindow, TellRetryAfter, TypeOK
  <2>2. RetryAfterSecs(tenant[h], now[h]) \in Nat \ {0}
    BY <2>1, RetryAfterTyped DEF LimiterInv
  <2> QED
    BY <2>1, <2>2 DEF TellRetryAfter, Windows
<1>3. TypeOK'
  BY <1>1, <1>2 DEF LimiterInv, TypeOK
<1> QED
  BY <1>1, <1>3 DEF LimiterInv, TypeOK, LimitedHasWindow, WindowsEndSoon, ReadingsAreFresh

\* A request comes in and reads the clock.
LEMMA ArriveKeeps ==
  ASSUME LimiterInv, NEW h \in Handlers, NEW t \in Tenants, Arrive(h, t)
  PROVE  LimiterInv'
<1>1. TypeOK'
  BY DEF Arrive, LimiterInv, TypeOK
<1>2. LimitedHasWindow'
  BY DEF Arrive, LimiterInv, TypeOK, LimitedHasWindow
<1>3. WindowsEndSoon'
  BY DEF Arrive, LimiterInv, WindowsEndSoon
<1>4. ReadingsAreFresh'
  BY LimiterAssumption DEF Arrive, LimiterInv, TypeOK, ReadingsAreFresh
<1> QED
  BY <1>1, <1>2, <1>3, <1>4 DEF LimiterInv

\* Time passes.
LEMMA TickKeeps ==
  ASSUME LimiterInv, Tick
  PROVE  LimiterInv'
<1>1. /\ clock' = clock + 1 /\ clock \in Nat /\ clock < MaxTime /\ MaxTime \in Nat
      /\ UNCHANGED <<window, stage, tenant, now, admitted, told>>
  BY LimiterAssumption DEF Tick, LimiterInv, TypeOK
<1>2. TypeOK' /\ LimitedHasWindow'
  BY <1>1 DEF LimiterInv, TypeOK, LimitedHasWindow
<1>3. WindowsEndSoon'
  <2>1. \A t \in Tenants : window[t] # NoWindow => window[t].reset_at \in Nat
    BY DEF LimiterInv, TypeOK, Windows
  <2> QED
    BY <1>1, <2>1, LimiterAssumption DEF LimiterInv, WindowsEndSoon
<1>4. ReadingsAreFresh'
  <2>1. \A h \in Handlers : now[h] \in Nat
    BY LimiterAssumption DEF LimiterInv, TypeOK
  <2> QED
    BY <1>1, <2>1, LimiterAssumption DEF Tick, LimiterInv, ReadingsAreFresh
<1> QED
  BY <1>2, <1>3, <1>4 DEF LimiterInv

\* The limiter starts without windows.
LEMMA InitLimiter == Init => LimiterInv
<1> SUFFICES ASSUME Init PROVE LimiterInv
  OBVIOUS
<1>1. PICK t \in Tenants : tenant = [h \in Handlers |-> t]
  BY DEF Init
<1>2. tenant \in [Handlers -> Tenants]
  BY <1>1
<1>3. told \in [at : 0 .. MaxTime, secs : Nat \ {0}, reset_at : Nat]
  BY LimiterAssumption DEF Init, NobodyTold
<1>4. TypeOK
  BY <1>2, <1>3, LimiterAssumption DEF Init, TypeOK
<1> QED
  BY <1>4, LimiterAssumption DEF Init, LimiterInv, LimitedHasWindow, WindowsEndSoon,
                                 ReadingsAreFresh

\* Refused handlers find a window, and windows end and readings age in time.
THEOREM LimiterInvariant == Spec => []LimiterInv
<1>1. LimiterInv /\ [Next]_vars => LimiterInv'
  <2>1. LimiterInv /\ UNCHANGED vars => LimiterInv'
    BY DEF vars, LimiterInv, TypeOK, LimitedHasWindow, WindowsEndSoon, ReadingsAreFresh
  <2> QED
    BY <2>1, ArriveKeeps, AllowKeeps, LimitKeeps, TellKeeps, TickKeeps DEF Next
<1> QED
  BY <1>1, InitLimiter, PTL DEF Spec

\* The map, the handlers and the counts keep their types.
THEOREM TypeInvariant == Spec => []TypeOK
<1>1. LimiterInv => TypeOK
  BY DEF LimiterInv
<1> QED
  BY <1>1, LimiterInvariant, PTL

(***************************************************************************)
(* Retry-After, which is computed after the mutex was let go, is short of  *)
(* the end of the window by less than a second, and never more than a      *)
(* window plus the wait for the mutex.                                     *)
(***************************************************************************)
THEOREM RetryAfterInvariant == Spec => []RetryAfterIsClose
<1>1. Init => RetryAfterIsClose
  BY LimiterAssumption DEF Init, NobodyTold, RetryAfterIsClose
<1>2. LimiterInv /\ RetryAfterIsClose /\ [Next]_vars => RetryAfterIsClose'
  <2>1. ASSUME LimiterInv, NEW h \in Handlers, TellRetryAfter(h)
        PROVE  RetryAfterIsClose'
    <3> DEFINE t == tenant[h]
               n == now[h]
               reset == window[t].reset_at
               secs == RetryAfterSecs(t, n)
    <3>1. /\ n \in Nat /\ reset \in Nat /\ reset - n <= window_size + MaxStall
      <4>1. /\ t \in Tenants /\ window[t] # NoWindow /\ window[t] \in Windows
            /\ n \in Nat /\ clock \in Nat /\ stage[h] = "limited"
        BY <2>1, LimiterAssumption
           DEF LimiterInv, LimitedHasWindow, TellRetryAfter, TypeOK
      <4>2. reset \in Nat /\ reset <= clock + window_size /\ clock - n <= MaxStall
        BY <2>1, <4>1 DEF LimiterInv, WindowsEndSoon, ReadingsAreFresh, Windows
      <4> QED
        BY <4>1, <4>2, LimiterAssumption
    <3>2. told'.at = n /\ told'.secs = secs /\ told'.reset_at = reset
      BY <2>1 DEF TellRetryAfter
    <3>3. /\ reset - (n + secs * TicksPerSecond) < TicksPerSecond
          /\ secs = 1 \/ secs * TicksPerSecond <= window_size + MaxStall
      <4> HIDE DEF n, t
      <4>1. CASE n >= reset
        <5>1. secs = 1
          BY <4>1 DEF RetryAfterSecs
        <5> QED
          BY <3>1, <4>1, <5>1, LimiterAssumption
      <4>2. CASE ~(n >= reset)
        <5> DEFINE ticks == reset - n
                   whole == ticks \div TicksPerSecond
        <5>1. secs = IF whole < 1 THEN 1 ELSE whole
          BY <4>2 DEF RetryAfterSecs
        <5>2. ticks \in Nat /\ ticks <= window_size + MaxStall
          BY <3>1, <4>2
        <5>3. /\ whole \in Nat /\ whole * TicksPerSecond <= ticks
              /\ ticks - whole * TicksPerSecond < TicksPerSecond
          BY <5>2, WholeSeconds
        <5>4. /\ reset \in Nat /\ n \in Nat /\ ticks = reset - n
              /\ TicksPerSecond \in Nat \ {0} /\ window_size \in Nat /\ MaxStall \in Nat
          BY <3>1, LimiterAssumption
        <5> HIDE DEF whole, ticks, reset, secs
        <5>5. CASE whole < 1
          BY <5>1, <5>2, <5>3, <5>4, <5>5
        <5>6. CASE ~(whole < 1)
          BY <5>1, <5>2, <5>3, <5>4, <5>6
        <5> QED
          BY <5>5, <5>6
      <4> QED
        BY <4>1, <4>2
    <3> QED
      BY <3>2, <3>3 DEF RetryAfterIsClose
  <2>2. ASSUME RetryAfterIsClose, UNCHANGED told PROVE RetryAfterIsClose'
    BY <2>2 DEF RetryAfterIsClose
  <2>3. [Next]_vars => UNCHANGED told \/ \E h \in Handlers : TellRetryAfter(h)
    BY DEF Next, vars, Arrive, Allow, Limit, Tick
  <2> QED
    BY <2>1, <2>2, <2>3
<1> QED
  BY <1>1, <1>2, LimiterInvariant, PTL DEF Spec
-------------------------------------------------------------------------------
(* Counting admissions *)

\* Positions of a sequence are finitely many.
LEMMA Positions ==
  ASSUME NEW S, NEW s \in Seq(S), NEW P \in SUBSET DOMAIN s
  PROVE  IsFiniteSet(P) /\ Cardinality(P) \in Nat
<1>1. DOMAIN s = 1 .. Len(s) /\ Len(s) \in Nat
  OBVIOUS
<1>2. IsFiniteSet(DOMAIN s)
  BY <1>1, FS_Interval
<1> QED
  BY <1>2, FS_Subset, FS_CardinalityType

\* One more admission counts in every stretch that holds its tick.
LEMMA CountAppended ==
  ASSUME NEW S, NEW s \in Seq(S), NEW x \in S, NEW T
  PROVE  Cardinality(Within(Append(s, x), T))
           = Cardinality(Within(s, T)) + IF x \in T THEN 1 ELSE 0
<1> DEFINE P == Within(s, T)
           longer == Append(s, x)
           Q == Within(longer, T)
           n == Len(s) + 1
<1>1. /\ DOMAIN s = 1 .. Len(s) /\ Len(s) \in Nat /\ DOMAIN longer = 1 .. n
      /\ longer[n] = x /\ \A i \in DOMAIN s : longer[i] = s[i]
  BY AppendProperties
<1>2. IsFiniteSet(P) /\ Cardinality(P) \in Nat
  BY Positions DEF Within
<1>3. n \notin P
  BY <1>1 DEF Within
<1> HIDE DEF longer
<1>4. x \in T => Q = P \cup {n}
  BY <1>1 DEF Within
<1>5. x \notin T => Q = P
  BY <1>1 DEF Within
<1> HIDE DEF P, Q
<1>6. Cardinality(Q) = Cardinality(P) + IF x \in T THEN 1 ELSE 0
  BY <1>2, <1>3, <1>4, <1>5, FS_AddElement
<1> QED
  BY <1>6 DEF P, Q, longer

\* Every admission has its tick.
LEMMA AdmittedAt ==
  ASSUME TypeOK, NEW t \in Tenants
  PROVE  /\ admitted[t] \in Seq(0 .. MaxTime)
         /\ \A i \in DOMAIN admitted[t] : admitted[t][i] \in 0 .. MaxTime
<1>1. admitted[t] \in Seq(0 .. MaxTime)
  BY DEF TypeOK
<1>2. \A i \in DOMAIN admitted[t] : i \in 1 .. Len(admitted[t])
  BY <1>1
<1> QED
  BY <1>1, <1>2, ElementOfSeq

\* Admissions in a stretch are a number, and no fewer than those in a part of it.
LEMMA CountTyped ==
  ASSUME TypeOK, NEW t \in Tenants, NEW from, NEW to
  PROVE  AdmittedIn(t, from, to) \in Nat
BY Positions DEF TypeOK, AdmittedIn, Within

LEMMA CountMonotone ==
  ASSUME TypeOK, NEW t \in Tenants, NEW from, NEW to, NEW from2, NEW to2,
         \A i \in DOMAIN admitted[t] :
           admitted[t][i] \in from .. to => admitted[t][i] \in from2 .. to2
  PROVE  AdmittedIn(t, from, to) <= AdmittedIn(t, from2, to2)
<1>1. Within(admitted[t], from .. to) \subseteq Within(admitted[t], from2 .. to2)
  BY DEF Within
<1>2. IsFiniteSet(Within(admitted[t], from2 .. to2))
  BY Positions DEF TypeOK, Within
<1> QED
  BY <1>1, <1>2, FS_Subset DEF AdmittedIn

-------------------------------------------------------------------------------
(* How many requests the windows let through *)

\* The requests admitted to t from tick x on.
Since(t, x) == AdmittedIn(t, x, MaxTime)

(* The window of t has counted c requests and ends at r.  They were all    *)
(* admitted in the last window_size ticks before r or later; from r +      *)
(* MaxStall on there was none; and going back k windows from there finds   *)
(* those of at most k - 1 windows before it.                               *)
Accounted(t, r, c) ==
  /\ c <= max_per_window
  /\ c <= Since(t, r - window_size)
  /\ Since(t, r + MaxStall) = 0
  /\ \A k \in Nat \ {0}, x \in Int :
       x >= r - k * window_size + MaxStall => Since(t, x) <= c + (k - 1) * max_per_window

CountsInv ==
  \A t \in Tenants :
    /\ \A i \in DOMAIN admitted[t] : admitted[t][i] <= clock
    /\ window[t] = NoWindow => admitted[t] = <<>>
    /\ window[t] # NoWindow => Accounted(t, window[t].reset_at, window[t].count)

\* How far back k windows reach, and what they let through.
LEMMA OneWindowLess ==
  ASSUME NEW k \in Nat \ {0}
  PROVE  /\ k * window_size \in Nat /\ (k - 1) * window_size = k * window_size - window_size
         /\ (k - 1) * max_per_window \in Nat
         /\ k * max_per_window = (k - 1) * max_per_window + max_per_window
         /\ (k - 1) * max_per_window = 0 + (k - 1) * max_per_window
         /\ 0 <= 0 + (k - 1) * max_per_window
<1> DEFINE before == (k - 1) * max_per_window
<1>1. /\ k * window_size \in Nat /\ (k - 1) * window_size = k * window_size - window_size
      /\ before \in Nat /\ k * max_per_window = before + max_per_window
  BY LimiterAssumption
<1>2. before = 0 + before /\ 0 <= 0 + before
  <2> HIDE DEF before
  <2> QED
    BY <1>1
<1> QED
  BY <1>1, <1>2

\* A new window: what the old one had counted is now a window before it.
LEMMA NewWindow ==
  ASSUME TypeOK, NEW t \in Tenants, NEW r \in Nat, NEW c \in Nat, Accounted(t, r, c),
         NEW n \in Nat, n >= r
  PROVE  /\ Since(t, n + window_size + MaxStall) = 0
         /\ \A k \in Nat \ {0}, x \in Int :
              x >= n + window_size - k * window_size + MaxStall =>
                Since(t, x) <= (k - 1) * max_per_window
<1>1. ASSUME NEW x \in Int, x >= r + MaxStall PROVE Since(t, x) = 0
  <2>1. Since(t, x) <= Since(t, r + MaxStall)
    <3>1. \A y \in 0 .. MaxTime : y \in x .. MaxTime => y \in (r + MaxStall) .. MaxTime
      BY <1>1, LimiterAssumption
    <3>2. \A i \in DOMAIN admitted[t] : admitted[t][i] \in 0 .. MaxTime
      BY AdmittedAt
    <3>3. \A i \in DOMAIN admitted[t] :
            admitted[t][i] \in x .. MaxTime => admitted[t][i] \in (r + MaxStall) .. MaxTime
      BY <3>1, <3>2
    <3> QED
      BY <3>3, CountMonotone DEF Since
  <2>2. Since(t, x) \in Nat
    BY CountTyped DEF Since
  <2> QED
    BY <2>1, <2>2 DEF Accounted
<1>2. ASSUME NEW k \in Nat \ {0}, NEW x \in Int,
             x >= n + window_size - k * window_size + MaxStall
      PROVE  Since(t, x) <= (k - 1) * max_per_window
  <2>1. CASE k = 1
    <3>1. Since(t, x) = 0
      BY <1>1, <1>2, <2>1, LimiterAssumption
    <3> QED
      BY <2>1, <3>1, LimiterAssumption
  <2>2. CASE k # 1
    <3> DEFINE back == k * window_size
               less == (k - 1) * window_size
    <3>1. k - 1 \in Nat \ {0}
      BY <2>2
    <3>2. less = back - window_size /\ back \in Nat
      BY OneWindowLess
    <3>3. x >= n + window_size - back + MaxStall
      BY <1>2
    <3> HIDE DEF back, less
    <3>4. x >= r - less + MaxStall
      BY <3>2, <3>3, LimiterAssumption
    <3>5. Since(t, x) <= c + ((k - 1) - 1) * max_per_window
      BY <3>1, <3>4 DEF Accounted, less
    <3>6. /\ (k - 1) * max_per_window = ((k - 1) - 1) * max_per_window + max_per_window
          /\ ((k - 1) - 1) * max_per_window \in Nat
      BY <3>1, OneWindowLess
    <3>7. c <= max_per_window /\ Since(t, x) \in Nat
      BY CountTyped DEF Accounted, Since
    <3> QED
      BY <3>5, <3>6, <3>7, LimiterAssumption
  <2> QED
    BY <2>1, <2>2
<1>3. n + window_size + MaxStall \in Int /\ n + window_size + MaxStall >= r + MaxStall
  BY LimiterAssumption
<1> QED
  BY <1>1, <1>2, <1>3

\* The window a check works with, renewed or not, is accounted for, and not over.
LEMMA EntryAccounted ==
  ASSUME LimiterInv, CountsInv, NEW t \in Tenants, NEW n \in 0 .. MaxTime
  PROVE  /\ Accounted(t, Entry(t, n).reset_at, Entry(t, n).count)
         /\ n < Entry(t, n).reset_at
<1>1. TypeOK /\ n \in Nat
  BY LimiterAssumption DEF LimiterInv
<1>2. CASE window[t] = NoWindow
  <2>1. Entry(t, n) = [count |-> 0, reset_at |-> n + window_size]
    BY <1>2 DEF Entry
  <2>2. \A x : Since(t, x) = 0
    <3>1. \A x : Within(admitted[t], x .. MaxTime) = {}
      BY <1>2 DEF CountsInv, Within
    <3> QED
      BY <3>1, FS_EmptySet DEF Since, AdmittedIn
  <2>3. \A k \in Nat \ {0} : 0 <= 0 + (k - 1) * max_per_window
    BY OneWindowLess
  <2>4. Accounted(t, n + window_size, 0)
    BY <2>2, <2>3, LimiterAssumption DEF Accounted
  <2> QED
    BY <1>1, <2>1, <2>4, LimiterAssumption
<1>3. CASE window[t] # NoWindow
  <2> DEFINE r == window[t].reset_at
             c == window[t].count
  <2>1. r \in Nat /\ c \in Nat /\ Accounted(t, r, c)
    BY <1>1, <1>3 DEF TypeOK, Windows, CountsInv
  <2>2. CASE n < r
    <3>1. Entry(t, n) = window[t]
      BY <1>1, <1>3, <2>1, <2>2 DEF Entry
    <3> QED
      BY <2>1, <2>2, <3>1
  <2>3. CASE ~(n < r)
    <3>1. Entry(t, n) = [count |-> 0, reset_at |-> n + window_size] /\ n >= r
      BY <1>1, <2>1, <2>3 DEF Entry
    <3> HIDE DEF r, c
    <3>2. /\ Since(t, n + window_size + MaxStall) = 0
          /\ \A k \in Nat \ {0}, x \in Int :
               x >= n + window_size - k * window_size + MaxStall =>
                 Since(t, x) <= (k - 1) * max_per_window
      BY <1>1, <2>1, <3>1, NewWindow
    <3>3. \A k \in Nat \ {0} : (k - 1) * max_per_window = 0 + (k - 1) * max_per_window
      BY OneWindowLess
    <3>4. 0 <= Since(t, n + window_size - window_size)
      BY <1>1, CountTyped DEF Since
    <3>5. Accounted(t, n + window_size, 0)
      BY <3>2, <3>3, <3>4, LimiterAssumption DEF Accounted
    <3> QED
      BY <1>1, <3>1, <3>5, LimiterAssumption
  <2> QED
    BY <2>2, <2>3
<1> QED
  BY <1>2, <1>3

\* The request that is admitted is one more for its window and its tick.
LEMMA Admission ==
  ASSUME LimiterInv, CountsInv, NEW h \in Handlers, Allow(h)
  PROVE  \E t \in Tenants, r \in Nat, c \in Nat :
           /\ Accounted(t, r, c) /\ c < max_per_window
           /\ r <= clock + window_size /\ clock < r + MaxStall
           /\ window' = [window EXCEPT ![t] = [count |-> c + 1, reset_at |-> r]]
           /\ admitted' = [admitted EXCEPT ![t] = Append(@, clock)] /\ clock' = clock
<1> DEFINE t == tenant[h]
           n == now[h]
           w == Entry(t, n)
<1>1. t \in Tenants /\ n \in 0 .. MaxTime /\ n \in Nat /\ clock \in Nat
  BY LimiterAssumption DEF LimiterInv, TypeOK
<1>2. w \in Windows /\ w.reset_at <= clock + window_size
  BY EntryEndsSoon
<1>3. Accounted(t, w.reset_at, w.count) /\ n < w.reset_at
  BY <1>1, EntryAccounted
<1>4. clock - n <= MaxStall
  BY DEF LimiterInv, ReadingsAreFresh, Allow
<1>5. /\ w.count < max_per_window /\ window' = [window EXCEPT ![t] = [w EXCEPT !.count = @ + 1]]
      /\ admitted' = [admitted EXCEPT ![t] = Append(@, clock)] /\ clock' = clock
  BY DEF Allow
<1> HIDE DEF t, n, w
<1>6. /\ w.reset_at \in Nat /\ w.count \in Nat
      /\ [w EXCEPT !.count = @ + 1] = [count |-> w.count + 1, reset_at |-> w.reset_at]
  BY <1>2 DEF Windows
<1>7. clock < w.reset_at + MaxStall
  BY <1>1, <1>3, <1>4, <1>6, LimiterAssumption
<1> QED
  BY <1>1, <1>2, <1>3, <1>5, <1>6, <1>7

\* The counts after it.
LEMMA CountAfter ==
  ASSUME LimiterInv, NEW t \in Tenants,
         admitted' = [admitted EXCEPT ![t] = Append(@, clock)]
  PROVE  /\ \A from, to : AdmittedIn(t, from, to)' =
              AdmittedIn(t, from, to) + IF clock \in from .. to THEN 1 ELSE 0
         /\ \A u \in Tenants \ {t} : \A from, to :
              AdmittedIn(u, from, to)' = AdmittedIn(u, from, to)
<1>1. /\ admitted[t] \in Seq(0 .. MaxTime) /\ clock \in 0 .. MaxTime
      /\ admitted'[t] = Append(admitted[t], clock)
      /\ \A u \in Tenants \ {t} : admitted'[u] = admitted[u]
  BY DEF LimiterInv, TypeOK
<1>2. ASSUME NEW from, NEW to
      PROVE  AdmittedIn(t, from, to)' =
               AdmittedIn(t, from, to) + IF clock \in from .. to THEN 1 ELSE 0
  <2> DEFINE s == admitted[t]
  <2>1. Cardinality(Within(Append(s, clock), from .. to))
          = Cardinality(Within(s, from .. to)) + IF clock \in from .. to THEN 1 ELSE 0
    <3> HIDE DEF s
    <3>1. s \in Seq(0 .. MaxTime) /\ clock \in 0 .. MaxTime
      BY <1>1 DEF s
    <3> QED
      BY ONLY <3>1, CountAppended
  <2> QED
    BY <1>1, <2>1 DEF AdmittedIn
<1>3. ASSUME NEW u \in Tenants \ {t}, NEW from, NEW to
      PROVE  AdmittedIn(u, from, to)' = AdmittedIn(u, from, to)
  BY <1>1 DEF AdmittedIn
<1> QED
  BY <1>2, <1>3
\* What is not touched stays accounted for.
LEMMA SameCounts ==
  ASSUME NEW t \in Tenants, UNCHANGED admitted[t]
  PROVE  /\ \A from, to : AdmittedIn(t, from, to)' = AdmittedIn(t, from, to)
         /\ \A r \in Nat, c \in Nat : Accounted(t, r, c) => Accounted(t, r, c)'
<1>1. \A from, to : AdmittedIn(t, from, to)' = AdmittedIn(t, from, to)
  BY DEF AdmittedIn
<1> QED
  BY <1>1 DEF Accounted, Since

\* An admission keeps the account of its window.
LEMMA AdmissionAccounted ==
  ASSUME LimiterInv, NEW t \in Tenants, NEW r \in Nat, NEW c \in Nat,
         Accounted(t, r, c), c < max_per_window,
         r <= clock + window_size, clock < r + MaxStall,
         admitted' = [admitted EXCEPT ![t] = Append(@, clock)]
  PROVE  Accounted(t, r, c + 1)'
<1>1. \A x \in Int : /\ clock >= x => Since(t, x)' = Since(t, x) + 1
                     /\ ~(clock >= x) => Since(t, x)' = Since(t, x)
  <2>1. clock \in Nat /\ clock <= MaxTime /\ MaxTime \in Nat
    BY LimiterAssumption DEF LimiterInv, TypeOK
  <2>2. \A x \in Int : clock \in x .. MaxTime <=> clock >= x
    BY <2>1
  <2> SUFFICES ASSUME NEW x \in Int
               PROVE  /\ clock >= x => Since(t, x)' = Since(t, x) + 1
                      /\ ~(clock >= x) => Since(t, x)' = Since(t, x)
    OBVIOUS
  <2>3. Since(t, x)' = Since(t, x) + IF clock \in x .. MaxTime THEN 1 ELSE 0
    BY CountAfter DEF Since
  <2>4. Since(t, x) \in Nat
    BY CountTyped DEF LimiterInv, Since
  <2>5. ASSUME clock >= x PROVE Since(t, x)' = Since(t, x) + 1
    BY <2>2, <2>3, <2>5
  <2>6. ASSUME ~(clock >= x) PROVE Since(t, x)' = Since(t, x)
    <3>1. Since(t, x)' = Since(t, x) + 0
      BY <2>2, <2>3, <2>6
    <3> QED
      BY <2>4, <3>1
  <2> QED
    BY <2>5, <2>6
<1>2. clock \in Nat /\ \A x \in Int : Since(t, x) \in Nat
  BY CountTyped, LimiterAssumption DEF LimiterInv, TypeOK, Since
<1>3. c + 1 <= max_per_window
  BY LimiterAssumption
<1>4. c + 1 <= Since(t, r - window_size)'
  <2>1. r - window_size \in Int /\ clock >= r - window_size /\ c <= Since(t, r - window_size)
    BY <1>2, LimiterAssumption DEF Accounted
  <2>2. Since(t, r - window_size)' = Since(t, r - window_size) + 1
    BY <1>1, <2>1
  <2>3. Since(t, r - window_size) \in Nat
    BY <1>2, <2>1
  <2> QED
    BY <2>1, <2>2, <2>3
<1>5. Since(t, r + MaxStall)' = 0
  <2>1. r + MaxStall \in Int /\ ~(clock >= r + MaxStall) /\ Since(t, r + MaxStall) = 0
    BY <1>2, LimiterAssumption DEF Accounted
  <2> QED
    BY <1>1, <2>1
<1>6. ASSUME NEW k \in Nat \ {0}, NEW x \in Int, x >= r - k * window_size + MaxStall
      PROVE  Since(t, x)' <= (c + 1) + (k - 1) * max_per_window
  <2> DEFINE before == (k - 1) * max_per_window
  <2>1. Since(t, x) <= c + before
    BY <1>6 DEF Accounted
  <2>2. before \in Nat
    BY OneWindowLess
  <2> HIDE DEF before
  <2>3. Since(t, x)' = Since(t, x) + 1 \/ Since(t, x)' = Since(t, x)
    BY <1>1
  <2>4. Since(t, x) \in Nat
    BY <1>2
  <2>5. Since(t, x)' <= (c + 1) + before
    BY <2>1, <2>2, <2>3, <2>4
  <2> QED
    BY <2>5 DEF before
<1> QED
  BY <1>3, <1>4, <1>5, <1>6 DEF Accounted

\* A refusal leaves an account of the window it leaves.
LEMMA Refusal ==
  ASSUME LimiterInv, CountsInv, NEW h \in Handlers, Limit(h)
  PROVE  \E t \in Tenants, r \in Nat, c \in Nat :
           /\ t = tenant[h] /\ Accounted(t, r, c) /\ c = max_per_window /\ now[h] < r
           /\ window' = [window EXCEPT ![t] = [count |-> c, reset_at |-> r]]
<1> DEFINE t == tenant[h]
           n == now[h]
           w == Entry(t, n)
<1>1. t \in Tenants /\ n \in 0 .. MaxTime
  BY DEF LimiterInv, TypeOK
<1>2. w \in Windows
  BY EntryEndsSoon
<1>3. Accounted(t, w.reset_at, w.count) /\ n < w.reset_at
  BY <1>1, EntryAccounted
<1>4. w.count >= max_per_window /\ window' = [window EXCEPT ![t] = w]
  BY DEF Limit
<1> HIDE DEF w
<1>5. /\ w.reset_at \in Nat /\ w.count \in Nat
      /\ w = [count |-> w.count, reset_at |-> w.reset_at]
  BY <1>2 DEF Windows
<1>6. w.count = max_per_window
  <2>1. w.count <= max_per_window
    BY <1>3 DEF Accounted
  <2> QED
    BY <1>4, <1>5, <2>1, LimiterAssumption
<1> QED
  BY <1>1, <1>3, <1>4, <1>5, <1>6

\* Every step keeps the accounts.
LEMMA CountsInvariant == Spec => []CountsInv
<1>1. Init => CountsInv
  BY DEF Init, CountsInv
<1>2. LimiterInv /\ CountsInv /\ [Next]_vars => CountsInv'
  <2> SUFFICES ASSUME LimiterInv, CountsInv, [Next]_vars PROVE CountsInv'
    OBVIOUS
  <2>0. \A t \in Tenants : window[t] # NoWindow =>
          window[t].reset_at \in Nat /\ window[t].count \in Nat
    BY DEF LimiterInv, TypeOK, Windows
  <2>1. ASSUME NEW h \in Handlers, Allow(h) PROVE CountsInv'
    <3>1. PICK t \in Tenants, r \in Nat, c \in Nat :
            /\ Accounted(t, r, c) /\ c < max_per_window
            /\ r <= clock + window_size /\ clock < r + MaxStall
            /\ window' = [window EXCEPT ![t] = [count |-> c + 1, reset_at |-> r]]
            /\ admitted' = [admitted EXCEPT ![t] = Append(@, clock)] /\ clock' = clock
      BY <2>1, Admission
    <3>2. Accounted(t, r, c + 1)'
      BY <3>1, AdmissionAccounted
    <3>3. window'[t].reset_at = r /\ window'[t].count = c + 1 /\ window'[t] # NoWindow
      BY <3>1 DEF LimiterInv, TypeOK, NoWindow
    <3>4. \A i \in DOMAIN admitted'[t] : admitted'[t][i] <= clock'
      <4> DEFINE s == admitted[t]
      <4>1. /\ admitted'[t] = Append(s, clock) /\ clock' = clock /\ clock \in Nat
            /\ \A i \in DOMAIN s : s[i] <= clock
        BY <3>1, LimiterAssumption DEF CountsInv, LimiterInv, TypeOK
      <4>2. s \in Seq(0 .. MaxTime) /\ clock \in 0 .. MaxTime
        BY AdmittedAt DEF LimiterInv, TypeOK
      <4> HIDE DEF s
      <4>3. /\ DOMAIN Append(s, clock) = 1 .. Len(s) + 1 /\ DOMAIN s = 1 .. Len(s)
            /\ Append(s, clock)[Len(s) + 1] = clock /\ Len(s) \in Nat
            /\ \A i \in DOMAIN s : Append(s, clock)[i] = s[i]
        BY ONLY <4>2, AppendProperties
      <4> QED
        BY <4>1, <4>3
    <3>5. ASSUME NEW u \in Tenants, u # t
          PROVE  UNCHANGED <<window[u], admitted[u], clock>>
      BY <3>1, <3>5 DEF LimiterInv, TypeOK
    <3> QED
      BY <2>0, <3>2, <3>3, <3>4, <3>5, SameCounts DEF CountsInv
  <2>2. ASSUME NEW h \in Handlers, Limit(h) PROVE CountsInv'
    <3>1. PICK t \in Tenants, r \in Nat, c \in Nat :
            /\ Accounted(t, r, c)
            /\ window' = [window EXCEPT ![t] = [count |-> c, reset_at |-> r]]
      BY <2>2, Refusal
    <3>2. UNCHANGED <<admitted, clock>>
      BY <2>2 DEF Limit
    <3>3. window'[t].reset_at = r /\ window'[t].count = c /\ window'[t] # NoWindow
      BY <3>1 DEF LimiterInv, TypeOK, NoWindow
    <3>4. ASSUME NEW u \in Tenants, u # t PROVE window'[u] = window[u]
      BY <3>1, <3>4 DEF LimiterInv, TypeOK
    <3> QED
      BY <2>0, <3>1, <3>2, <3>3, <3>4, SameCounts DEF CountsInv
  <2>3. CASE UNCHANGED <<window, admitted>> /\ clock' \in Nat /\ clock' >= clock
    <3>1. \A t \in Tenants : \A i \in DOMAIN admitted[t] : admitted[t][i] <= clock'
      <4>1. \A t \in Tenants : \A i \in DOMAIN admitted[t] : admitted[t][i] \in Nat
        BY AdmittedAt, LimiterAssumption DEF LimiterInv
      <4> QED
        BY <2>3, <4>1, LimiterAssumption DEF CountsInv, LimiterInv, TypeOK
    <3> QED
      BY <2>0, <2>3, <3>1, SameCounts DEF CountsInv
  <2>4. \/ \E h \in Handlers : Allow(h) \/ Limit(h)
        \/ UNCHANGED <<window, admitted>> /\ clock' \in Nat /\ clock' >= clock
    BY LimiterAssumption
       DEF Next, vars, Arrive, TellRetryAfter, Tick, LimiterInv, TypeOK
  <2> QED
    BY <2>1, <2>2, <2>3, <2>4
<1> QED
  BY <1>1, <1>2, LimiterInvariant, PTL DEF Spec

\* The windows that meet a stretch reach back over it and the wait before it.
LEMMA Spanned ==
  /\ WindowsSpanned \in Nat \ {0}
  /\ WindowsSpanned * window_size >= 2 * window_size + MaxStall - 1
<1> DEFINE W == window_size
           a == MaxStall + W - 2
           q == a \div W
<1>1. W \in Nat /\ W > 0 /\ MaxStall \in Nat /\ a \in Int /\ a >= W - 2
  BY LimiterAssumption
<1>2. q \in Int /\ a = q * W + (a % W) /\ a % W \in 0 .. W - 1
  BY <1>1
<1>3. (2 + q) * W = 2 * W + q * W
  BY <1>1, <1>2
<1>4. q >= -1
  <2>1. ASSUME q <= -2 PROVE q * W <= -2 * W
    BY <1>1, <1>2, <2>1
  <2> QED
    BY <1>1, <1>2, <2>1
<1>5. (2 + q) * W >= 2 * W + MaxStall - 1
  <2> DEFINE p == q * W
             rem == a % W
  <2>1. p \in Int /\ rem \in Int /\ rem <= W - 1 /\ MaxStall + W - 2 = p + rem
    BY <1>1, <1>2
  <2> HIDE DEF p, rem
  <2>2. 2 * W + p >= 2 * W + MaxStall - 1
    BY <1>1, <2>1
  <2> QED
    BY <1>3, <2>2 DEF p
<1> QED
  BY <1>2, <1>4, <1>5 DEF WindowsSpanned

(***************************************************************************)
(* How far the fixed window is from a rate: any stretch of time as long as *)
(* the window admits at most two windows' worth of requests, and one more  *)
(* for each window's length that handlers wait for the mutex, begun after  *)
(* the first tick.                                                         *)
(***************************************************************************)
THEOREM BurstInvariant == Spec => []BurstBound
<1> DEFINE k == WindowsSpanned
<1>0. /\ k \in Nat \ {0} /\ k * window_size \in Nat
      /\ k * window_size >= 2 * window_size + MaxStall - 1
      /\ (k - 1) * max_per_window \in Nat
      /\ k * max_per_window = (k - 1) * max_per_window + max_per_window
  BY Spanned, OneWindowLess
<1>1. Init => BurstBound
  <2> SUFFICES ASSUME Init, NEW t \in Tenants, NEW from \in 0 .. MaxTime
               PROVE  AdmittedIn(t, from, from + window_size - 1) <= k * max_per_window
    BY DEF BurstBound
  <2>1. Within(admitted[t], from .. (from + window_size - 1)) = {}
    BY DEF Init, Within
  <2>2. AdmittedIn(t, from, from + window_size - 1) = 0
    BY <2>1, FS_EmptySet DEF AdmittedIn
  <2> DEFINE most == k * max_per_window
  <2>3. 0 <= most
    BY <1>0, LimiterAssumption
  <2> QED
    BY <2>2, <2>3
<1>2. LimiterInv /\ CountsInv /\ BurstBound /\ [Next]_vars => BurstBound'
  <2> SUFFICES ASSUME LimiterInv, CountsInv, BurstBound, [Next]_vars,
                      NEW u \in Tenants, NEW from \in 0 .. MaxTime
               PROVE  AdmittedIn(u, from, from + window_size - 1)' <= k * max_per_window
    BY DEF BurstBound
  <2> DEFINE to == from + window_size - 1
  <2>0. AdmittedIn(u, from, to) <= k * max_per_window
    BY DEF BurstBound
  <2>1. ASSUME NEW h \in Handlers, Allow(h)
        PROVE  AdmittedIn(u, from, to)' <= k * max_per_window
    <3>1. PICK t \in Tenants, r \in Nat, c \in Nat :
            /\ Accounted(t, r, c) /\ c < max_per_window /\ r <= clock + window_size
            /\ admitted' = [admitted EXCEPT ![t] = Append(@, clock)]
      BY <2>1, Admission
    <3>2. CASE u = t /\ clock \in from .. to
      <4>1. AdmittedIn(t, from, to)' = AdmittedIn(t, from, to) + 1
        BY <3>1, <3>2, CountAfter
      <4>2. AdmittedIn(t, from, to) <= Since(t, from)
        <5>1. \A y \in 0 .. MaxTime : y \in from .. to => y \in from .. MaxTime
          BY LimiterAssumption
        <5>2. \A i \in DOMAIN admitted[t] :
                admitted[t][i] \in from .. to => admitted[t][i] \in from .. MaxTime
          BY <5>1, AdmittedAt DEF LimiterInv
        <5> QED
          BY <5>2, CountMonotone DEF LimiterInv, Since
      <4>3. Since(t, from) <= c + (k - 1) * max_per_window
        <5> DEFINE back == k * window_size
        <5>1. clock \in Nat /\ from \in Nat /\ from \in Int /\ clock <= from + window_size - 1
          BY <3>2, LimiterAssumption DEF LimiterInv, TypeOK
        <5>2. back \in Nat /\ back >= 2 * window_size + MaxStall - 1
          BY <1>0
        <5> HIDE DEF back
        <5>3. from >= r - back + MaxStall
          BY <3>1, <5>1, <5>2, LimiterAssumption
        <5> HIDE DEF k
        <5> QED
          BY <1>0, <3>1, <5>1, <5>3 DEF Accounted, back
      <4>4. AdmittedIn(t, from, to) \in Nat /\ Since(t, from) \in Nat
        BY CountTyped DEF LimiterInv, Since
      <4> DEFINE before == (k - 1) * max_per_window
      <4>5. before \in Nat /\ k * max_per_window = before + max_per_window
        BY <1>0
      <4>6. Since(t, from) <= c + before
        BY <4>3
      <4> HIDE DEF before, k, to
      <4>7. AdmittedIn(t, from, to) + 1 <= before + max_per_window
        BY <3>1, <4>2, <4>4, <4>5, <4>6, LimiterAssumption
      <4> QED
        BY <3>2, <4>1, <4>5, <4>7
    <3>3. CASE ~(u = t /\ clock \in from .. to)
      <4>1. AdmittedIn(u, from, to)' = AdmittedIn(u, from, to) \/
            (u = t /\ AdmittedIn(u, from, to)' = AdmittedIn(u, from, to) + 0)
        BY <3>1, <3>3, CountAfter
      <4>2. AdmittedIn(u, from, to) \in Nat
        BY CountTyped DEF LimiterInv
      <4> HIDE DEF to, k
      <4> QED
        BY <2>0, <4>1, <4>2
    <3> QED
      BY <3>2, <3>3
  <2>2. CASE UNCHANGED admitted
    BY <2>0, <2>2, SameCounts
  <2>3. UNCHANGED admitted \/ \E h \in Handlers : Allow(h)
    BY DEF Next, vars, Arrive, Limit, TellRetryAfter, Tick
  <2> QED
    BY <2>1, <2>2, <2>3
<1> QED
  BY <1>1, <1>2, LimiterInvariant, CountsInvariant, PTL DEF Spec

(***************************************************************************)
(* Nobody is refused without cause: when a handler refuses a request, the  *)
(* tenant has used a whole window's worth within the last window, give or  *)
(* take the wait for the mutex.                                            *)
(***************************************************************************)
THEOREM RefusalInvariant == Spec => RefusedOnlyWhenSpent
<1>1. ASSUME LimiterInv, CountsInv, NEW h \in Handlers, Limit(h)
      PROVE  AdmittedIn(tenant[h], clock - window_size - MaxStall + 1, clock)
               >= max_per_window
  <2>1. PICK t \in Tenants, r \in Nat, c \in Nat :
          t = tenant[h] /\ Accounted(t, r, c) /\ c = max_per_window /\ now[h] < r
    BY <1>1, Refusal
  <2> DEFINE from == clock - window_size - MaxStall + 1
  <2>2. /\ clock \in Nat /\ clock <= MaxTime /\ now[h] \in Nat /\ clock - now[h] <= MaxStall
    BY <1>1, LimiterAssumption DEF LimiterInv, TypeOK, ReadingsAreFresh, Limit
  <2>3. r - window_size >= from /\ from \in Int
    BY <2>1, <2>2, LimiterAssumption
  <2>4. \A i \in DOMAIN admitted[t] :
          admitted[t][i] \in (r - window_size) .. MaxTime => admitted[t][i] \in from .. clock
    <3>1. \A y \in 0 .. MaxTime :
            y \in (r - window_size) .. MaxTime /\ y <= clock => y \in from .. clock
      BY <2>2, <2>3, LimiterAssumption
    <3>2. \A i \in DOMAIN admitted[t] :
            admitted[t][i] \in 0 .. MaxTime /\ admitted[t][i] <= clock
      BY <1>1, AdmittedAt DEF LimiterInv, CountsInv
    <3> QED
      BY <3>1, <3>2
  <2>5. Since(t, r - window_size) <= AdmittedIn(t, from, clock)
    BY <1>1, <2>4, CountMonotone DEF LimiterInv, Since
  <2>6. max_per_window <= Since(t, r - window_size)
    BY <2>1 DEF Accounted
  <2>7. Since(t, r - window_size) \in Nat /\ AdmittedIn(t, from, clock) \in Nat
    BY <1>1, CountTyped DEF LimiterInv, Since
  <2> HIDE DEF from
  <2>8. AdmittedIn(t, from, clock) >= max_per_window
    BY <2>5, <2>6, <2>7, LimiterAssumption
  <2> QED
    BY <2>1, <2>8 DEF from
<1>2. LimiterInv /\ CountsInv /\ [Next]_vars =>
        [\A h \in Handlers : Limit(h) =>
           AdmittedIn(tenant[h], clock - window_size - MaxStall + 1, clock)
             >= max_per_window]_vars
  BY <1>1
<1> QED
  BY <1>2, LimiterInvariant, CountsInvariant, PTL DEF Spec, RefusedOnlyWhenSpent

===============================================================================
