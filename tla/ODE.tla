-------------------------------- MODULE ODE --------------------------------
(***************************************************************************)
(* Class ODE of CClib/ODE: the integrator under the isentropes, loci and   *)
(* wave profiles.  It answers "the state at t" from a ring of its last     *)
(* steps (Cache, the inner cache), else it restarts from a list of saved   *)
(* states (Initial, the outer cache), and it keeps the zeros of a stop     *)
(* condition that it passed (Stops).                                       *)
(*                                                                         *)
(* Times are integers.  The state y(t) is a function of t, so an entry is  *)
(* known by its time; what matters is which step an answer is interpolated *)
(* on.  The numerics are parameters: MaxStep, the longest step MaxNorm     *)
(* accepts; Tmin .. Tmax, where F can be evaluated (a step is halved until *)
(* it stays inside); Zeros, where StopCondition vanishes, and BadStops,    *)
(* where it is not finite.  dt_min is one unit of time.  A growth of the   *)
(* step by 2^(1/2) is a doubling.                                          *)
(*                                                                         *)
(* Integrate(f, val), which looks for the time where an increasing f(y(t)) *)
(* is val, is the operation Find; a value is known by its time, too.       *)
(*                                                                         *)
(* The loops of Integrate(t), ForwardIntegrate(t), BackwardIntegrate(t)    *)
(* take one action a Step; the code before a loop is the action that       *)
(* starts the call, the code behind it the action that ends the call.      *)
(***************************************************************************)
EXTENDS Integers, Sequences, FiniteSets, CursorOps

CONSTANTS
  NCache,      \* n_cache
  CacheStep,   \* steps between the states saved in Initial, -1 for none
  NeverStop,   \* the stop condition is not calculated
  MaxStep, Tmin, Tmax, Zeros, BadStops,
  FailLate,    \* at Tmin and Tmax F fails only after the step was accepted
  MaxSteps,    \* max_steps
  MaxStops,    \* bound: no call starts a loop with more links on Stops
  T0,          \* the initial time
  Dts,         \* estimates of the first step that clients give to Initialize
  Requests,    \* times clients ask for
  Ops,         \* calls: "Integrate", "Find", "Forward", "Backward", "IgnoreStop"
  Inf          \* HUGE_VAL

ASSUME ODEAssumption ==
  /\ NCache \in Nat /\ NCache >= 2
  /\ CacheStep \in Nat \cup {-1}
  /\ NeverStop \in BOOLEAN /\ FailLate \in BOOLEAN
  /\ MaxStep \in Nat \ {0} /\ MaxSteps \in Nat \ {0} /\ MaxStops \in Nat
  /\ Tmin \in Int /\ Tmax \in Int /\ Inf \in Nat
  /\ T0 \in Int /\ Tmin < T0 /\ T0 < Tmax
  /\ Dts \subseteq Int /\ BadStops \cap Zeros = {}
  /\ \A t \in Requests \cup Zeros \cup {Tmin, Tmax} :
       t \in Int /\ -Inf < t - MaxStep /\ t + MaxStep < Inf
  /\ Ops \subseteq {"Integrate", "Find", "Forward", "Backward", "IgnoreStop"}

VARIABLES
  Cache, cach0, cach1, cache,   \* the ring; its first, last and latest used entry
  dir,                          \* 1: steps after T0, -1: before T0, 0: no ring
  n_steps,                      \* steps since the last outer state, -1: known steps
  init, InitH,                  \* initialized?, Init.h
  Initial, t_min, t_max,        \* the outer cache, between -Inf and Inf, and its limits
  Stops,                        \* the zeros found, between -Inf and Inf
  IgnoreStop, t_last,
  call,                         \* the call in progress
  ans                           \* ghost: the last answer, None while a call runs

ring == <<Cache, cach0, cach1>>
outer == <<Initial, t_min, t_max>>
vars == <<ring, cache, dir, n_steps, init, InitH, outer, Stops, IgnoreStop, t_last,
          call, ans>>

Slots == 0 .. NCache - 1
NextCache(n) == (n + 1) % NCache
PrevCache(n) == (n - 1) % NCache

Abs(x) == IF x < 0 THEN -x ELSE x
Lesser(x, y) == IF x < y THEN x ELSE y
Least(S) == CHOOSE x \in S : \A y \in S : x <= y
Greatest(S) == CHOOSE x \in S : \A y \in S : y <= x

(***************************************************************************)
(* The derived class.                                                      *)
(***************************************************************************)
\* StopCondition(y(t), t): its sign changes at each zero.
StopCondition(t) ==
  IF t \in Zeros THEN 0
  ELSE IF Cardinality({z \in Zeros : z < t}) % 2 = 0 THEN 1 ELSE -1

\* What comparisons find in a value that is not finite: an infinite one has a
\* sign, NaN has none.
NotFinite == {-1, 0, 1}

\* Mutant: F is not asked where it can be evaluated.
AcceptedAnywhere(C) == IF C.h > 0 THEN Lesser(C.h, MaxStep) ELSE -Lesser(-C.h, MaxStep)

\* The step that is accepted when C.h is tried from C.t: 0 when F fails at once.
Accepted(C) ==
  LET room == IF C.h > 0 THEN Tmax - C.t ELSE C.t - Tmin
      size == Lesser(Lesser(Abs(C.h), MaxStep), room)
  IN  IF C.h > 0 THEN size ELSE -size

\* norm < 1/4: the next step may grow.
CanGrow(h) == 2 * Abs(h) <= MaxStep
Grown(h) == IF CanGrow(h) THEN 2 * h ELSE h

(***************************************************************************)
(* Step(t_request): the set of what it may do, all but StopTime being      *)
(* determined.  Entry r.status is what it returns, "OK" for 0.             *)
(***************************************************************************)
\* Mutant: entries go behind InftyPlus.
EnterLast(L, e) == IF dir > 0 THEN AddL(EndL(L), e) ELSE AddL(StartL(L), e)

\* A new entry of Initial or of Stops, at the end dir points to.
EnterOuter(L, e) == IF dir > 0 THEN InsertL(EndL(L), e) ELSE AddL(StartL(L), e)

\* StopTime(C1, Cnew): a zero between the two; on the sign of a stale stop
\* condition there is none, and it fails or runs to the end C1.
StopTimes(C1, t) ==
  LET between == {z \in Zeros : (C1.t < z /\ z < t) \/ (t < z /\ z < C1.t)}
  IN  IF t \in Zeros THEN {t} ELSE IF between # {} THEN between ELSE {C1.t, Inf}

Unmoved(status) ==
  [Cache |-> Cache, cach0 |-> cach0, cach1 |-> cach1, n_steps |-> n_steps,
   Initial |-> Initial, Stops |-> Stops, status |-> status]

\* The zero tau enters Stops and stops the call that asks for it.
AtZero(r, tau, t_request, ignore) ==
  LET found == EnterOuter(r.Stops, tau)
  IN  IF tau = Inf THEN [r EXCEPT !.status = "STOP_ERROR"]
      ELSE IF ~ignore /\ dir * t_request >= dir * tau
        THEN [r EXCEPT !.Stops = found, !.status = "STOP_CONDITION"]
        ELSE [r EXCEPT !.Stops = IF t_request > tau THEN NextL(found) ELSE found]

\* The entry the step starts from gets its length, the next slot its end.
Written(cachp, h, Cnew) == [Cache EXCEPT ![cach1].h = h, ![cachp] = Cnew]

Step(t_request, ignore) ==
  LET C1 == Cache[cach1]
      h == Accepted(C1)
      t == C1.t + h
      cachp == NextCache(cach1)
      from == IF cach0 = cachp THEN NextCache(cach0) ELSE cach0
      counted == n_steps >= 0
      sc == IF counted /\ ~NeverStop THEN StopCondition(t) ELSE Cache[cachp].sc
      Cnew == [t |-> t, h |-> Grown(h), sc |-> sc]
      written(e) == [Unmoved("FAILED") EXCEPT !.Cache = Written(cachp, h, e), !.cach0 = from]
      save == counted /\ CacheStep > 0 /\ n_steps + 1 >= CacheStep
      zero == counted /\ ~NeverStop /\ (sc = 0 \/ sc * C1.sc < 0)
      moved == [Unmoved("OK") EXCEPT
                  !.Cache = Written(cachp, h, Cnew),
                  !.cach0 = from, !.cach1 = cachp,
                  !.n_steps = IF save THEN 0 ELSE IF counted THEN n_steps + 1 ELSE @,
                  !.Initial = IF save THEN EnterOuter(Initial, Cnew) ELSE @]
  IN  IF h = 0 THEN {Unmoved("NON_CONVERGENCE")}
      ELSE IF FailLate /\ t \in {Tmin, Tmax} THEN
        {written([Cnew EXCEPT !.sc = Cache[cachp].sc])}
      ELSE IF counted /\ ~NeverStop /\ t \in BadStops THEN
        {[written([Cnew EXCEPT !.sc = s]) EXCEPT !.cach1 = cachp, !.n_steps = @ + 1] : s \in NotFinite}
      ELSE IF zero THEN {AtZero(moved, tau, t_request, ignore) : tau \in StopTimes(C1, t)}
      ELSE {moved}

\* The variables after a Step but for those its caller changes too.
Stepped(r) ==
  /\ Cache' = r.Cache
  /\ n_steps' = r.n_steps
  /\ Initial' = r.Initial
  /\ t_max' = IF r.Initial # Initial /\ dir > 0 THEN Current(r.Initial).t ELSE t_max
  /\ t_min' = IF r.Initial # Initial /\ dir < 0 THEN Current(r.Initial).t ELSE t_min

(***************************************************************************)
(* Initialize(t, y, dt).                                                   *)
(***************************************************************************)
Minus == [t |-> -Inf, h |-> 0, sc |-> 0]    \* InftyMinus
Plus  == [t |-> Inf, h |-> 0, sc |-> 0]     \* InftyPlus
First == [t |-> T0, h |-> 0, sc |-> IF NeverStop \/ T0 \in BadStops THEN 0 ELSE StopCondition(T0)]

FirstStops ==
  LET s == IF ~NeverStop /\ T0 \in Zeros THEN <<-Inf, T0, Inf>> ELSE <<-Inf, Inf>>
  IN  [items |-> s, cur |-> Len(s)]

\* First link of Stops after t; with an empty list stops remain ignored.
ResyncStops(L, t) ==
  [L EXCEPT !.cur = IF L.items = << >> THEN 0 ELSE Least({i \in DOMAIN L.items : t < L.items[i]})]

None == [op |-> "None"]
NoValue == Inf
Idle == [phase |-> "idle", op |-> "None", t |-> 0, status |-> "OK", steps |-> 0,
         find |-> NoValue, sync |-> TRUE]
IsIdle == call.phase = "idle"

Initialize(dt) ==
  /\ IsIdle
  /\ IgnoreStop' = (IgnoreStop \/ NeverStop)
  /\ n_steps' = 0
  /\ Initial' = [items |-> <<Minus, First, Plus>>, cur |-> 2]
  /\ Stops' = FirstStops
  /\ t_min' = T0 /\ t_max' = T0 /\ t_last' = T0
  /\ dir' = IF dt = 0 THEN 0 ELSE IF dt > 0 THEN 1 ELSE -1
  /\ InitH' = Abs(dt)
  /\ init' = (dt = 0)
  /\ ans' = None
  /\ IF dt = 0
       THEN UNCHANGED <<ring, call>>
       ELSE /\ Cache' = [Cache EXCEPT ![0] = [First EXCEPT !.h = dt]]
            /\ cach0' = 0 /\ cach1' = 0
            /\ call' = [Idle EXCEPT !.phase = "trial", !.t = T0 + dt]
  /\ UNCHANGED cache

\* IgnoreStopOff, when stops were not ignored: the lists are in step again.
Initialized(first, last, L) ==
  /\ cach0' = first /\ cach1' = last /\ cache' = last
  /\ Stops' = IF IgnoreStop THEN L ELSE ResyncStops(L, t_last)
  /\ init' = TRUE
  /\ call' = Idle

\* The longer first steps that are tried, by the norm of the trial step.
Longer(h) == {h * m : m \in {2, 4, 8, 16, 32, 64, 128}} \cap 1 .. MaxStep

\* The trial step that gives the scale of the first step.
TrialStep ==
  /\ call.phase = "trial"
  /\ \E r \in Step(call.t, IgnoreStop) :
       LET h == Abs(r.Cache[0].h)
       IN  /\ Stepped(r)
           /\ \/ /\ r.status \notin {"OK", "STOP_CONDITION"}
                 /\ cach0' = r.cach0 /\ cach1' = r.cach1 /\ Stops' = r.Stops
                 /\ call' = Idle
                 /\ UNCHANGED <<cache, init, InitH>>
              \/ /\ r.status \in {"OK", "STOP_CONDITION"} /\ ~CanGrow(h)
                 /\ InitH' = h
                 /\ Initialized(r.cach0, r.cach1, r.Stops)
              \/ /\ r.status \in {"OK", "STOP_CONDITION"} /\ CanGrow(h)
                 /\ InitH' \in Longer(h)
                 /\ cach0' = r.cach0 /\ cach1' = r.cach1 /\ Stops' = r.Stops
                 /\ call' = [call EXCEPT !.phase = "longer", !.t = T0 + dir * InitH', !.steps = h]
                 /\ UNCHANGED <<cache, init>>
  /\ UNCHANGED <<dir, IgnoreStop, t_last, ans>>

\* The length tried next when a step with r.status was taken for InitH.
NextLength(r) == IF r.status = "OK" THEN InitH ELSE InitH \div 2

\* Mutant: the ring keeps the trial steps, behind an entry with another h.
LongerStepKept ==
  /\ call.phase = "longer"
  /\ \E r \in Step(call.t, IgnoreStop) :
       LET H == NextLength(r)
       IN  /\ r.status = "OK" \/ H <= call.steps
           /\ InitH' = H
           /\ Stepped([r EXCEPT !.Cache[0].h = dir * H])
           /\ Initialized(r.cach0, r.cach1, FirstStops)
  /\ UNCHANGED <<dir, IgnoreStop, t_last, ans>>

\* norm < 1/32: a longer first step is tried, or half of it, by a step from
\* the end of the last one that got there; the first that is taken (else the
\* length of the trial step) is kept and the ring emptied: its only entry is
\* slot 0 with a new h.
LongerStep ==
  /\ call.phase = "longer"
  /\ \E r \in Step(call.t, IgnoreStop) :
       LET H == NextLength(r)
       IN  /\ InitH' = H
           /\ \/ /\ r.status # "OK" /\ H > call.steps
                 /\ Stepped(r)
                 /\ cach0' = r.cach0 /\ cach1' = r.cach1 /\ Stops' = r.Stops
                 /\ call' = [call EXCEPT !.t = T0 + dir * H]
                 /\ UNCHANGED <<cache, init>>
              \/ /\ r.status = "OK" \/ H <= call.steps
                 /\ Stepped([r EXCEPT !.Cache[0].h = dir * H])
                 /\ Initialized(0, 0, FirstStops)
  /\ UNCHANGED <<dir, IgnoreStop, t_last, ans>>

\* Stops in step with t_last again.
IgnoreStopOff ==
  /\ IsIdle /\ "IgnoreStop" \in Ops
  /\ Stops' = ResyncStops(Stops, t_last)
  /\ IgnoreStop' = (Stops.items = << >>)
  /\ ans' = None
  /\ UNCHANGED <<ring, cache, dir, n_steps, init, InitH, outer, t_last, call>>

IgnoreStopOn ==
  /\ IsIdle /\ "IgnoreStop" \in Ops
  /\ IgnoreStop' = TRUE
  /\ ans' = None
  /\ UNCHANGED <<ring, cache, dir, n_steps, init, InitH, outer, Stops, t_last, call>>

(***************************************************************************)
(* Integrate(t), Forward(t) and Backward(t).  G(i) is Initial.Get(i), and  *)
(* (op, t) goes Past the entry at t when it wants the next step's end.     *)
(***************************************************************************)
G(i) == Initial.items[Offset(Initial, i, FALSE)]
\* Mutant: no operation asks for more than Integrate.
PastNever(op) == FALSE

Past(op) == (op = "Forward" /\ dir = 1) \/ (op = "Backward" /\ dir = -1)

\* The condition of the loops: is the last entry of the ring not yet at t?
Before(op, t, end) == dir * end < dir * t \/ (Past(op) /\ end = t)

Extends(op, t) == Before(op, t, Cache[cach1].t) /\ dir * t < dir * G(dir).t

Covers(op, t) ==
  LET lo == dir * Cache[cach0].t
      hi == dir * Cache[cach1].t
      at == dir * t
  IN  CASE op \in {"Integrate", "Find"} -> lo <= at /\ at <= hi
        [] Past(op)         -> lo <= at /\ at < hi
        [] OTHER            -> lo < at /\ at <= hi

\* In the interval of the next outer state and fewer than n_cache/4 steps away.
\* (h is negative when dir is: then the ring is abandoned.)
IsNear(t) ==
  /\ dir * G(dir).t <= dir * t /\ dir * t < dir * G(2 * dir).t
  /\ Abs(t - Cache[cach1].t) < (NCache \div 4) * Cache[cach1].h

\* Mutant: the entry used last is taken as it is, be it the first of the ring.
FindNeighborHere(op, t) ==
  IF NCache = 2 THEN cach1
  ELSE LET up == {i \in Slots : dir * Cache[i].t >= dir * t}
       IN  IF Cache[cache].t = t THEN cache
           ELSE CHOOSE i \in up : \A j \in up : dir * Cache[i].t <= dir * Cache[j].t

\* FindNeighbor, then the step of Forward- or BackwardBracket.
FindNeighbor(op, t) ==
  LET start == IF cache = cach0 THEN NextCache(cache) ELSE cache
      at(i) == dir * Cache[i].t
      \* how far from start the loops towards cach1 and towards cach0 go
      up == Least({k \in Slots : \/ (start + k) % NCache = cach1
                                 \/ k > 0 /\ dir * t <= at((start + k) % NCache)})
      down == Least({k \in Slots : \/ (start - k) % NCache = cach0
                                   \/ at(PrevCache((start - k) % NCache)) <= dir * t})
      near == IF NCache = 2 THEN cach1
              ELSE IF Cache[start].t = t THEN start
              ELSE IF at(start) < dir * t THEN (start + up) % NCache
              ELSE (start - down) % NCache
  IN  IF Past(op) /\ Cache[near].t = t THEN NextCache(near) ELSE near

\* Mutant: only stops after t_last are looked for.
StopAheadOnly(op, t) ==
  [stop |-> op = "Integrate" /\ ~IgnoreStop /\ Len(Stops.items) > 2 /\ Current(Stops) <= t
              /\ t >= t_last,
   list |-> Stops]

StopsKnown == ~IgnoreStop /\ Len(Stops.items) > 2

\* The check at the head of Integrate: where Stops ends, and does it stop there?
StopBetween(last, t) ==
  LET back == LET one == PrevL(Stops)
              IN  IF Current(one) = last THEN PrevL(one) ELSE one
  IN  IF Current(Stops) <= t THEN [stop |-> TRUE, list |-> Stops]
      ELSE IF t >= last THEN [stop |-> FALSE, list |-> Stops]
      ELSE IF t <= Current(back) THEN [stop |-> TRUE, list |-> back]
      ELSE [stop |-> FALSE, list |-> NextL(back)]

StopAhead(op, t) ==
  IF op = "Integrate" /\ StopsKnown THEN StopBetween(t_last, t)
  ELSE [stop |-> FALSE, list |-> Stops]

\* Forward and Backward move Stops to the first link after the time they return.
SyncStops(L, t) ==
  LET down == Greatest({i \in 1 .. L.cur : L.items[i] <= t})
  IN  [L EXCEPT !.cur = Least({i \in down .. Len(L.items) : t < L.items[i]})]

\* The current link of Stops is the first one after t_last (ODE.h).
InStep == /\ Stops.cur \in DOMAIN Stops.items /\ t_last < Current(Stops)
          /\ \A i \in 1 .. Stops.cur - 1 : Stops.items[i] <= t_last

Answer(op, t, status, at, lo, hi, h) ==
  [op |-> op, t |-> t, from |-> t_last, status |-> status, at |-> at, lo |-> lo,
   hi |-> hi, h |-> h, ignore |-> IgnoreStop,
   sync |-> IF call.phase = "loop" THEN call.sync ELSE InStep]

\* The end of a call; Integrate(t_last) returns to the Find that made it.
Finished(op, status) ==
  IF op = "Find" \/ call.find = NoValue THEN Idle
  ELSE [Idle EXCEPT !.phase = "value", !.status = status, !.find = call.find]

\* What a call returns and what it leaves in t_last and Stops.  A Find that met
\* a stop behind what it looked for leaves t_last alone.
Return(op, t, status, c, L) ==
  LET prev == PrevCache(c)
      nat == IF (op = "Forward") = (dir > 0) THEN c ELSE prev   \* the natural stop
  IN  /\ cache' = c
      /\ call' = Finished(op, status)
      /\ \/ /\ op = "Integrate" \/ (op = "Find" /\ dir * Current(L) <= dir * t)
            /\ status = "STOP_CONDITION"
            /\ t_last' = Current(L)
            /\ Stops' = NextL(L)
            /\ ans' = Answer(op, t, status, Current(L), Current(L), Current(L), 0)
         \/ /\ op = "Find" /\ dir * t < dir * Current(L) /\ status = "STOP_CONDITION"
            /\ Stops' = IF dir < 0 THEN NextL(L) ELSE L
            /\ ans' = Answer(op, t, "OK", t, Cache[prev].t, Cache[c].t, Cache[prev].h)
            /\ UNCHANGED t_last
         \/ /\ op \in {"Integrate", "Find"} /\ status = "OK"
            /\ t_last' = t
            /\ Stops' = L
            /\ ans' = Answer(op, t, status, t, Cache[prev].t, Cache[c].t, Cache[prev].h)
         \/ /\ op \in {"Forward", "Backward"} /\ status = "OK"
            /\ t_last' = Cache[nat].t
            /\ Stops' = IF IgnoreStop THEN L ELSE SyncStops(L, Cache[nat].t)
            /\ ans' = Answer(op, t, status, Cache[nat].t, Cache[prev].t, Cache[c].t, Cache[prev].h)
         \/ /\ status \notin {"OK", "STOP_CONDITION"}
            /\ Stops' = L
            /\ ans' = Answer(op, t, status, t, 0, 0, 0)
            /\ UNCHANGED t_last

\* A loop of steps to t begins; its status is ODE_BUG until a step is taken.
BeginLoop(phase, op, t, L) ==
  /\ IsIdle => Len(L.items) <= MaxStops
  /\ call' = [phase |-> phase, op |-> op, t |-> t, status |-> "ODE_BUG", steps |-> MaxSteps,
              find |-> IF op = "Find" THEN NoValue ELSE call.find, sync |-> InStep]
  /\ Stops' = L
  /\ ans' = None

\* A client, or Find, calls Integrate(t), Forward(t) or Backward(t).
Asked(op, t) ==
  /\ init
  /\ \/ IsIdle /\ op \in Ops \ {"Find", "IgnoreStop"} /\ t \in Requests
     \/ call.phase = "recall" /\ op = "Integrate" /\ t = t_last

\* A known zero lies between t_last and t.
StopAtKnown(op, t) ==
  /\ Asked(op, t) /\ StopAhead(op, t).stop
  /\ LET L == StopAhead(op, t).list
     IN  /\ t_last' = Current(L)
         /\ Stops' = NextL(L)
         /\ ans' = Answer(op, t, "STOP_CONDITION", Current(L), Current(L), Current(L), 0)
  /\ call' = Finished(op, "STOP_CONDITION")
  /\ UNCHANGED <<ring, cache, dir, n_steps, init, InitH, outer, IgnoreStop>>

\* Extend the range of integration.
Extend(op, t) ==
  /\ Asked(op, t) /\ ~StopAhead(op, t).stop /\ dir # 0 /\ Extends(op, t)
  /\ BeginLoop("loop", op, t, StopAhead(op, t).list)
  /\ UNCHANGED <<ring, cache, dir, n_steps, init, InitH, outer, IgnoreStop, t_last>>

\* Within the inner cache.
Within(op, t) ==
  /\ Asked(op, t) /\ ~StopAhead(op, t).stop /\ dir # 0 /\ ~Extends(op, t) /\ Covers(op, t)
  /\ Return(op, t, "OK", FindNeighbor(op, t), StopAhead(op, t).list)
  /\ UNCHANGED <<ring, dir, n_steps, init, InitH, outer, IgnoreStop>>

NextOuter == IF dir > 0 THEN NextL(Initial) ELSE PrevL(Initial)
AtLastOuter(i) == G(i).t \in {-Inf, Inf}

\* Maintain the continuity of the inner cache; a last interval is retraced first.
KeepRing(op, t) ==
  /\ Asked(op, t) /\ ~StopAhead(op, t).stop /\ dir # 0
  /\ ~Extends(op, t) /\ ~Covers(op, t) /\ IsNear(t)
  /\ n_steps' = -1
  /\ BeginLoop(IF AtLastOuter(2 * dir) THEN "retrace" ELSE "loop", op, t, StopAhead(op, t).list)
  /\ Initial' = IF AtLastOuter(2 * dir) THEN Initial ELSE NextOuter
  /\ UNCHANGED <<ring, cache, dir, init, InitH, t_min, t_max, IgnoreStop, t_last>>

\* Where the two while-loops over Initial end: the last state that is not after t.
Seek(t) ==
  LET up == IF Current(Initial).t < t
              THEN Least({i \in Initial.cur .. Len(Initial.items) : t <= Initial.items[i].t})
              ELSE Initial.cur
  IN  Greatest({i \in 1 .. up : Initial.items[i].t <= t})

\* Mutant: Backward restarts at t itself.
RestartHere(op, t, d) ==
  IF d < 0 /\ (op = "Forward" \/ Initial.items[Seek(t)].t \notin {T0, t}) THEN Seek(t) + 1 ELSE Seek(t)

\* The state to restart from: in direction d it must lie before the answer.
RestartAt(op, t, d) ==
  LET p == Seek(t)
      s == Initial.items[p]
  IN  CASE op = "Integrate" -> IF d < 0 /\ s.t # T0 /\ s.t # t THEN p + 1 ELSE p
        [] op = "Forward"   -> IF d < 0 THEN p + 1 ELSE p
        [] op = "Backward"  -> IF d > 0 /\ s.t = t THEN p - 1
                               ELSE IF d < 0 /\ s.t # t THEN p + 1 ELSE p

\* Mutant: the steps of a known interval are counted.
StepsAlways(at, d) == 0

\* n_steps behind the outer state with index at: steps to a known one do not count.
StepsFrom(at, d) == IF Initial.items[at + d].t \in {-Inf, Inf} THEN 0 ELSE -1

\* Start a new inner cache at the outer state with index at, in direction d.
NewRing(op, t, d, at, L) ==
  LET s == Initial.items[at]
      H == IF InitH = 0 THEN Lesser(MaxStep, IF Abs(t - T0) < 2 THEN 1 ELSE Abs(t - T0) \div 2)
           ELSE InitH
      saved(e) == /\ dir' = 0 /\ t_last' = t
                  /\ Stops' = L
                  /\ ans' = Answer(op, t, "OK", t, e, e, 0)
                  /\ call' = Finished(op, "OK")
                  /\ UNCHANGED <<ring, n_steps, InitH>>
      seeks == op \in {"Integrate", "Find"}
  IN  /\ \/ /\ seeks /\ t = T0
            /\ saved(T0)
            /\ UNCHANGED Initial
         \/ /\ seeks /\ t # T0 /\ t = s.t
            /\ Initial' = [Initial EXCEPT !.cur = at]
            /\ saved(s.t)
         \/ /\ seeks => t \notin {T0, s.t}
            /\ dir' = d
            /\ Initial' = [Initial EXCEPT !.cur = at]
            /\ n_steps' = StepsFrom(at, d)
            /\ InitH' = IF s.t = T0 THEN H ELSE InitH
            /\ Cache' = [Cache EXCEPT ![0] = IF s.t = T0 THEN [First EXCEPT !.h = d * H] ELSE s]
            /\ cach0' = 0 /\ cach1' = 0
            /\ BeginLoop("loop", op, t, L)
            /\ UNCHANGED t_last
      /\ UNCHANGED <<cache, init, t_min, t_max, IgnoreStop>>

Restart(op, t) ==
  /\ Asked(op, t) /\ ~StopAhead(op, t).stop
  /\ dir # 0 => ~Extends(op, t) /\ ~Covers(op, t) /\ ~IsNear(t)
  /\ LET d == IF t > T0 \/ (t = T0 /\ op = "Forward") THEN 1 ELSE -1
     IN  NewRing(op, t, d, RestartAt(op, t, d), StopAhead(op, t).list)

(***************************************************************************)
(* Integrate(f, val): Find(v), where v is the time at which f is val.      *)
(***************************************************************************)
\* With stops it first asks for the state at t_last.
Recall(v) ==
  /\ IsIdle /\ init /\ "Find" \in Ops /\ v \in Requests /\ StopsKnown
  /\ Len(Stops.items) <= MaxStops
  /\ call' = [Idle EXCEPT !.phase = "recall", !.find = v]
  /\ ans' = None
  /\ UNCHANGED <<ring, cache, dir, n_steps, init, InitH, outer, Stops, IgnoreStop, t_last>>

\* The time at which f is what the recalled state gives: when recalling it
\* failed, the state is a workspace of other functions.
LastValues == IF call.status \in {"OK", "STOP_CONDITION"} THEN {t_last} ELSE {-Inf, t_last, Inf}

\* What the check of the stops may say of v: with stops it uses the recalled value.
Sought(v) ==
  IF IsIdle
  THEN IF init /\ "Find" \in Ops /\ ~StopsKnown THEN {[stop |-> FALSE, list |-> Stops]} ELSE {}
  ELSE IF call.phase = "value" THEN {StopBetween(last, v) : last \in LastValues}
  ELSE {}

\* Steps before T0 are taken beyond the last outer state only.
FindExtends(v) ==
  dir * Cache[cach1].t < dir * v /\ IF dir > 0 THEN v < G(1).t ELSE G(-1).t = -Inf

\* Where the while-loops over Initial end: they do not leave the outer states.
FindSeek(v) ==
  LET inner == 2 .. Len(Initial.items) - 1
      first == IF Initial.cur = 1 THEN 2 ELSE Initial.cur
      up == IF Initial.items[first].t < v
              THEN Least({i \in inner : v <= Initial.items[i].t} \cup {Len(Initial.items) - 1})
              ELSE first
  IN  Greatest({i \in 2 .. up : Initial.items[i].t <= v} \cup {2})

FindRestartAt(v, d) ==
  LET p == FindSeek(v)
  IN  IF d < 0 /\ Initial.items[p].t \notin {T0, v} THEN p + 1 ELSE p

Find(v) ==
  \E s \in Sought(v) :
    \/ /\ s.stop
       /\ t_last' = Current(s.list)
       /\ Stops' = NextL(s.list)
       /\ call' = Idle
       /\ LET at == Current(s.list) IN ans' = Answer("Find", v, "STOP_CONDITION", at, at, at, 0)
       /\ UNCHANGED <<ring, cache, dir, n_steps, init, InitH, outer, IgnoreStop>>
    \/ /\ ~s.stop /\ dir # 0 /\ FindExtends(v)
       /\ BeginLoop("loop", "Find", v, s.list)
       /\ UNCHANGED <<ring, cache, dir, n_steps, init, InitH, outer, IgnoreStop, t_last>>
    \/ /\ ~s.stop /\ dir # 0 /\ Covers("Find", v)
       /\ Return("Find", v, "OK", FindNeighbor("Find", v), s.list)
       /\ UNCHANGED <<ring, dir, n_steps, init, InitH, outer, IgnoreStop>>
    \/ /\ ~s.stop /\ (dir # 0 => ~FindExtends(v) /\ ~Covers("Find", v))
       /\ LET d == IF v > T0 THEN 1 ELSE -1
          IN  NewRing("Find", v, d, FindRestartAt(v, d), s.list)

(***************************************************************************)
(* The loops.                                                              *)
(***************************************************************************)
Goal == IF call.phase = "retrace" THEN G(dir).t ELSE call.t
HeedsStops == ~IgnoreStop /\ call.op \in {"Integrate", "Find"}

\* Find asks Step for an infinite time: any stop that is not ignored stops it.
StepTo == IF call.op = "Find" THEN dir * Inf ELSE Goal

Steps(phase) ==
  /\ call.phase = phase
  /\ call.status \in {"ODE_BUG", "OK"}
  /\ Before(call.op, Goal, Cache[cach1].t)

\* Mutant: a step that fails is tried again and not counted.
OneStepAgain(phase) ==
  /\ Steps(phase) /\ call.steps > 1
  /\ \E r \in Step(StepTo, ~HeedsStops) :
       /\ Stepped(r)
       /\ cach0' = r.cach0 /\ cach1' = r.cach1 /\ Stops' = r.Stops
       /\ call' = IF r.status = "NON_CONVERGENCE" THEN call
                  ELSE [call EXCEPT !.status = r.status, !.steps = @ - 1]
  /\ UNCHANGED <<cache, dir, init, InitH, IgnoreStop, t_last, ans>>

OneStep(phase) ==
  /\ Steps(phase) /\ call.steps > 1
  /\ \E r \in Step(StepTo, ~HeedsStops) :
       /\ Stepped(r)
       /\ cach0' = r.cach0 /\ cach1' = r.cach1 /\ Stops' = r.Stops
       /\ call' = [call EXCEPT !.status = r.status, !.steps = @ - 1]
  /\ UNCHANGED <<cache, dir, init, InitH, IgnoreStop, t_last, ans>>

RetraceStep == OneStep("retrace")
LoopStep == OneStep("loop")

\* The status of the retrace is not looked at.
RetraceEnd ==
  /\ call.phase = "retrace" /\ ~(Steps("retrace") /\ call.steps > 1)
  /\ n_steps' = 0
  /\ Initial' = NextOuter
  /\ call' = [call EXCEPT !.phase = "loop", !.status = "ODE_BUG", !.steps = MaxSteps]
  /\ UNCHANGED <<ring, cache, dir, init, InitH, t_min, t_max, Stops, IgnoreStop, t_last, ans>>

LoopEnd ==
  /\ call.phase = "loop" /\ ~(Steps("loop") /\ call.steps > 1)
  /\ Return(call.op, call.t, IF Steps("loop") THEN "STEP_LIMIT" ELSE call.status, cach1, Stops)
  /\ UNCHANGED <<ring, dir, n_steps, init, InitH, outer, IgnoreStop>>

Init ==
  \E sc \in [Slots -> IF NeverStop THEN {0} ELSE {-1, 0, 1}] :   \* not initialized
    /\ Cache = [i \in Slots |-> [t |-> Inf, h |-> 0, sc |-> sc[i]]]
    /\ cach0 = -1 /\ cach1 = -1 /\ cache = -1
    /\ dir = 0 /\ n_steps = 0
    /\ init = FALSE /\ InitH = 0
    /\ Initial = EmptyL /\ t_min = 0 /\ t_max = 0
    /\ Stops = EmptyL /\ IgnoreStop = FALSE /\ t_last = 0
    /\ call = Idle /\ ans = None

Answers(op, t) ==
  StopAtKnown(op, t) \/ Extend(op, t) \/ Within(op, t) \/ KeepRing(op, t) \/ Restart(op, t)

Recalled  == call.phase = "recall" /\ Answers("Integrate", t_last)
FindValue == call.phase = "value" /\ Find(call.find)

Loops == \/ TrialStep \/ LongerStep \/ RetraceStep \/ LoopStep \/ RetraceEnd \/ LoopEnd
         \/ Recalled \/ FindValue

Calls ==
  \/ \E dt \in Dts : Initialize(dt)
  \/ IgnoreStopOn \/ IgnoreStopOff
  \/ \E op \in Ops, t \in Requests : IsIdle /\ Answers(op, t)
  \/ \E v \in Requests : Recall(v) \/ (IsIdle /\ Find(v))

Next == Calls \/ Loops

Spec == Init /\ [][Next]_vars /\ WF_vars(Loops)

(***************************************************************************)
(* Properties.                                                             *)
(***************************************************************************)
\* The fields keep their types.
TypeOK ==
  /\ \A i \in Slots : /\ Cache[i].t \in Tmin .. Tmax \cup {Inf}
                      /\ Cache[i].h \in -MaxStep .. MaxStep \cup Dts
                      /\ Cache[i].sc \in {-1, 0, 1}
  /\ {cach0, cach1, cache} \subseteq Slots \cup {-1}
  /\ dir \in {-1, 0, 1} /\ init \in BOOLEAN /\ IgnoreStop \in BOOLEAN
  /\ n_steps \in -1 .. IF CacheStep > 0 /\ (NeverStop \/ BadStops = {}) THEN CacheStep - 1 ELSE n_steps
  /\ IsCursorList(Initial) /\ IsCursorList(Stops)
  /\ call.phase \in {"idle", "trial", "longer", "retrace", "loop", "recall", "value"}

Ready == IsIdle /\ init

\* The used entries of the ring, from cach0 on.
Used == (cach1 - cach0) % NCache
Entry(k) == Cache[(cach0 + k) % NCache]

\* The ring is one unbroken run of steps: the end of each is the next entry.
RingContiguous ==
  Ready /\ dir # 0 =>
    \A k \in 0 .. Used - 1 : /\ Entry(k).t + Entry(k).h = Entry(k + 1).t
                             /\ dir * Entry(k).h > 0

Answered(op) == ans # None /\ ans.op = op /\ ans.status = "OK"

\* An answer is interpolated on a finished step that contains its time.
AnswerOnStep ==
  \A op \in {"Integrate", "Find", "Forward", "Backward"} :
    Answered(op) => \/ ans.at = ans.lo
                    \/ /\ ans.lo + ans.h = ans.hi
                       /\ ans.at \in ans.lo .. ans.hi \cup ans.hi .. ans.lo

\* Forward returns the first natural stop after t, Backward the last one before.
NaturalStop ==
  /\ Answered("Forward") => /\ ans.t < ans.at
                            /\ ans.at \in {ans.lo, ans.hi}
                            /\ Lesser(ans.lo, ans.hi) <= ans.t
  /\ Answered("Backward") => /\ ans.at < ans.t
                             /\ ans.at \in {ans.lo, ans.hi}
                             /\ ans.t <= (IF ans.lo < ans.hi THEN ans.hi ELSE ans.lo)

Sorted(s) == \A i, j \in DOMAIN s : i < j => s[i] < s[j]

\* The outer cache lists states in the order of their times, within its limits.
OuterSorted ==
  Ready => /\ Sorted([i \in DOMAIN Initial.items |-> Initial.items[i].t])
           /\ Initial.items[2].t = t_min
           /\ Initial.items[Len(Initial.items) - 1].t = t_max

Passed(z) == (ans.from < z /\ z <= ans.at) \/ (ans.at <= z /\ z < ans.from)

Heeded == (Answered("Integrate") \/ Answered("Find")) /\ ~ans.ignore

\* A call that heeds stops passes none, if it began with the current link of Stops
\* the first one after t_last.
NoMissedStop == Heeded /\ ans.sync => \A z \in Zeros : ~Passed(z)

\* A call that heeds stops passes none.
StopsHeeded == Heeded => \A z \in Zeros : ~Passed(z)

\* A stop condition is answered where it is met.
StopAtFirstZero ==
  ans # None /\ ans.status = "STOP_CONDITION" =>
    /\ ans.at \in Zeros
    /\ \A z \in Zeros : ~(ans.from < z /\ z < ans.at) /\ ~(ans.at < z /\ z < ans.from)

\* ODE_BUG, the status every loop starts from, is returned only by a call that
\* kept the ring and retraced to the last outer state: what it was asked for is
\* on the ring already, and the same call again is answered.
NoBug ==
  ans # None /\ ans.status = "ODE_BUG" =>
    /\ Covers(ans.op, ans.t) /\ ~Extends(ans.op, ans.t)
    /\ AtLastOuter(dir) /\ dir * G(0).t <= dir * ans.t

\* Every call returns, also when steps fail, stops repeat and the goal lies beyond
\* what F allows.
CallReturns == []<>IsIdle

=============================================================================
