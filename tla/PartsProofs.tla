----------------------------- MODULE PartsProofs -----------------------------
(***************************************************************************)
(* Theorems about the parts that share no state, for any bounds.           *)
(***************************************************************************)
EXTENDS MCParts, TrajectoryProofs, FiniteSetTheorems

---------------------------------------------------------------------------
(* Extremes.                                                               *)

LEMMA MinIsLeast ==
  ASSUME NEW S, S \subseteq Nat, S # {}
  PROVE  Min(S) \in S /\ \A n \in S : Min(S) <= n
<1>1. \E m \in S : \A n \in S : m <= n BY LeastNatural
<1>2. QED BY <1>1 DEF Min

LEMMA LaterAndEarlier ==
  ASSUME NEW a \in Nat, NEW b \in Nat
  PROVE  /\ Later(a, b) = IF a >= b THEN a ELSE b
         /\ Earlier(a, b) = IF a <= b THEN a ELSE b
<1>1. \E x \in {a, b} : \A y \in {a, b} : x >= y OBVIOUS
<1>2. \E x \in {a, b} : \A y \in {a, b} : x <= y OBVIOUS
<1>3. Later(a, b) \in {a, b} /\ Later(a, b) >= a /\ Later(a, b) >= b BY <1>1 DEF Later, Max
<1>4. Earlier(a, b) \in {a, b} /\ Earlier(a, b) <= a /\ Earlier(a, b) <= b
  BY <1>2 DEF Earlier, Min
<1>5. QED BY <1>3, <1>4

---------------------------------------------------------------------------
(* The frame scheduler.                                                    *)

FrameTyped ==
  /\ clock \in Nat /\ fireAt \in Nat /\ nextAllowed \in Nat
  /\ requests \in Seq(Nat) /\ left \in Seq(Nat) /\ owed \subseteq Nat
  /\ handles \in BOOLEAN /\ task \in {"waiting", "armed", "over"}

\* The gate is an interval behind the last frame, and an armed frame is not
\* before it.
GateHolds ==
  /\ nextAllowed = IF left = <<>> THEN 0 ELSE left[Len(left)] + Interval
  /\ task = "armed" => fireAt >= nextAllowed

Spaced == \A k \in 2..Len(left) : left[k] - left[k - 1] >= Interval \/ ~handles

\* A request that no frame answered has one at least as early in the channel,
\* or an armed frame in time for it.
Covered ==
  task # "over" =>
    \A at \in owed :
      \/ \E i \in 1..Len(requests) : requests[i] <= at
      \/ task = "armed" /\ (fireAt <= at \/ fireAt <= nextAllowed)

InTime(at) == clock <= at \/ clock <= nextAllowed

\* Neither those nor what is in the channel is late.
NoneLate ==
  task # "over" =>
    /\ \A at \in owed : InTime(at)
    /\ \A i \in 1..Len(requests) : InTime(requests[i])

FrameInv == FrameTyped /\ GateHolds /\ Spaced /\ Covered /\ NoneLate

LEMMA FrameInitHolds == FrameInit => FrameInv
  BY DEF FrameInit, FrameInv, FrameTyped, GateHolds, Spaced, Covered, NoneLate

LEMMA FrameInvSuffices == FrameInv => FramesKeepPace
<1> SUFFICES ASSUME FrameInv PROVE FramesKeepPace OBVIOUS
<1>1. \A at \in owed : Later(at, nextAllowed) = IF at >= nextAllowed THEN at ELSE nextAllowed
  BY LaterAndEarlier DEF FrameInv, FrameTyped
<1>2. nextAllowed = IF left = <<>> THEN 0 ELSE Last(left) + Interval
  BY DEF FrameInv, GateHolds, Last
<1>3. ASSUME task # "over", NEW at \in owed PROVE clock <= Later(at, nextAllowed)
  BY <1>1, <1>3 DEF FrameInv, FrameTyped, NoneLate, InTime
<1>4. QED BY <1>2, <1>3 DEF FramesKeepPace, FrameInv, Spaced

\* A request, from outside or from the pump: taken into the channel, or
\* covered by the earliest of those that fill it.
LEMMA RequestKeeps ==
  ASSUME FrameInv, NEW at \in Nat, at >= clock, Requested(at),
         UNCHANGED <<clock, handles, task, fireAt, nextAllowed, left>>
  PROVE  FrameInv'
<1>1. requests \in Seq(Nat) /\ Len(requests) \in Nat BY DEF FrameInv, FrameTyped
<1>2. CASE Room
  <2>1. /\ requests' = Append(requests, at) /\ owed' = owed \cup {at}
    BY <1>2 DEF Requested
  <2>2. /\ requests' \in Seq(Nat) /\ Len(requests') = Len(requests) + 1
        /\ \A i \in 1..Len(requests) : requests'[i] = requests[i]
        /\ requests'[Len(requests) + 1] = at
    BY <1>1, <2>1
  <2>3. FrameTyped' /\ GateHolds' /\ Spaced'
    BY <2>1, <2>2 DEF FrameInv, FrameTyped, GateHolds, Spaced
  <2>4. Covered'
    <3> SUFFICES ASSUME task # "over", NEW x \in owed'
                 PROVE  \/ \E i \in 1..Len(requests') : requests'[i] <= x
                        \/ task = "armed" /\ (fireAt <= x \/ fireAt <= nextAllowed)
      BY DEF Covered
    <3>1. CASE x = at BY <1>1, <2>2, <3>1
    <3>2. CASE x \in owed BY <1>1, <2>2, <3>2 DEF FrameInv, Covered
    <3>3. QED BY <2>1, <3>1, <3>2
  <2>5. NoneLate' BY <1>1, <2>1, <2>2 DEF FrameInv, FrameTyped, NoneLate, InTime
  <2>6. QED BY <2>3, <2>4, <2>5 DEF FrameInv
<1>3. CASE ~Room
  <2> DEFINE S == ToSet(requests)
  <2>1. requests' = requests /\ owed' = owed \cup {Min(S)} BY <1>3 DEF Requested
  <2>2. S = {requests[i] : i \in 1..Len(requests)} BY <1>1 DEF ToSet
  <2>3. Len(requests) > 0 BY <1>1, <1>3, FrameBounds DEF Room
  <2>4. S \subseteq Nat /\ S # {} BY <1>1, <2>2, <2>3
  <2>5. Min(S) \in S BY <2>4, MinIsLeast
  <2> HIDE DEF S
  <2>6. PICK m \in 1..Len(requests) : requests[m] = Min(S) BY <2>2, <2>5
  <2>7. FrameTyped' /\ GateHolds' /\ Spaced'
    BY <2>1, <2>4, <2>5 DEF FrameInv, FrameTyped, GateHolds, Spaced
  <2>8. Covered' BY <1>1, <2>1, <2>4, <2>5, <2>6 DEF FrameInv, Covered
  <2>9. NoneLate' BY <2>1, <2>6 DEF FrameInv, NoneLate, InTime
  <2>10. QED BY <2>7, <2>8, <2>9 DEF FrameInv
<1>4. QED BY <1>2, <1>3

LEMMA WakeKeeps ==
  ASSUME FrameInv, Wake
  PROVE  FrameInv'
<1> DEFINE C == {Clamp(at) : at \in ToSet(requests)}
<1>1. requests \in Seq(Nat) /\ Len(requests) \in Nat /\ Len(requests) > 0
  BY DEF Wake, FrameInv, FrameTyped
<1>2. /\ task' = "armed" /\ fireAt' = Min(C) /\ requests' = <<>>
      /\ UNCHANGED <<clock, handles, nextAllowed, owed, left>>
  BY DEF Wake
<1>3. ASSUME NEW i \in 1..Len(requests)
      PROVE  Clamp(requests[i]) = IF requests[i] >= nextAllowed THEN requests[i] ELSE nextAllowed
  BY <1>1, LaterAndEarlier DEF FrameInv, FrameTyped, Clamp
<1>4. C = {Clamp(requests[i]) : i \in 1..Len(requests)} BY <1>1 DEF ToSet
<1>5. C \subseteq Nat /\ C # {}
  <2>1. nextAllowed \in Nat /\ \A i \in 1..Len(requests) : requests[i] \in Nat
    BY <1>1 DEF FrameInv, FrameTyped
  <2>2. \A i \in 1..Len(requests) : Clamp(requests[i]) \in Nat BY <1>3, <2>1
  <2>3. 1 \in 1..Len(requests) BY <1>1
  <2>4. QED BY <1>4, <2>2, <2>3
<1>6. Min(C) \in C /\ \A n \in C : Min(C) <= n BY <1>5, MinIsLeast
<1> HIDE DEF C
<1>7. Min(C) \in Nat /\ Min(C) >= nextAllowed
  BY <1>1, <1>3, <1>4, <1>5, <1>6 DEF FrameInv, FrameTyped
<1>8. FrameTyped' /\ GateHolds' /\ Spaced'
  BY <1>2, <1>7 DEF FrameInv, FrameTyped, GateHolds, Spaced
<1>9. Covered'
  <2> SUFFICES ASSUME NEW at \in owed PROVE fireAt' <= at \/ fireAt' <= nextAllowed
    BY <1>2 DEF Covered
  <2>1. PICK i \in 1..Len(requests) : requests[i] <= at
    BY DEF Wake, FrameInv, Covered
  <2>2. Min(C) <= Clamp(requests[i]) BY <1>4, <1>6
  <2>3. QED BY <1>1, <1>2, <1>3, <1>7, <2>1, <2>2 DEF FrameInv, FrameTyped
<1>10. NoneLate' BY <1>2 DEF FrameInv, NoneLate, InTime, Wake
<1>11. QED BY <1>8, <1>9, <1>10 DEF FrameInv

LEMMA PullKeeps ==
  ASSUME FrameInv, Pull
  PROVE  FrameInv'
<1> DEFINE head == Head(requests)
<1>1. /\ requests \in Seq(Nat) /\ Len(requests) \in Nat /\ Len(requests) > 0
      /\ head = requests[1] /\ head \in Nat
  BY DEF Pull, FrameInv, FrameTyped
<1>2. /\ Tail(requests) \in Seq(Nat) /\ Len(Tail(requests)) = Len(requests) - 1
      /\ \A i \in 1..(Len(requests) - 1) : Tail(requests)[i] = requests[i + 1]
  BY <1>1
<1>3. /\ requests' = Tail(requests) /\ task = "armed"
      /\ fireAt' = Earlier(fireAt, Clamp(head))
      /\ UNCHANGED <<clock, handles, task, nextAllowed, owed, left>>
  BY DEF Pull, PulledTo, Waiting
<1>4. Clamp(head) = IF head >= nextAllowed THEN head ELSE nextAllowed
  BY <1>1, LaterAndEarlier DEF Clamp, FrameInv, FrameTyped
<1> HIDE DEF head
<1>5. fireAt' = IF fireAt <= Clamp(head) THEN fireAt ELSE Clamp(head)
  BY <1>1, <1>3, <1>4, LaterAndEarlier DEF FrameInv, FrameTyped
<1>6. FrameTyped' /\ GateHolds' /\ Spaced'
  BY <1>1, <1>2, <1>3, <1>4, <1>5 DEF FrameInv, FrameTyped, GateHolds, Spaced
<1>7. Covered'
  <2> SUFFICES ASSUME NEW at \in owed
               PROVE  \/ \E i \in 1..Len(requests') : requests'[i] <= at
                      \/ fireAt' <= at \/ fireAt' <= nextAllowed
    BY <1>3 DEF Covered
  <2>1. at \in Nat /\ fireAt \in Nat /\ nextAllowed \in Nat BY DEF FrameInv, FrameTyped
  <2>2. CASE fireAt <= at \/ fireAt <= nextAllowed BY <1>1, <1>4, <1>5, <2>1, <2>2
  <2>3. CASE head <= at BY <1>1, <1>4, <1>5, <2>1, <2>3
  <2>4. CASE \E i \in 2..Len(requests) : requests[i] <= at
    <3>1. PICK i \in 2..Len(requests) : requests[i] <= at BY <2>4
    <3>2. i - 1 \in 1..Len(requests') /\ requests'[i - 1] = requests[i] BY <1>1, <1>2, <1>3
    <3>3. QED BY <3>1, <3>2
  <2>5. QED BY <1>1, <1>3, <2>2, <2>3, <2>4 DEF FrameInv, Covered
<1>8. NoneLate' BY <1>1, <1>2, <1>3 DEF FrameInv, NoneLate, InTime
<1>9. QED BY <1>6, <1>7, <1>8 DEF FrameInv

\* A frame leaves: an interval after the last one, or as the last handle goes.
LEMMA FireKeeps ==
  ASSUME FrameInv, Fire
  PROVE  FrameInv'
<1>1. CASE ~receiving
  BY <1>1 DEF Fire, FrameInv, FrameTyped, GateHolds, Spaced, Covered, NoneLate
<1>2. CASE receiving
  <2>1. /\ task' = "waiting" /\ nextAllowed' = clock + Interval
        /\ left' = Append(left, clock) /\ owed' = {at \in owed : at \in ToSet(requests)}
        /\ UNCHANGED <<clock, requests, handles, fireAt>>
        /\ task = "armed" /\ (fireAt <= clock \/ ~handles)
    BY <1>2 DEF Fire, Due, BrokenOffWait, Waiting
  <2>2. /\ clock \in Nat /\ left \in Seq(Nat) /\ Len(left) \in Nat
        /\ Interval \in Nat /\ requests \in Seq(Nat) /\ Len(requests) \in Nat
    BY FrameBounds DEF FrameInv, FrameTyped
  <2>3. /\ left' \in Seq(Nat) /\ Len(left') = Len(left) + 1
        /\ \A k \in 1..Len(left) : left'[k] = left[k]
        /\ left'[Len(left) + 1] = clock
    BY <2>1, <2>2
  <2>4. FrameTyped'
    <3>0. owed' \subseteq owed BY <2>1
    <3>1. clock + Interval \in Nat /\ owed' \subseteq Nat
      BY <2>2, <3>0 DEF FrameInv, FrameTyped
    <3>2. QED BY <2>1, <2>2, <2>3, <3>1 DEF FrameInv, FrameTyped
  <2>5. GateHolds'
    <3>1. left' # <<>> BY <2>2, <2>3
    <3>2. QED BY <2>1, <2>3, <3>1 DEF GateHolds
  <2>6. Spaced'
    <3> SUFFICES ASSUME NEW k \in 2..(Len(left) + 1)
                 PROVE  left'[k] - left'[k - 1] >= Interval \/ ~handles
      BY <2>1, <2>3 DEF Spaced
    <3>1. CASE k \in 2..Len(left)
      <4>a. k \in 1..Len(left) /\ k - 1 \in 1..Len(left) BY <2>2, <3>1
      <4>1. left'[k] = left[k] /\ left'[k - 1] = left[k - 1] BY <2>3, <4>a
      <4>2. QED BY <3>1, <4>1 DEF FrameInv, Spaced
    <3>2. CASE k = Len(left) + 1
      <4>1. left # <<>> /\ Len(left) \in 1..Len(left) BY <2>2, <3>2
      <4>2. left'[k] = clock /\ left'[k - 1] = left[Len(left)] BY <2>2, <2>3, <3>2, <4>1
      <4>3. ~handles \/ clock >= left[Len(left)] + Interval
        BY <2>1, <4>1 DEF FrameInv, GateHolds, FrameTyped
      <4>4. left[Len(left)] \in Nat BY <2>2, <4>1
      <4>5. QED BY <2>2, <4>2, <4>3, <4>4
    <3>3. QED BY <2>2, <3>1, <3>2
  <2>7. Covered'
    <3>1. \A at \in owed' : \E i \in 1..Len(requests) : requests[i] = at
      BY <2>1, <2>2 DEF ToSet
    <3>2. requests' = requests /\ task' = "waiting" BY <2>1
    <3>3. ASSUME NEW at \in owed' PROVE \E i \in 1..Len(requests') : requests'[i] <= at
      <4>1. PICK i \in 1..Len(requests) : requests[i] = at BY <3>1
      <4>2. requests[i] \in Nat BY <2>2
      <4>3. QED BY <3>2, <4>1, <4>2
    <3>4. QED BY <3>3 DEF Covered
  <2>8. NoneLate' BY <2>1, <2>2 DEF NoneLate, InTime
  <2>9. QED BY <2>4, <2>5, <2>6, <2>7, <2>8 DEF FrameInv
<1>3. QED BY <1>1, <1>2

LEMMA TimePassesKeeps ==
  ASSUME FrameInv, TimePasses
  PROVE  FrameInv'
<1>1. /\ clock' = clock + 1
      /\ UNCHANGED <<requests, handles, task, fireAt, nextAllowed, owed, left>>
  BY DEF TimePasses
<1>2. FrameTyped' /\ GateHolds' /\ Spaced' /\ Covered'
  BY <1>1 DEF FrameInv, FrameTyped, GateHolds, Spaced, Covered
<1>3. NoneLate'
  <2> SUFFICES ASSUME task # "over" PROVE NoneLate' BY <1>1 DEF NoneLate
  <2>1. requests = <<>> /\ (task = "waiting" \/ (task = "armed" /\ fireAt > clock))
    BY DEF TimePasses, SchedulerRests, Waiting
  <2>2. ASSUME NEW at \in owed PROVE task = "armed" /\ (fireAt <= at \/ fireAt <= nextAllowed)
    BY <2>1 DEF FrameInv, Covered
  <2>3. ASSUME NEW at \in owed PROVE clock + 1 <= at \/ clock + 1 <= nextAllowed
    BY <2>1, <2>2 DEF FrameInv, FrameTyped
  <2>4. QED BY <1>1, <2>1, <2>3 DEF NoneLate, InTime
<1>4. QED BY <1>2, <1>3 DEF FrameInv

LEMMA FrameStepKeeps ==
  ASSUME FrameInv, [FrameNext]_frameVars
  PROVE  FrameInv'
<1>1. CASE UNCHANGED <<clock, requests, handles, task, fireAt, nextAllowed, owed, left>>
  BY <1>1 DEF FrameInv, FrameTyped, GateHolds, Spaced, Covered, NoneLate, InTime
<1>2. CASE ScheduleFrame
  <2>1. PICK ahead \in Horizons : Requested(clock + ahead) BY <1>2 DEF ScheduleFrame
  <2>2. clock + ahead \in Nat /\ clock + ahead >= clock
    BY FrameBounds DEF FrameInv, FrameTyped
  <2>3. QED BY <1>2, <2>1, <2>2, RequestKeeps DEF ScheduleFrame
<1>3. CASE Pump
  <2>1. CASE UNCHANGED <<requests, owed>> BY <1>1, <1>3, <2>1 DEF Pump
  <2>2. CASE Requested(clock + Animation)
    <3>1. clock + Animation \in Nat /\ clock + Animation >= clock
      BY FrameBounds DEF FrameInv, FrameTyped
    <3>2. QED BY <1>3, <2>2, <3>1, RequestKeeps DEF Pump
  <2>3. QED BY <1>3, <2>1, <2>2 DEF Pump
<1>4. CASE SchedulerEnds
  BY <1>4 DEF SchedulerEnds, FrameInv, FrameTyped, GateHolds, Spaced, Covered, NoneLate
<1>5. CASE Leave
  <2>1. /\ handles' \in BOOLEAN /\ (~handles => ~handles')
        /\ UNCHANGED <<clock, requests, task, fireAt, nextAllowed, owed, left>>
    <3>1. handles \in BOOLEAN BY DEF FrameInv, FrameTyped
    <3>2. handles' = FALSE \/ handles' = handles BY <1>5 DEF Leave
    <3>3. UNCHANGED <<clock, requests, task, fireAt, nextAllowed, owed, left>>
      BY <1>5 DEF Leave
    <3>4. handles' \in BOOLEAN BY <3>1, <3>2
    <3>5. ~handles => ~handles' BY <3>1, <3>2
    <3>6. QED BY <3>3, <3>4, <3>5
  <2>2. FrameTyped' /\ GateHolds' BY <2>1 DEF FrameInv, FrameTyped, GateHolds
  <2>3. Spaced' BY <2>1 DEF FrameInv, Spaced
  <2>4. Covered' /\ NoneLate' BY <2>1 DEF FrameInv, Covered, NoneLate, InTime
  <2>5. QED BY <2>2, <2>3, <2>4 DEF FrameInv
<1>6. CASE UNCHANGED frameVars BY <1>1, <1>6 DEF frameVars
<1>7. QED
  BY <1>2, <1>3, <1>4, <1>5, <1>6, WakeKeeps, PullKeeps, FireKeeps, TimePassesKeeps
  DEF FrameNext

(* Frames are an interval apart but for the one the last handle sends off, *)
(* and no request waits beyond the later of its instant and the gate, for  *)
(* any interval, channel depth, horizons and number of requests            *)
(* (frame.rs 41-150).                                                      *)
THEOREM FramesStayOnTime == PartsSpec => []FramesAreOnTime
<1> DEFINE Inv == part = "frames" => FrameInv
<1>1. PartsInit => Inv BY FrameInitHolds DEF PartsInit
<1>2. Inv /\ [PartsNext]_partsVars => Inv'
  <2> SUFFICES ASSUME Inv, [PartsNext]_partsVars, part' = "frames" PROVE FrameInv' OBVIOUS
  <2>1. part = "frames" /\ [FrameNext]_frameVars BY DEF PartsNext, partsVars
  <2>2. QED BY <2>1, FrameStepKeeps
<1>3. Inv => FramesAreOnTime BY FrameInvSuffices DEF FramesAreOnTime
<1>4. QED BY <1>1, <1>2, <1>3, PTL DEF PartsSpec

---------------------------------------------------------------------------
(* The status block.                                                       *)

Executed(s) == s.outcome.kind \in {"ok", "error", "torn"}
RunsOf(n, t) == {i \in 1..n : settled[i].call.tool = t /\ Executed(settled[i])}
PlansIn(n) == {i \in 1..n : settled[i].call.tool = "todo_write" /\ settled[i].outcome.kind = "ok"}

\* A status that tells what the first n calls came to.
TellsOf(s, n) ==
  /\ \A t \in Tools : CountOf(s, t) = Cardinality(RunsOf(n, t))
  /\ DOMAIN s.counts \subseteq Tools
  /\ s.todos = IF PlansIn(n) = {} THEN <<>> ELSE settled[Max(PlansIn(n))].call.items

StatusInv ==
  /\ IsSequence(settled) /\ trailer.of \in 0..Len(settled)
  /\ TellsOf(status, Len(settled)) /\ TellsOf(trailer.status, trailer.of)

LEMMA MaxIsGreatest ==
  ASSUME NEW S, NEW m \in S, S \subseteq Int, \A n \in S : n <= m
  PROVE  Max(S) = m
<1> DEFINE x == Max(S)
<1>1. x \in S /\ \A n \in S : x >= n
  <2>1. \E y \in S : \A n \in S : y >= n
    <3>1. \A n \in S : m >= n OBVIOUS
    <3>2. QED BY <3>1
  <2>2. QED BY <2>1 DEF Max
<1> HIDE DEF x
<1>2. x \in Int /\ m \in Int /\ x <= m /\ x >= m BY <1>1
<1>3. x = m BY <1>2
<1>4. QED BY <1>3 DEF x

LEMMA GreatestIsOne ==
  ASSUME NEW n \in Nat, NEW S, S \subseteq 1..n, S # {}
  PROVE  Max(S) \in S /\ \A i \in S : i <= Max(S)
<1> DEFINE D == {n - i : i \in S}
<1>1. D \subseteq Nat /\ D # {} OBVIOUS
<1>2. PICK d \in D : \A x \in D : d <= x BY <1>1, LeastNatural
<1>3. PICK m \in S : d = n - m BY <1>2
<1>4. \A i \in S : n - m <= n - i BY <1>2, <1>3
<1>5. S \subseteq Int /\ \A i \in S : i <= m
  <2>1. ASSUME NEW i \in S PROVE i \in Int /\ i <= m
    <3>1. i \in 1..n /\ m \in 1..n /\ n - m <= n - i BY <1>4
    <3>2. QED BY <3>1
  <2>2. QED BY <2>1
<1>6. QED BY <1>3, <1>5, MaxIsGreatest

LEMMA StatusInitHolds == Fresh => StatusInv
<1> SUFFICES ASSUME Fresh PROVE StatusInv OBVIOUS
<1>1. /\ settled = <<>> /\ status = NoStatus /\ trailer.of = 0 /\ trailer.status = NoStatus
  BY DEF Fresh
<1>2. IsSequence(settled) /\ Len(settled) = 0 BY <1>1 DEF IsSequence
<1>3. \A t : RunsOf(0, t) = {} BY DEF RunsOf
<1>4. PlansIn(0) = {} BY DEF PlansIn
<1>5. DOMAIN NoStatus.counts = {} /\ NoStatus.todos = <<>> BY DEF NoStatus
<1>6. TellsOf(NoStatus, 0) BY <1>3, <1>4, <1>5, FS_EmptySet DEF TellsOf, CountOf
<1>7. QED BY <1>1, <1>2, <1>6 DEF StatusInv

LEMMA RunsAreFinite ==
  ASSUME NEW n \in Nat, NEW t
  PROVE  IsFiniteSet(RunsOf(n, t)) /\ n + 1 \notin RunsOf(n, t)
<1>1. IsFiniteSet(1..n) BY FS_Interval
<1>2. RunsOf(n, t) \subseteq 1..n BY DEF RunsOf
<1>3. QED BY <1>1, <1>2, FS_Subset

\* One more settled call: the count of its tool goes up when it was executed,
\* and the list is its own when it put one through.
LEMMA NoteTells ==
  ASSUME NEW n \in Nat, NEW s, NEW call, NEW outcome,
         TellsOf(s, n), call.tool \in Tools \/ ~Executed([call |-> call, outcome |-> outcome]),
         outcome.kind \in {"ok", "error", "torn", "rejected", "unknown_tool"},
         \A i \in 1..n : settled'[i] = settled[i],
         settled'[n + 1] = [call |-> call, outcome |-> outcome]
  PROVE  /\ \A t \in Tools : CountOf(NoteOutcome(s, call, outcome), t) = Cardinality(RunsOf(n + 1, t)')
         /\ DOMAIN NoteOutcome(s, call, outcome).counts \subseteq Tools
         /\ NoteOutcome(s, call, outcome).todos
              = IF PlansIn(n + 1)' = {} THEN <<>> ELSE settled'[Max(PlansIn(n + 1)')].call.items
<1> DEFINE next == NoteOutcome(s, call, outcome)
           counted == outcome.kind \in {"ok", "error", "torn"}
           put == outcome.kind = "ok" /\ call.tool = "todo_write"
<1>1. /\ next.counts = IF counted THEN Counted(s, call.tool) ELSE s.counts
      /\ next.todos = IF put THEN call.items ELSE s.todos
  BY DEF NoteOutcome
<1>2. counted => call.tool \in Tools BY DEF Executed
<1>3. /\ \A t \in Tools : CountOf(next, t) = IF counted /\ t = call.tool THEN CountOf(s, t) + 1 ELSE CountOf(s, t)
      /\ DOMAIN next.counts \subseteq Tools
  <2>1. CASE counted
    <3>1. /\ DOMAIN next.counts = DOMAIN s.counts \cup {call.tool}
          /\ \A t \in DOMAIN next.counts :
               next.counts[t] = CountOf(s, t) + IF t = call.tool THEN 1 ELSE 0
      BY <1>1, <2>1 DEF Counted
    <3>2. \A t \in Tools : CountOf(s, t) + 0 = CountOf(s, t)
      <4>1. \A t \in Tools : CountOf(s, t) = Cardinality(RunsOf(n, t)) BY DEF TellsOf
      <4>2. \A t \in Tools : Cardinality(RunsOf(n, t)) \in Nat BY RunsAreFinite, FS_CardinalityType
      <4>3. QED BY <4>1, <4>2
    <3> HIDE DEF next
    <3>3. QED BY <1>2, <2>1, <3>1, <3>2 DEF CountOf, TellsOf
  <2>2. CASE ~counted
    <3>1. next.counts = s.counts BY <1>1, <2>2
    <3> HIDE DEF next
    <3>2. QED BY <2>2, <3>1 DEF CountOf, TellsOf
  <2>3. QED BY <2>1, <2>2
<1> HIDE DEF next
<1>4. ASSUME NEW t
      PROVE  RunsOf(n + 1, t)' = IF counted /\ t = call.tool THEN RunsOf(n, t) \cup {n + 1} ELSE RunsOf(n, t)
  <2>1. \A i \in 1..(n + 1) : i \in 1..n \/ i = n + 1 OBVIOUS
  <2>2. 1..n \subseteq 1..(n + 1) /\ n + 1 \in 1..(n + 1) /\ n + 1 \notin 1..n OBVIOUS
  <2>3. \A i : i \in RunsOf(n + 1, t)' <=>
          IF i = n + 1 THEN counted /\ t = call.tool ELSE i \in RunsOf(n, t)
    BY <2>1, <2>2 DEF RunsOf, Executed
  <2>4. n + 1 \notin RunsOf(n, t) BY <2>2 DEF RunsOf
  <2>5. QED BY <2>3, <2>4
<1>5. \A t \in Tools : CountOf(next, t) = Cardinality(RunsOf(n + 1, t)')
  <2> SUFFICES ASSUME NEW t \in Tools PROVE CountOf(next, t) = Cardinality(RunsOf(n + 1, t)') OBVIOUS
  <2>1. IsFiniteSet(RunsOf(n, t)) /\ n + 1 \notin RunsOf(n, t) BY RunsAreFinite
  <2>2. Cardinality(RunsOf(n, t) \cup {n + 1}) = Cardinality(RunsOf(n, t)) + 1
    BY <2>1, FS_AddElement
  <2>3. CountOf(s, t) = Cardinality(RunsOf(n, t)) BY DEF TellsOf
  <2>4. QED BY <1>3, <1>4, <2>2, <2>3
<1>6. /\ put => Max(PlansIn(n + 1)') = n + 1 /\ n + 1 \in PlansIn(n + 1)'
      /\ ~put => PlansIn(n + 1)' = PlansIn(n)
  <2>1. \A i \in 1..(n + 1) : i \in 1..n \/ i = n + 1 OBVIOUS
  <2>2. 1..n \subseteq 1..(n + 1) /\ n + 1 \in 1..(n + 1) /\ n + 1 \notin 1..n OBVIOUS
  <2>3. \A i : i \in PlansIn(n + 1)' <=> IF i = n + 1 THEN put ELSE i \in PlansIn(n)
    BY <2>1, <2>2 DEF PlansIn
  <2>4. PlansIn(n + 1)' \subseteq 1..(n + 1) BY DEF PlansIn
  <2>5. n + 1 \notin PlansIn(n) BY <2>2 DEF PlansIn
  <2>6. ASSUME put PROVE Max(PlansIn(n + 1)') = n + 1 /\ n + 1 \in PlansIn(n + 1)'
    <3>1. n + 1 \in PlansIn(n + 1)' BY <2>3, <2>6
    <3>2. PlansIn(n + 1)' \subseteq Int /\ \A i \in PlansIn(n + 1)' : i <= n + 1 BY <2>4
    <3>3. Max(PlansIn(n + 1)') = n + 1 BY <3>1, <3>2, MaxIsGreatest
    <3>4. QED BY <3>1, <3>3
  <2>7. ASSUME ~put PROVE PlansIn(n + 1)' = PlansIn(n) BY <2>3, <2>5, <2>7
  <2>8. QED BY <2>6, <2>7
<1>7. next.todos = IF PlansIn(n + 1)' = {} THEN <<>> ELSE settled'[Max(PlansIn(n + 1)')].call.items
  <2>1. CASE put BY <1>1, <1>6, <2>1 DEF next
  <2>2. CASE ~put
    <3>1. next.todos = s.todos BY <1>1, <2>2 DEF next
    <3>2. PlansIn(n) # {} => Max(PlansIn(n)) \in 1..n
      <4>1. SUFFICES ASSUME PlansIn(n) # {} PROVE Max(PlansIn(n)) \in PlansIn(n) BY DEF PlansIn
      <4>2. PlansIn(n) \subseteq 1..n BY DEF PlansIn
      <4>3. QED BY <4>1, <4>2, GreatestIsOne
    <3>3. QED BY <1>6, <2>2, <3>1, <3>2 DEF TellsOf
  <2>3. QED BY <2>1, <2>2
<1>8. QED BY <1>3, <1>5, <1>7 DEF next

\* Whatever a tool does to the workspace, it settles its call as executed.
LEMMA ExecuteSettles ==
  ASSUME NEW call, Execute(call)
  PROVE  call.tool \in Tools /\ \E outcome : outcome.kind \in {"ok", "error", "torn"} /\ Settle(call, outcome)
<1> DEFINE P == \E outcome : outcome.kind \in {"ok", "error", "torn"} /\ Settle(call, outcome)
<1>1. ASSUME NEW outcome, outcome.kind \in {"ok", "error", "torn"}, Settle(call, outcome) PROVE P
  BY <1>1
<1> HIDE DEF P
<1>2. Failed.kind = "error" BY DEF Failed
<1>3. NotRead(call) => P BY <1>1, <1>2 DEF NotRead
<1>4. ASSUME NEW path, NEW text, NEW learnt, WriteText(call, path, text, learnt) PROVE P
  <2>1. Settle(call, [kind |-> "ok"]) \/ Settle(call, [kind |-> "torn"]) BY <1>4 DEF WriteText
  <2>2. QED BY <1>1, <2>1
<1>5. ReadFile(call) => P /\ call.tool = "read_file"
  <2>1. ReadFile(call) => (Settle(call, [kind |-> "ok"]) \/ NotRead(call)) /\ call.tool = "read_file"
    BY DEF ReadFile
  <2>2. QED BY <1>1, <1>3, <2>1
<1>6. EditFile(call) => P /\ call.tool = "edit_file" BY <1>3, <1>4 DEF EditFile
<1>7. WriteFile(call) => P /\ call.tool = "write_file" BY <1>3, <1>4 DEF WriteFile
<1>8. GrepFiles(call) => P /\ call.tool = "grep" BY <1>1, <1>3 DEF GrepFiles
<1>9. ListDirectory(call) => P /\ call.tool = "list_dir" BY <1>1, <1>3 DEF ListDirectory
<1>10. TodoWrite(call) => P /\ call.tool = "todo_write"
  <2> SUFFICES ASSUME TodoWrite(call) PROVE P /\ call.tool = "todo_write" OBVIOUS
  <2>1. PICK kind \in {"error", "ok"} : Settle(call, [kind |-> kind]) BY DEF TodoWrite
  <2>2. PICK outcome : outcome = [kind |-> kind] OBVIOUS
  <2>3. outcome.kind \in {"ok", "error", "torn"} BY <2>2
  <2>4. P BY <1>1, <2>1, <2>2, <2>3
  <2>5. QED BY <2>4 DEF TodoWrite
<1>11. Skill(call) => P /\ call.tool = "skill" BY <1>1, <1>2 DEF Skill
<1>12. QED BY <1>5, <1>6, <1>7, <1>8, <1>9, <1>10, <1>11 DEF Execute, Tools, P

LEMMA SettleKeepsStatus ==
  ASSUME StatusInv, NEW call, NEW outcome, Settle(call, outcome),
         call.tool \in Tools \/ ~Executed([call |-> call, outcome |-> outcome]),
         outcome.kind \in {"ok", "error", "torn", "rejected", "unknown_tool"}
  PROVE  StatusInv'
<1>0. PICK n : n = Len(settled) OBVIOUS
<1>1. /\ settled' = Append(settled, [call |-> call, outcome |-> outcome])
      /\ status' = NoteOutcome(status, call, outcome) /\ trailer' = trailer
  BY DEF Settle
<1>2. IsSequence(settled) /\ trailer.of \in 0..n BY <1>0 DEF StatusInv
<1>3. /\ IsSequence(settled') /\ n \in Nat /\ Len(settled') = n + 1
      /\ \A i \in 1..n : settled'[i] = settled[i]
      /\ settled'[n + 1] = [call |-> call, outcome |-> outcome]
  BY <1>0, <1>1, <1>2, AppendIsSequence
<1>4. TellsOf(status, n) BY <1>0 DEF StatusInv
<1>5. TellsOf(status, n + 1)'
  <2>1. /\ \A t \in Tools : CountOf(NoteOutcome(status, call, outcome), t) = Cardinality(RunsOf(n + 1, t)')
        /\ DOMAIN NoteOutcome(status, call, outcome).counts \subseteq Tools
        /\ NoteOutcome(status, call, outcome).todos
             = IF PlansIn(n + 1)' = {} THEN <<>> ELSE settled'[Max(PlansIn(n + 1)')].call.items
    BY <1>3, <1>4, NoteTells
  <2>2. status' = NoteOutcome(status, call, outcome) BY <1>1
  <2>3. \A t \in Tools : CountOf(status', t) = Cardinality(RunsOf(n + 1, t)') BY <2>1, <2>2
  <2>4. QED BY <2>1, <2>2, <2>3 DEF TellsOf
<1>6. TellsOf(trailer.status, trailer.of)'
  <2>1. trailer.of \in Nat /\ \A i \in 1..trailer.of : settled'[i] = settled[i] BY <1>2, <1>3
  <2>2. TellsOf(trailer.status, trailer.of) BY DEF StatusInv
  <2>3. /\ \A t : RunsOf(trailer.of, t)' = RunsOf(trailer.of, t)
        /\ PlansIn(trailer.of)' = PlansIn(trailer.of)
    BY <1>1, <2>1 DEF RunsOf, PlansIn
  <2>4. PlansIn(trailer.of) # {} => settled'[Max(PlansIn(trailer.of))] = settled[Max(PlansIn(trailer.of))]
    <3>1. PlansIn(trailer.of) \subseteq 1..trailer.of BY DEF PlansIn
    <3>2. QED BY <2>1, <3>1, GreatestIsOne
  <2>5. QED BY <1>1, <2>2, <2>3, <2>4 DEF TellsOf
<1>7. trailer'.of \in 0..(n + 1) BY <1>1, <1>2, <1>3
<1>8. QED BY <1>3, <1>5, <1>6, <1>7 DEF StatusInv

LEMMA StatusStepKeeps ==
  ASSUME StatusInv, [WorkspaceNext]_workspaceVars
  PROVE  StatusInv'
<1>1. CASE UNCHANGED <<settled, status, trailer>>
  BY <1>1 DEF StatusInv, TellsOf, RunsOf, PlansIn
<1>2. ASSUME NEW them, StartBatch(them) PROVE StatusInv' BY <1>1, <1>2 DEF StartBatch
<1>3. CASE RunCall
  <2>1. PICK call : call = Head(batch) OBVIOUS
  <2>2. Execute(call) BY <1>3, <2>1 DEF RunCall
  <2>3. PICK outcome : outcome.kind \in {"ok", "error", "torn"} /\ Settle(call, outcome)
    BY <2>2, ExecuteSettles
  <2>4. call.tool \in Tools BY <2>2, ExecuteSettles
  <2>5. QED BY <2>3, <2>4, SettleKeepsStatus
<1>4. CASE RefuseCall
  <2>1. PICK call : call = Head(batch) OBVIOUS
  <2>2. Settle(call, [kind |-> "rejected"]) \/ Settle(call, [kind |-> "unknown_tool"])
    BY <1>4, <2>1 DEF RefuseCall
  <2>3. ASSUME NEW kind \in {"rejected", "unknown_tool"}, Settle(call, [kind |-> kind])
        PROVE  StatusInv'
    <3>1. PICK outcome : outcome = [kind |-> kind] OBVIOUS
    <3>2. outcome.kind \in {"rejected", "unknown_tool"} BY <3>1
    <3>3. ~Executed([call |-> call, outcome |-> outcome]) BY <3>2 DEF Executed
    <3>4. Settle(call, outcome) BY <2>3, <3>1
    <3>5. QED BY <3>2, <3>3, <3>4, SettleKeepsStatus
  <2>4. QED BY <2>2, <2>3
<1>5. CASE EndBatch
  <2>1. PICK n : n = Len(settled) OBVIOUS
  <2>2. /\ UNCHANGED <<settled, status>>
        /\ trailer'.status = status /\ trailer'.of = n
    BY <1>5, <2>1 DEF EndBatch
  <2>3. n \in 0..Len(settled) BY <2>1 DEF StatusInv, IsSequence
  <2>4. TellsOf(status, n) BY <2>1 DEF StatusInv
  <2>5. TellsOf(status, n)' BY <2>2, <2>4 DEF TellsOf, RunsOf, PlansIn
  <2>6. TellsOf(trailer.status, n)' BY <2>2, <2>5 DEF TellsOf
  <2>7. QED BY <2>1, <2>2, <2>3, <2>5, <2>6 DEF StatusInv
<1>6. ASSUME NEW path, NEW text, OtherWrites(path, text) PROVE StatusInv' BY <1>1, <1>6 DEF OtherWrites
<1>7. ASSUME NEW call, AskRules(call) PROVE StatusInv' BY <1>1, <1>7 DEF AskRules
<1>8. CASE UNCHANGED workspaceVars BY <1>1, <1>8 DEF workspaceVars
<1>9. QED BY <1>2, <1>3, <1>4, <1>5, <1>6, <1>7, <1>8 DEF WorkspaceNext

(* The status block counts the calls that were executed before it and      *)
(* holds the last list put through, whatever tools ran, failed, tore a     *)
(* file, were refused or did not exist, for any calls, bounds and disk     *)
(* (trailer.rs note_outcome).                                              *)
THEOREM StatusStaysCurrent == PartsSpec => []StatusIsCurrent
<1> DEFINE Inv == part = "tools" => StatusInv
<1>1. PartsInit => Inv BY StatusInitHolds DEF PartsInit
<1>2. Inv /\ [PartsNext]_partsVars => Inv'
  <2> SUFFICES ASSUME Inv, [PartsNext]_partsVars, part' = "tools" PROVE StatusInv' OBVIOUS
  <2>1. part = "tools" /\ [WorkspaceNext]_workspaceVars BY DEF PartsNext, partsVars
  <2>2. QED BY <2>1, StatusStepKeeps
<1>3. Inv => StatusIsCurrent
  BY DEF StatusIsCurrent, StatusFollowsResults, StatusInv, TellsOf, RunsOf, PlansIn, Executed
<1>4. QED BY <1>1, <1>2, <1>3, PTL DEF PartsSpec

---------------------------------------------------------------------------
(* The settings.                                                           *)

All(t) == CandidatesOf(machine, t)
There(t) == {k \in 1..Len(All(t)) : Found(machine, All(t)[k]) # "missing"}

\* What is left to try of a tier is a tail of its files, those before it
\* being missing.
ReadingOn ==
  tier <= 3 =>
    \E k \in 1..(Len(All(tier)) + 1) :
      /\ IsSequence(candidates) /\ Len(candidates) = Len(All(tier)) + 1 - k
      /\ \A i \in 1..Len(candidates) : candidates[i] = All(tier)[k + i - 1]
      /\ \A i \in 1..(k - 1) : i \notin There(tier)

\* The tiers read so far have spoken, and the layer is what the highest of
\* those with an opinion said.
Heard ==
  /\ \A t \in 1..3 : t < tier => \A path \in Speakers(t) : Found(machine, path) \in Motions \cup {"silent"}
  /\ (\A t \in Opinions : t >= tier) => layer = "unset"
  /\ \A t \in Opinions :
       (t < tier /\ \A u \in Opinions : u < tier => u <= t) =>
         \E path \in Speakers(t) : layer = Found(machine, path)

SettingsInv ==
  /\ ListsCandidates(machine) /\ tier \in 1..4 /\ loaded \in {"reading", "failed", "ready"}
  /\ ReadingOn /\ (tier = 4 => candidates = <<>>) /\ Heard
  /\ loaded = "failed" => culprit \in UNION {Speakers(t) : t \in 1..3} /\ ~Usable(culprit)
  /\ loaded = "ready" => tier = 4 /\ motion = Resolved(machine.term)

\* The nearest file there is speaks for its tier.
LEMMA NearestSpeaks ==
  ASSUME ListsCandidates(machine), NEW t \in 1..3, NEW k \in 1..Len(All(t)),
         k \in There(t), \A i \in 1..(k - 1) : i \notin There(t)
  PROVE  Speakers(t) = {All(t)[k]}
<1>1. IsSequence(All(t)) BY DEF ListsCandidates, All, IsSequence
<1>2. Len(All(t)) \in Nat /\ DOMAIN All(t) = 1..Len(All(t)) BY <1>1 DEF IsSequence
<1>3. There(t) = {i \in DOMAIN CandidatesOf(machine, t) : Found(machine, CandidatesOf(machine, t)[i]) # "missing"}
  BY <1>2 DEF There, All
<1>4. There(t) \subseteq Nat /\ There(t) # {} BY <1>2 DEF There
<1>5. Min(There(t)) \in There(t) /\ \A i \in There(t) : Min(There(t)) <= i BY <1>4, MinIsLeast
<1>6. Min(There(t)) = k
  <2>1. PICK m : m = Min(There(t)) OBVIOUS
  <2>2. m \in 1..Len(All(t)) /\ m \in There(t) BY <1>5, <2>1 DEF There
  <2>3. m <= k BY <1>5, <2>1
  <2>4. m \notin 1..(k - 1) BY <2>2
  <2>5. m = k BY <1>2, <2>2, <2>3, <2>4
  <2>6. QED BY <2>1, <2>5
<1>7. QED BY <1>3, <1>4, <1>6 DEF Speakers, All

LEMMA NobodySpeaks ==
  ASSUME ListsCandidates(machine), NEW t \in 1..3, There(t) = {}
  PROVE  Speakers(t) = {}
<1>1. IsSequence(All(t)) BY DEF ListsCandidates, All, IsSequence
<1>2. DOMAIN All(t) = 1..Len(All(t)) BY <1>1 DEF IsSequence
<1>3. There(t) = {i \in DOMAIN CandidatesOf(machine, t) : Found(machine, CandidatesOf(machine, t)[i]) # "missing"}
  BY <1>2 DEF There, All
<1>4. QED BY <1>3 DEF Speakers

\* Where the reader stands when a file is there.
LEMMA FirstThereSpeaks ==
  ASSUME SettingsInv, tier <= 3, candidates # <<>>, Found(machine, Head(candidates)) # "missing"
  PROVE  Speakers(tier) = {Head(candidates)}
<1>1. PICK k \in 1..(Len(All(tier)) + 1) :
        /\ IsSequence(candidates) /\ Len(candidates) = Len(All(tier)) + 1 - k
        /\ \A i \in 1..Len(candidates) : candidates[i] = All(tier)[k + i - 1]
        /\ \A i \in 1..(k - 1) : i \notin There(tier)
  BY DEF SettingsInv, ReadingOn
<1>2. tier \in 1..3 /\ ListsCandidates(machine) BY DEF SettingsInv
<1>3. Len(All(tier)) \in Nat BY <1>2 DEF ListsCandidates, All
<1>4. Head(candidates) = candidates[1] /\ Len(candidates) > 0 BY <1>1, TailIsSequence
<1>5. k \in 1..Len(All(tier)) /\ Head(candidates) = All(tier)[k]
  <2>1. 1 \in 1..Len(candidates) /\ k \in Nat /\ k <= Len(All(tier)) BY <1>1, <1>3, <1>4
  <2>2. k + 1 - 1 = k BY <2>1
  <2>3. QED BY <1>1, <1>3, <1>4, <2>1, <2>2
<1>6. k \in There(tier) BY <1>5 DEF There
<1>7. QED BY <1>1, <1>2, <1>5, <1>6, NearestSpeaks

\* At most one file speaks for a tier.
LEMMA OneSpeaker ==
  ASSUME NEW t, NEW p \in Speakers(t), NEW q \in Speakers(t)
  PROVE  p = q
  BY DEF Speakers

\* What the machine says of its files does not change.
LEMMA FilesStay ==
  ASSUME machine' = machine
  PROVE  /\ \A t : All(t)' = All(t) /\ There(t)' = There(t) /\ Speakers(t)' = Speakers(t)
         /\ Opinions' = Opinions /\ (ListsCandidates(machine) => ListsCandidates(machine)')
         /\ \A path : Found(machine, path)' = Found(machine, path) /\ Usable(path)' = Usable(path)
<1>1. \A t : All(t)' = All(t) /\ There(t)' = There(t) /\ Speakers(t)' = Speakers(t)
  BY DEF All, There, Speakers
<1>2. Opinions' = Opinions BY <1>1 DEF Opinions
<1>3. \A path : Found(machine, path)' = Found(machine, path) /\ Usable(path)' = Usable(path)
  BY DEF Usable
<1>4. QED BY <1>1, <1>2, <1>3

\* The next tier is read from its first file.
LEMMA NextTierReads ==
  ASSUME ListsCandidates(machine), tier \in 1..3, NextTier, machine' = machine
  PROVE  ReadingOn' /\ tier' \in 1..4 /\ (tier' = 4 => candidates' = <<>>)
<1>1. tier' = tier + 1 /\ tier' \in 1..4 /\ (tier' = 4 => candidates' = <<>>) BY DEF NextTier
<1>2. CASE ~(tier' <= 3) BY <1>1, <1>2 DEF ReadingOn
<1> SUFFICES ASSUME tier' <= 3 PROVE ReadingOn' BY <1>1, <1>2
<1>3. tier' \in 1..3 /\ candidates' = All(tier') BY <1>1 DEF NextTier, All
<1>4. IsSequence(candidates') /\ Len(candidates') \in Nat
  BY <1>3 DEF ListsCandidates, All, IsSequence
<1>5. \A t : All(t)' = All(t) BY FilesStay
<1>6. /\ Len(candidates') = Len(All(tier')) + 1 - 1
      /\ \A i \in 1..Len(candidates') : candidates'[i] = All(tier')[1 + i - 1]
      /\ \A i \in 1..(1 - 1) : i \notin There(tier)'
  BY <1>3, <1>4
<1>7. 1 \in 1..(Len(All(tier')) + 1) BY <1>3, <1>4
<1>8. QED BY <1>4, <1>5, <1>6, <1>7 DEF ReadingOn

\* What a tier says is heard over what the lower ones said.
LEMMA NextTierHears ==
  ASSUME Heard, tier \in 1..3, tier' = tier + 1, machine' = machine,
         \A path \in Speakers(tier) : Found(machine, path) \in Motions \cup {"silent"},
         tier \in Opinions => \E path \in Speakers(tier) : layer' = Found(machine, path),
         tier \notin Opinions => layer' = layer
  PROVE  Heard'
<1>1. \A t : Speakers(t)' = Speakers(t) BY FilesStay
<1>2. Opinions' = Opinions BY FilesStay
<1>3. Opinions \subseteq 1..3 BY DEF Opinions
<1>4. ASSUME NEW t \in 1..3, t < tier + 1, NEW path \in Speakers(t)
      PROVE  Found(machine, path) \in Motions \cup {"silent"}
  <2>1. t < tier \/ t = tier BY <1>4
  <2>2. QED BY <1>4, <2>1 DEF Heard
<1>5. ASSUME \A t \in Opinions : t >= tier + 1 PROVE layer' = "unset"
  <2>1. tier \notin Opinions BY <1>5
  <2>2. \A t \in Opinions : t >= tier BY <1>3, <1>5
  <2>3. QED BY <2>1, <2>2 DEF Heard
<1>6. ASSUME NEW t \in Opinions, t < tier + 1, \A u \in Opinions : u < tier + 1 => u <= t
      PROVE  \E path \in Speakers(t) : layer' = Found(machine, path)
  <2>1. CASE tier \in Opinions
    <3>1. t = tier BY <1>3, <1>6, <2>1
    <3>2. QED BY <2>1, <3>1
  <2>2. CASE tier \notin Opinions
    <3>1. t < tier /\ \A u \in Opinions : u < tier => u <= t BY <1>3, <1>6, <2>2
    <3>2. QED BY <2>2, <3>1 DEF Heard
  <2>3. QED BY <2>1, <2>2
<1>7. QED BY <1>1, <1>2, <1>4, <1>5, <1>6 DEF Heard

LEMMA SettingsInitHolds ==
  ASSUME Unread, ListsCandidates(machine)
  PROVE  SettingsInv
<1>1. tier = 1 /\ candidates = All(1) /\ layer = "unset" /\ loaded = "reading" BY DEF Unread, All
<1>2. IsSequence(candidates) /\ Len(candidates) \in Nat
  BY <1>1 DEF ListsCandidates, All, IsSequence
<1>3. ReadingOn
  <2>1. /\ Len(candidates) = Len(All(1)) + 1 - 1
        /\ \A i \in 1..Len(candidates) : candidates[i] = All(1)[1 + i - 1]
        /\ \A i \in 1..(1 - 1) : i \notin There(1)
    BY <1>1, <1>2
  <2>2. 1 \in 1..(Len(All(1)) + 1) BY <1>1, <1>2
  <2>3. QED BY <1>1, <1>2, <2>1, <2>2 DEF ReadingOn
<1>4. Heard
  <2>1. Opinions \subseteq 1..3 BY DEF Opinions
  <2>2. \A t \in 1..3 : ~(t < 1) OBVIOUS
  <2>3. QED BY <1>1, <2>1, <2>2 DEF Heard
<1>5. QED BY <1>1, <1>3, <1>4 DEF SettingsInv

LEMMA SettingsStepKeeps ==
  ASSUME SettingsInv, [SettingsNext]_settingsVars
  PROVE  SettingsInv'
<1>1. ListsCandidates(machine) /\ tier \in 1..4 /\ (tier = 4 => candidates = <<>>) BY DEF SettingsInv
<1>2. CASE SkipMissing
  <2>1. /\ candidates # <<>> /\ Found(machine, Head(candidates)) = "missing"
        /\ candidates' = Tail(candidates)
        /\ UNCHANGED <<machine, tier, layer, loaded, culprit, motion>>
    BY <1>2 DEF SkipMissing
  <2>2. tier \in 1..3 BY <1>1, <2>1
  <2>3. PICK k \in 1..(Len(All(tier)) + 1) :
          /\ IsSequence(candidates) /\ Len(candidates) = Len(All(tier)) + 1 - k
          /\ \A i \in 1..Len(candidates) : candidates[i] = All(tier)[k + i - 1]
          /\ \A i \in 1..(k - 1) : i \notin There(tier)
    BY <2>2 DEF SettingsInv, ReadingOn
  <2>4. Len(All(tier)) \in Nat BY <1>1, <2>2 DEF ListsCandidates, All
  <2>5. /\ IsSequence(candidates') /\ Len(candidates) > 0 /\ Len(candidates') = Len(candidates) - 1
        /\ \A i \in 1..(Len(candidates) - 1) : candidates'[i] = candidates[i + 1]
        /\ Head(candidates) = candidates[1]
    BY <2>1, <2>3, TailIsSequence
  <2>6. k + 1 \in 1..(Len(All(tier)) + 1) /\ Len(candidates') = Len(All(tier)) + 1 - (k + 1)
    BY <2>3, <2>4, <2>5
  <2>7. ASSUME NEW i \in 1..Len(candidates') PROVE candidates'[i] = All(tier)[(k + 1) + i - 1]
    <3>1. i + 1 \in 1..Len(candidates) /\ i \in 1..(Len(candidates) - 1) BY <2>3, <2>4, <2>5
    <3>2. candidates[i + 1] = All(tier)[k + (i + 1) - 1] BY <2>3, <3>1
    <3>3. k + (i + 1) - 1 = (k + 1) + i - 1 BY <2>3
    <3>4. QED BY <2>5, <3>1, <3>2, <3>3
  <2>8. ASSUME NEW i \in 1..((k + 1) - 1) PROVE i \notin There(tier)
    <3>1. i \in 1..(k - 1) \/ i = k BY <2>3
    <3>2. 1 \in 1..Len(candidates) /\ k + 1 - 1 = k BY <2>3, <2>4, <2>5
    <3>3. Head(candidates) = All(tier)[k] BY <2>3, <2>5, <3>2
    <3>4. k \notin There(tier) BY <2>1, <3>3 DEF There
    <3>5. QED BY <2>3, <3>1, <3>4
  <2>9. ReadingOn'
    <3>1. All(tier)' = All(tier) /\ There(tier)' = There(tier) BY <2>1 DEF All, There
    <3>2. QED BY <2>1, <2>5, <2>6, <2>7, <2>8, <3>1 DEF ReadingOn
  <2>10. Heard' BY <2>1, FilesStay DEF SettingsInv, Heard
  <2>11. QED BY <1>1, <2>1, <2>2, <2>9, <2>10, FilesStay DEF SettingsInv, Resolved
<1>3. CASE TierIsSilent
  <2>1. /\ candidates = <<>> /\ tier \in 1..3 /\ NextTier /\ loaded = "reading"
        /\ UNCHANGED <<machine, layer, loaded, culprit, motion>>
    BY <1>1, <1>3 DEF TierIsSilent
  <2>2. There(tier) = {}
    <3>1. PICK k \in 1..(Len(All(tier)) + 1) :
            /\ Len(candidates) = Len(All(tier)) + 1 - k
            /\ \A i \in 1..(k - 1) : i \notin There(tier)
      BY <2>1 DEF SettingsInv, ReadingOn
    <3>2. Len(All(tier)) \in Nat BY <1>1, <2>1 DEF ListsCandidates, All
    <3>3. Len(candidates) = 0 BY <2>1
    <3>4. k - 1 = Len(All(tier)) BY <3>1, <3>2, <3>3
    <3>5. There(tier) \subseteq 1..Len(All(tier)) BY DEF There
    <3>6. QED BY <3>1, <3>4, <3>5
  <2>3. Speakers(tier) = {} BY <1>1, <2>1, <2>2, NobodySpeaks
  <2>4. tier \notin Opinions BY <2>3 DEF Opinions
  <2>5. Heard BY DEF SettingsInv
  <2>6. tier' = tier + 1 BY <2>1 DEF NextTier
  <2>7. Heard' BY <2>1, <2>3, <2>4, <2>5, <2>6, NextTierHears
  <2>8. ReadingOn' /\ tier' \in 1..4 /\ (tier' = 4 => candidates' = <<>>)
    BY <1>1, <2>1, NextTierReads
  <2>9. QED BY <1>1, <2>1, <2>7, <2>8, FilesStay DEF SettingsInv
<1>4. CASE TakeFile
  <2>1. PICK says : says = Found(machine, Head(candidates)) OBVIOUS
  <2>2. /\ candidates # <<>> /\ says \in Motions \cup {"silent"} /\ NextTier /\ loaded = "reading"
        /\ layer' = Merged(layer, IF says = "silent" THEN "unset" ELSE says)
        /\ UNCHANGED <<machine, loaded, culprit, motion>>
    BY <1>4, <2>1 DEF TakeFile
  <2>3. tier \in 1..3 /\ says # "missing" BY <1>1, <2>2 DEF Motions
  <2>4. Speakers(tier) = {Head(candidates)} BY <2>1, <2>2, <2>3, FirstThereSpeaks
  <2>5. tier \in Opinions <=> says \in Motions BY <2>1, <2>3, <2>4 DEF Opinions
  <2>6. layer' = IF says \in Motions THEN says ELSE layer BY <2>2 DEF Merged, Motions
  <2>7. Heard BY DEF SettingsInv
  <2>8. tier' = tier + 1 BY <2>2 DEF NextTier
  <2>9. Heard'
    <3>1. \A path \in Speakers(tier) : Found(machine, path) \in Motions \cup {"silent"}
      BY <2>1, <2>2, <2>4
    <3>2. tier \in Opinions => \E path \in Speakers(tier) : layer' = Found(machine, path)
      BY <2>1, <2>4, <2>5, <2>6
    <3>3. tier \notin Opinions => layer' = layer BY <2>5, <2>6
    <3>4. QED BY <2>2, <2>3, <2>7, <2>8, <3>1, <3>2, <3>3, NextTierHears
  <2>10. ReadingOn' /\ tier' \in 1..4 /\ (tier' = 4 => candidates' = <<>>)
    BY <1>1, <2>2, <2>3, NextTierReads
  <2>11. QED BY <1>1, <2>2, <2>9, <2>10, FilesStay DEF SettingsInv
<1>5. CASE RefuseFile
  <2>1. /\ candidates # <<>> /\ Found(machine, Head(candidates)) \in {"unreadable", "malformed"}
        /\ loaded' = "failed" /\ culprit' = Head(candidates)
        /\ UNCHANGED <<machine, tier, candidates, layer, motion>>
    BY <1>5 DEF RefuseFile
  <2>2. tier \in 1..3 BY <1>1, <2>1
  <2>3. Speakers(tier) = {Head(candidates)} BY <2>1, <2>2, FirstThereSpeaks
  <2>4. culprit' \in UNION {Speakers(t) : t \in 1..3} BY <2>1, <2>2, <2>3
  <2>5. ~Usable(culprit') BY <2>1 DEF Usable
  <2>6. (loaded = "failed" => culprit \in UNION {Speakers(t) : t \in 1..3} /\ ~Usable(culprit))'
    <3>1. \A t : Speakers(t)' = Speakers(t) BY <2>1, FilesStay
    <3>2. \A path : Usable(path)' = Usable(path) BY <2>1 DEF Usable
    <3>3. QED BY <2>4, <2>5, <3>1, <3>2
  <2>7. ReadingOn' BY <2>1, FilesStay DEF SettingsInv, ReadingOn
  <2>8. Heard' BY <2>1, FilesStay DEF SettingsInv, Heard
  <2>9. QED BY <1>1, <2>1, <2>6, <2>7, <2>8, FilesStay DEF SettingsInv
<1>6. CASE ResolveMotion
  <2>1. /\ loaded = "reading" /\ tier = 4
        /\ motion' = Resolved(machine.term) /\ loaded' = "ready"
        /\ UNCHANGED <<machine, tier, candidates, layer, culprit>>
    BY <1>1, <1>6 DEF ResolveMotion
  <2>2. ReadingOn' BY <2>1, FilesStay DEF SettingsInv, ReadingOn
  <2>3. Heard' BY <2>1, FilesStay DEF SettingsInv, Heard
  <2>4. QED BY <1>1, <2>1, <2>2, <2>3, FilesStay DEF SettingsInv, Resolved
<1>7. CASE UNCHANGED settingsVars
  <2>1. UNCHANGED <<machine, tier, candidates, layer, loaded, culprit, motion>>
    BY <1>7 DEF settingsVars
  <2>2. ReadingOn' BY <2>1, FilesStay DEF SettingsInv, ReadingOn
  <2>3. Heard' BY <2>1, FilesStay DEF SettingsInv, Heard
  <2>4. QED BY <1>1, <2>1, <2>2, <2>3, FilesStay DEF SettingsInv, Resolved
<1>8. QED BY <1>2, <1>3, <1>4, <1>5, <1>6, <1>7 DEF SettingsNext

LEMMA SettingsInvSuffices == SettingsInv => StrictAndLayered
<1> SUFFICES ASSUME SettingsInv PROVE StrictAndLayered OBVIOUS
<1>1. loaded = "failed" => culprit \in UNION {Speakers(t) : t \in 1..3} /\ ~Usable(culprit)
  BY DEF SettingsInv
<1>2. ASSUME loaded = "ready"
      PROVE  /\ \A t \in 1..3 : \A path \in Speakers(t) : Usable(path)
             /\ machine.term = "dumb" => motion = "none"
             /\ machine.term # "dumb" /\ Opinions # {} =>
                  \E path \in Speakers(Max(Opinions)) : motion = Found(machine, path)
             /\ Opinions = {} => motion = IF machine.term \in {"unset", "dumb"} THEN "none" ELSE "full"
  <2>1. tier = 4 /\ motion = Resolved(machine.term) /\ Heard BY <1>2 DEF SettingsInv
  <2>2. \A t \in 1..3 : \A path \in Speakers(t) : Usable(path) BY <2>1 DEF Heard, Usable, Motions
  <2>3. Opinions \subseteq 1..3 BY DEF Opinions
  <2>4. Opinions = {} => layer = "unset" BY <2>1 DEF Heard
  <2>5. ASSUME Opinions # {}, machine.term # "dumb"
        PROVE  \E path \in Speakers(Max(Opinions)) : motion = Found(machine, path)
    <3>1. PICK top : top = Max(Opinions) OBVIOUS
    <3>2. top \in Opinions /\ \A u \in Opinions : u <= top BY <2>3, <2>5, <3>1, GreatestIsOne
    <3>3. top \in 1..3 BY <2>3, <3>2
    <3>4. PICK path \in Speakers(top) : layer = Found(machine, path)
      <4>1. top < tier /\ \A u \in Opinions : u < tier => u <= top BY <2>1, <3>2, <3>3
      <4>2. QED BY <2>1, <3>2, <4>1 DEF Heard
    <3>5. PICK said \in Speakers(top) : Found(machine, said) \in Motions BY <3>2 DEF Opinions
    <3>6. layer \in Motions BY <3>4, <3>5, OneSpeaker
    <3>7. motion = layer BY <2>1, <2>5, <3>6 DEF Resolved, Motions
    <3>8. QED BY <3>1, <3>4, <3>7
  <2>6. QED BY <2>1, <2>2, <2>4, <2>5 DEF Resolved
<1>3. QED BY <1>1, <1>2 DEF StrictAndLayered

(* A start runs with the settings of the files that speak for its tiers,   *)
(* the highest opinion deciding, or stops at one it cannot use, for any    *)
(* environment, working directory and disk (config.rs 30-178).             *)
THEOREM StartsAreStrict ==
  (\A m \in Machines : ListsCandidates(m)) => (SettingsSpec => []StrictAndLayered)
<1> SUFFICES ASSUME \A m \in Machines : ListsCandidates(m) PROVE SettingsSpec => []StrictAndLayered
  OBVIOUS
<1>1. SettingsInit => SettingsInv BY SettingsInitHolds DEF SettingsInit
<1>2. SettingsInv /\ [SettingsNext]_settingsVars => SettingsInv' BY SettingsStepKeeps
<1>3. QED BY <1>1, <1>2, SettingsInvSuffices, PTL DEF SettingsSpec

(* The same of the machines the run starts on (config.rs 30-178).          *)
THEOREM SettingsComeInLayers == PartsSpec => []SettingsAreLayered
<1> DEFINE Inv == part = "settings" => SettingsInv
<1>1. PartsInit => Inv
  <2> SUFFICES ASSUME PartsInit, part = "settings" PROVE SettingsInv OBVIOUS
  <2>1. machine \in MCMachines /\ Unread BY DEF PartsInit
  <2>2. ListsCandidates(machine) BY <2>1, MachinesListTheirFiles
  <2>3. QED BY <2>1, <2>2, SettingsInitHolds
<1>2. Inv /\ [PartsNext]_partsVars => Inv'
  <2> SUFFICES ASSUME Inv, [PartsNext]_partsVars, part' = "settings" PROVE SettingsInv' OBVIOUS
  <2>1. part = "settings" /\ [SettingsNext]_settingsVars BY DEF PartsNext, partsVars
  <2>2. QED BY <2>1, SettingsStepKeeps
<1>3. Inv => SettingsAreLayered BY SettingsInvSuffices DEF SettingsAreLayered
<1>4. QED BY <1>1, <1>2, <1>3, PTL DEF PartsSpec

---------------------------------------------------------------------------
(* The model call.                                                         *)

RequestWentOut ==
  /\ Refusal(from) = "none" /\ Outgoing.error = "none" /\ Chosen.error = "none"
  /\ sent = [kind |-> "sent", request |-> Outgoing.value, options |-> Chosen.value]

CallInv ==
  /\ request \in Requests
  /\ stage = "built" => Refusal(from) = "none"
  /\ sent # Nothing => RequestWentOut

LEMMA EffortsAreRanked ==
  ASSUME NEW level, IsEffort(level)
  PROVE  Rank(level) \in 1..4 /\ Effort[Rank(level)] = level
<1>1. DOMAIN Effort = 1..4 BY DEF Effort
<1>2. PICK k \in DOMAIN Effort : Effort[k] = level BY DEF IsEffort, ToSet
<1>3. QED BY <1>1, <1>2 DEF Rank

\* A level that is declared is its own nearest one, and the nearest one is
\* declared.
LEMMA NearestIsDeclared ==
  ASSUME NEW efforts, efforts # {}, \A e \in efforts : IsEffort(e), NEW level, IsEffort(level)
  PROVE  /\ Nearest(efforts, level) \in efforts
         /\ level \in efforts => Nearest(efforts, level) = level
<1> DEFINE rank(e) == Rank(e)
           dist(e) == Distance(e, level)
           Key(e) == 10 * dist(e) + rank(e)
           Closer(e, f) == dist(e) < dist(f) \/ (dist(e) = dist(f) /\ rank(e) <= rank(f))
           best == Nearest(efforts, level)
<1>1. \A e \in efforts : rank(e) \in 1..4 BY EffortsAreRanked
<1>2. rank(level) \in 1..4 BY EffortsAreRanked
<1>3. \A e : dist(e) = IF rank(e) > rank(level) THEN rank(e) - rank(level) ELSE rank(level) - rank(e)
  BY DEF Distance
<1> HIDE DEF rank
<1>4. \A e \in efforts : dist(e) \in 0..3 BY <1>1, <1>2, <1>3
<1> HIDE DEF dist
<1>5. {Key(e) : e \in efforts} \subseteq Nat BY <1>1, <1>4
<1>6. PICK least \in {Key(e) : e \in efforts} : \A n \in {Key(e) : e \in efforts} : least <= n
  BY <1>5, LeastNatural
<1>7. PICK e \in efforts : Key(e) = least BY <1>6
<1>8. \A f \in efforts : Key(e) <= Key(f) BY <1>6, <1>7
<1>9. \A f \in efforts : Closer(e, f) BY <1>1, <1>4, <1>8
<1>10. best = CHOOSE x \in efforts : \A f \in efforts : Closer(x, f) BY DEF Nearest, dist, rank
<1>11. best \in efforts /\ \A f \in efforts : Closer(best, f) BY <1>9, <1>10
<1>12. ASSUME level \in efforts PROVE best = level
  <2>1. dist(level) = 0 BY <1>2, <1>3
  <2>2. dist(best) \in 0..3 BY <1>4, <1>11
  <2>3. Closer(best, level) BY <1>11, <1>12
  <2>4. dist(best) = 0 BY <2>1, <2>2, <2>3
  <2>5. rank(best) = rank(level) BY <1>1, <1>2, <1>3, <1>11, <2>4
  <2>6. IsEffort(best) BY <1>11
  <2>7. QED BY <2>5, <2>6, EffortsAreRanked DEF rank
<1>13. QED BY <1>11, <1>12

\* Every dialect maps a level to a declared one, and a declared one to itself.
LEMMA EffortsStayDeclared ==
  ASSUME NEW dialect \in DialectNames, NEW level, IsEffort(level),
         MappedReasoning(dialect, level).error = "none"
  PROVE  LET mapped == MappedReasoning(dialect, level).value
             efforts == Capabilities(dialect).efforts IN
         mapped \in efforts /\ (level \in efforts => mapped = level)
<1>1. level \in {"low", "medium", "high", "max"} BY DEF IsEffort, ToSet, Effort
<1>2. \A e \in {"low", "medium", "high", "max"} : IsEffort(e) BY DEF IsEffort, ToSet, Effort
<1>3. CASE dialect = "deepseek"
  BY <1>1, <1>3 DEF MappedReasoning, DeepSeekReasoning, Capabilities, Fine
<1>4. ASSUME dialect # "deepseek", NEW efforts, efforts = Capabilities(dialect).efforts
      PROVE  /\ MappedReasoning(dialect, level).value = Nearest(efforts, level)
             /\ efforts # {} /\ \A e \in efforts : IsEffort(e)
  <2>1. efforts \in {{"low", "high", "max"}, {"low", "medium", "high"}}
    BY <1>4 DEF Capabilities, DialectNames
  <2>2. MappedReasoning(dialect, level) = Fine(Nearest(efforts, level))
    BY <1>1, <1>4, <2>1 DEF MappedReasoning, DefaultReasoning
  <2>3. QED BY <1>2, <2>1, <2>2 DEF Fine
<1>5. QED BY <1>3, <1>4, NearestIsDeclared

\* A request that can be mapped is split after the leading system messages.
LEMMA WireKeepsEveryMessage ==
  ASSUME NEW messages, IsSequence(messages), NEW echo, WireRequest(messages, echo).error = "none"
  PROVE  LET wire == WireRequest(messages, echo).value
             lead == Len(wire.system) IN
         /\ lead \in Nat /\ Len(wire.messages) \in Nat
         /\ lead + Len(wire.messages) = Len(messages)
         /\ DOMAIN wire.messages = 1..Len(wire.messages)
         /\ \A k \in DOMAIN wire.messages : wire.messages[k] = OnWire(messages[lead + k], echo)
<1>1. PICK lead : lead = LeadingSystem(messages) OBVIOUS
<1>2. PICK n : n = Len(messages) OBVIOUS
<1>3. n \in Nat /\ DOMAIN messages = 1..n BY <1>2 DEF IsSequence
<1>4. lead \in 0..n
  <2> DEFINE leading == {k \in DOMAIN messages : \A j \in 1..k : messages[j].role = "system"}
  <2>1. leading \subseteq 1..n BY <1>3
  <2>2. IsFiniteSet(1..n) /\ Cardinality(1..n) = n BY <1>3, FS_Interval
  <2>3. IsFiniteSet(leading) /\ Cardinality(leading) <= n BY <2>1, <2>2, FS_Subset
  <2>4. Cardinality(leading) \in Nat BY <2>3, FS_CardinalityType
  <2>5. lead = Cardinality(leading) BY <1>1 DEF LeadingSystem
  <2>6. QED BY <1>3, <2>3, <2>4, <2>5
<1>5. PICK system : system = SubSeq(messages, 1, lead) OBVIOUS
<1>6. PICK rest : rest = [k \in 1..(n - lead) |-> OnWire(messages[lead + k], echo)] OBVIOUS
<1>7. WireRequest(messages, echo).value = [system |-> system, messages |-> rest]
  <2>1. \A m : (IF m.role = "assistant" THEN Mismatch ELSE Invalid).error # "none" BY DEF Mismatch, Invalid
  <2>2. QED BY <1>1, <1>2, <1>5, <1>6, <2>1 DEF WireRequest, Fine
<1>8. Len(system) = lead
  <2>1. messages \in Seq({messages[i] : i \in DOMAIN messages}) BY DEF IsSequence
  <2>2. QED BY <1>2, <1>3, <1>4, <1>5, <2>1
<1>9. Len(rest) = n - lead /\ DOMAIN rest = 1..(n - lead)
  <2>1. n - lead \in Nat BY <1>3, <1>4
  <2>2. rest \in [1..(n - lead) -> {OnWire(messages[lead + k], echo) : k \in 1..(n - lead)}] BY <1>6
  <2>3. QED BY <2>1, <2>2
<1>10. \A k \in DOMAIN rest : rest[k] = OnWire(messages[lead + k], echo) BY <1>6, <1>9
<1>11. QED BY <1>2, <1>3, <1>4, <1>7, <1>8, <1>9, <1>10

LEMMA CallInitHolds ==
  ASSUME request \in Requests, Init, stage \in {"naming", "scripted"}
  PROVE  CallInv
  BY DEF Init, CallInv

LEMMA CallStepKeeps ==
  ASSUME CallInv, [Next]_vars
  PROVE  CallInv'
<1>1. (UNCHANGED <<from, request>>) /\ RequestWentOut /\ sent' = sent => RequestWentOut'
  BY DEF RequestWentOut, Outgoing, Chosen
<1>2. CASE Build
  BY <1>1, <1>2 DEF Build, CallInv
<1>3. CASE Send
  <2>1. /\ stage = "built" /\ stage' = "connecting" /\ UNCHANGED <<from, request>>
        /\ Outgoing.error = "none" /\ Chosen.error = "none"
        /\ sent' = [kind |-> "sent", request |-> Outgoing.value, options |-> Chosen.value]
    BY <1>3 DEF Send
  <2>2. Refusal(from)' = "none" BY <2>1 DEF CallInv, Refusal
  <2>3. Outgoing' = Outgoing /\ Chosen' = Chosen BY <2>1 DEF Outgoing, Chosen
  <2>4. RequestWentOut' BY <2>1, <2>2, <2>3 DEF RequestWentOut
  <2>5. QED BY <2>1, <2>4 DEF CallInv
<1>4. ASSUME UNCHANGED <<from, request, sent>>, stage' # "built" \/ stage' = stage PROVE CallInv'
  <2>1. Refusal(from)' = Refusal(from) BY <1>4 DEF Refusal
  <2>2. QED BY <1>1, <1>4, <2>1 DEF CallInv
<1>5. CASE Refuse BY <1>4, <1>5 DEF Refuse
<1>6. CASE Connect BY <1>4, <1>6 DEF Connect
<1>7. CASE Receive BY <1>4, <1>7 DEF Receive
<1>8. CASE WireFails BY <1>4, <1>8 DEF WireFails
<1>9. CASE Take BY <1>4, <1>9 DEF Take
<1>10. CASE StreamOver BY <1>4, <1>10 DEF StreamOver
<1>11. CASE TakeScripted BY <1>4, <1>11 DEF TakeScripted
<1>12. CASE Finished BY <1>4, <1>12 DEF Finished
<1>13. CASE UNCHANGED vars BY <1>4, <1>13 DEF vars
<1>14. QED
  BY <1>2, <1>3, <1>5, <1>6, <1>7, <1>8, <1>9, <1>10, <1>11, <1>12, <1>13 DEF Next

LEMMA CallInvSuffices ==
  ASSUME CallInv
  PROVE  SentKeepsRequest
<1> SUFFICES ASSUME sent # Nothing PROVE SentKeepsRequest BY DEF SentKeepsRequest
<1> DEFINE dialect == from.provider
           caps == Capabilities(dialect)
           said == request.messages
<1>1. RequestWentOut /\ request \in Requests BY DEF CallInv
<1>2. sent.request = Outgoing.value /\ sent.options = Chosen.value BY <1>1 DEF RequestWentOut
<1>3. from.key /\ dialect \in DialectNames BY <1>1 DEF RequestWentOut, Refusal
<1>4. /\ Options(dialect, request).error = "none"
      /\ sent.options = Options(dialect, request).value
  BY <1>1, <1>2 DEF RequestWentOut, Chosen
<1>5. /\ request.tools => caps.tools
      /\ MappedReasoning(dialect, request.reasoning).error = "none"
      /\ MappedOutput(dialect, request.output).error = "none"
  BY <1>4 DEF Options, Mismatch
<1>6. /\ sent.options.reasoning = MappedReasoning(dialect, request.reasoning).value
      /\ sent.options.output = MappedOutput(dialect, request.output).value
  <2>1. Options(dialect, request) =
          Fine([reasoning |-> MappedReasoning(dialect, request.reasoning).value,
                output |-> MappedOutput(dialect, request.output).value,
                temperature |-> ClampedTemperature(dialect, request.temperature),
                body |-> Body(dialect, request)])
    BY <1>4, <1>5 DEF Options, Mismatch
  <2>2. QED BY <1>4, <2>1 DEF Fine
<1>7. IsEffort(request.reasoning) =>
        /\ sent.options.reasoning \in caps.efforts
        /\ request.reasoning \in caps.efforts => sent.options.reasoning = request.reasoning
  BY <1>3, <1>5, <1>6, EffortsStayDeclared
<1>8. request.output = "strict" => sent.options.output = "strict schema"
  BY <1>5, <1>6 DEF MappedOutput, Mismatch, Fine
<1>9. PICK echo : echo = EchoesReasoning(dialect) OBVIOUS
<1>10. /\ WireRequest(said, echo).error = "none"
       /\ sent.request = WireRequest(said, echo).value
  BY <1>1, <1>2, <1>9 DEF RequestWentOut, Outgoing
<1>11. IsSequence(said) BY <1>1, ProviderAssumption DEF IsSequence
<1>12. PICK lead : lead = Len(sent.request.system) OBVIOUS
<1>13. /\ lead + Len(sent.request.messages) = Len(said)
       /\ \A k \in DOMAIN sent.request.messages :
            sent.request.messages[k] = OnWire(said[lead + k], echo)
  <2>1. PICK wire : wire = WireRequest(said, echo).value OBVIOUS
  <2>2. /\ Len(wire.system) + Len(wire.messages) = Len(said)
        /\ \A k \in DOMAIN wire.messages : wire.messages[k] = OnWire(said[Len(wire.system) + k], echo)
    BY <1>10, <1>11, <2>1, WireKeepsEveryMessage
  <2>3. sent.request = wire BY <1>10, <2>1
  <2>4. QED BY <1>12, <2>2, <2>3
<1>14. \A k \in DOMAIN sent.request.messages :
         said[lead + k].role = "tool" =>
           /\ sent.request.messages[k].marked = said[lead + k].error
           /\ sent.request.messages[k].answers = said[lead + k].answers
  <2>1. \A m : m.role = "tool" => /\ OnWire(m, echo).marked = m.error
                                  /\ OnWire(m, echo).answers = m.answers
    BY DEF OnWire, MarkedAsError
  <2>2. QED BY <1>13, <2>1
<1>15. QED BY <1>3, <1>5, <1>7, <1>8, <1>12, <1>13, <1>14 DEF SentKeepsRequest

(* A request that went out has the effort asked for where the dialect      *)
(* declares it and a declared one otherwise, is strict where strictness    *)
(* was asked for, and every message of the history is in the system slot   *)
(* or behind it in order, no tool result losing its error or its call; for *)
(* any dialect, key, history and options (request_map.rs 13-100,           *)
(* dialect.rs).                                                            *)
THEOREM RequestsKeepTheirWord == PartsSpec => []RequestIsTheAsked
<1> DEFINE Inv == part = "call" => CallInv
<1>1. PartsInit => Inv BY CallInitHolds DEF PartsInit
<1>2. Inv /\ [PartsNext]_partsVars => Inv'
  <2> SUFFICES ASSUME Inv, [PartsNext]_partsVars, part' = "call" PROVE CallInv' OBVIOUS
  <2>1. part = "call" /\ [Next]_vars BY DEF PartsNext, partsVars
  <2>2. QED BY <2>1, CallStepKeeps
<1>3. Inv => RequestIsTheAsked BY CallInvSuffices DEF RequestIsTheAsked
<1>4. QED BY <1>1, <1>2, <1>3, PTL DEF PartsSpec
=============================================================================
