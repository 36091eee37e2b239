--------------------------- MODULE FrameScheduler ---------------------------
(***************************************************************************)
(* Redraw requests of the terminal client (cadmus-tui frame.rs): handles   *)
(* send instants over a bounded channel, one task coalesces them into at   *)
(* most one draw per interval, and the app's pump takes the draw and asks  *)
(* for the next frame of what still moves.                                 *)
(*                                                                         *)
(* Time is a counter.  The task is not late: the clock stands still while  *)
(* it has something to do.  The app may be as slow as it likes.            *)
(* An operator named Fault... is a plausible slip in the definition that   *)
(* follows it; none is part of the specification.                          *)
(***************************************************************************)
EXTENDS Naturals, Sequences, SequencesExt, FiniteSetsExt

CONSTANTS
  Interval,      \* MIN_FRAME_INTERVAL
  RequestDepth,  \* REQUEST_DEPTH
  Horizons,      \* how far ahead a frame is asked for
  Animation,     \* the horizon of what moves by itself
  LastInstant,   \* bound: where the clock stops
  MaxRequests    \* bound: requests from outside the pump

ASSUME FrameBounds ==
  /\ Interval \in Nat \ {0} /\ RequestDepth \in Nat \ {0}
  /\ Horizons \subseteq Nat /\ Animation \in Nat

VARIABLES
  clock,       \* now
  requests,    \* the channel's instants
  handles,     \* some handle is alive
  task,        \* the scheduler: "waiting", "armed" or "over"
  fireAt,      \* when an armed frame leaves
  nextAllowed, \* FrameRateLimiter.next_allowed, 0 before the first frame
  draw,        \* a draw is queued for the app
  receiving,   \* the app still holds the draw receiver
  asked,       \* requests so far
  owed,        \* by when the requests no frame has answered want one
  left         \* when the frames left

frameVars == <<clock, requests, handles, task, fireAt, nextAllowed, draw, receiving,
               asked, owed, left>>

Later(a, b) == Max({a, b})
Earlier(a, b) == Min({a, b})

FrameInit ==
  /\ clock = 0 /\ requests = <<>> /\ handles = TRUE
  /\ task = "waiting" /\ fireAt = 0 /\ nextAllowed = 0
  /\ draw = FALSE /\ receiving = TRUE
  /\ asked = 0 /\ owed = {} /\ left = <<>>

---------------------------------------------------------------------------
(* FrameRateLimiter and the handles.                                       *)

\* The earliest instant a frame requested for `at` may leave.
Clamp(at) == Later(at, nextAllowed)

Room == Len(requests) < RequestDepth

\* schedule_frame_at: with no room the frame of those before covers this one.
Requested(at) ==
  /\ requests' = IF Room THEN Append(requests, at) ELSE requests
  /\ owed' = owed \cup {IF Room THEN at ELSE Min(ToSet(requests))}

ScheduleFrame ==
  /\ handles /\ asked < MaxRequests
  /\ \E ahead \in Horizons : Requested(clock + ahead)
  /\ asked' = asked + 1
  /\ UNCHANGED <<clock, handles, task, fireAt, nextAllowed, draw, receiving, left>>

---------------------------------------------------------------------------
(* FrameScheduler::run.                                                    *)

\* Everything in the channel becomes one frame, at the earliest instant.
Wake ==
  /\ task = "waiting" /\ requests # <<>>
  /\ task' = "armed"
  /\ fireAt' = Min({Clamp(at) : at \in ToSet(requests)})
  /\ requests' = <<>>
  /\ UNCHANGED <<clock, handles, nextAllowed, draw, receiving, asked, owed, left>>

FaultLatestWins(at) == Clamp(at)

\* A request arriving mid-wait pulls the frame earlier, never later.
PulledTo(at) == Earlier(fireAt, Clamp(at))

Waiting == task = "armed" /\ fireAt > clock

Pull ==
  /\ Waiting /\ requests # <<>>
  /\ fireAt' = PulledTo(Head(requests))
  /\ requests' = Tail(requests)
  /\ UNCHANGED <<clock, handles, task, nextAllowed, draw, receiving, asked, owed, left>>

Due == task = "armed" /\ fireAt <= clock

\* The last handle is gone: the wait breaks off and the frame leaves at once.
BrokenOffWait == Waiting /\ requests = <<>> /\ ~handles

\* A draw that is queued already covers this frame; the gate advances either way.
Fire ==
  /\ Due \/ BrokenOffWait
  /\ IF receiving
     THEN /\ draw' = TRUE /\ task' = "waiting"
          /\ nextAllowed' = clock + Interval
          /\ left' = Append(left, clock)
          /\ owed' = {at \in owed : at \in ToSet(requests)}
     ELSE task' = "over" /\ UNCHANGED <<draw, nextAllowed, left, owed>>
  /\ UNCHANGED <<clock, requests, handles, fireAt, receiving, asked>>

SchedulerEnds ==
  /\ task = "waiting" /\ requests = <<>> /\ ~handles
  /\ task' = "over"
  /\ UNCHANGED <<clock, requests, handles, fireAt, nextAllowed, draw, receiving, asked,
                 owed, left>>

---------------------------------------------------------------------------
(* The app.                                                                *)

\* The pump draws what there is, and asks again while rows are queued
\* or a run is active.
Pump ==
  /\ draw /\ receiving /\ handles
  /\ draw' = FALSE
  /\ \/ UNCHANGED <<requests, owed>>
     \/ Requested(clock + Animation)
  /\ UNCHANGED <<clock, handles, task, fireAt, nextAllowed, receiving, asked, left>>

\* The app goes: its handles and its receiver, in either order.
Leave ==
  /\ handles \/ receiving
  /\ \/ handles /\ handles' = FALSE /\ UNCHANGED receiving
     \/ receiving /\ receiving' = FALSE /\ UNCHANGED handles
  /\ UNCHANGED <<clock, requests, task, fireAt, nextAllowed, draw, asked, owed, left>>

\* The task has nothing to do at this instant.
SchedulerRests ==
  \/ task = "over"
  \/ task = "waiting" /\ requests = <<>> /\ handles
  \/ Waiting /\ requests = <<>> /\ handles

TimePasses ==
  /\ clock < LastInstant /\ SchedulerRests
  /\ clock' = clock + 1
  /\ UNCHANGED <<requests, handles, task, fireAt, nextAllowed, draw, receiving, asked,
                 owed, left>>

FrameNext ==
  \/ ScheduleFrame \/ Wake \/ Pull \/ Fire \/ SchedulerEnds \/ Pump \/ Leave \/ TimePasses

FrameSpec == FrameInit /\ [][FrameNext]_frameVars

---------------------------------------------------------------------------
(* Properties.                                                             *)

\* No two frames leave within an interval, but for the one sent off when the
\* last handle goes; and no request waits beyond the later of its instant and
\* the gate: it was answered by a frame that left after it was made, however
\* many were coalesced, dropped for want of room or pulled earlier.
FramesKeepPace ==
  /\ \A k \in 2..Len(left) : left[k] - left[k - 1] >= Interval \/ ~handles
  /\ task # "over" =>
       \A at \in owed :
         clock <= Later(at, IF left = <<>> THEN 0 ELSE Last(left) + Interval)
=============================================================================
