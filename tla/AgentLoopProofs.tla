--------------------------- MODULE AgentLoopProofs ---------------------------
(***************************************************************************)
(* Theorems about AgentLoop for any commands, turn limit and calls: how a  *)
(* run ends in its log, what becomes of the steers it is sent, and what    *)
(* the log replays to.                                                     *)
(***************************************************************************)
EXTENDS AgentLoop, TrajectoryProofs, FiniteSetTheorems, TLAPS

---------------------------------------------------------------------------
(* The invariant of how a run ends.                                        *)

\* The fields of an event that the properties look at.
Shaped(e) ==
  /\ "type" \in DOMAIN e
  /\ e.type = "response" => {"ok", "calls"} \subseteq DOMAIN e
  /\ e.type = "finished" => {"turns", "error"} \subseteq DOMAIN e
  /\ e.type = "steer" => "cmd" \in DOMAIN e /\ e.cmd \in Commands /\ e.cmd.kind = "steer"

LogTyped == IsSequence(log)

PendingTyped ==
  /\ IsSequence(pending) /\ then \in {"fold", "next", "ended"}
  /\ \A i \in 1..Len(pending) : Shaped(pending[i])

InboxTyped ==
  /\ steers \in Seq(Commands) /\ channel \in Seq(Commands)
  /\ \A i \in 1..Len(steers) : steers[i].kind = "steer"
  /\ pendingInterrupt.kind # "steer" /\ taken.kind # "steer"
  /\ turn \in Nat

Typed == LogTyped /\ PendingTyped /\ InboxTyped

Running == pc # "ended" /\ ~(pc = "record" /\ then = "ended")

\* The turn's response is still to come.
Asking ==
  \/ pc \in {"start", "boundary", "fold", "request", "call", "stream", "chunk"}
  \/ pc = "record" /\ then = "fold"

\* Nothing in the log tells of an end.
Clean ==
  \A i \in 1..Len(log) :
    /\ log[i].type \notin {"interrupt", "finished"}
    /\ log[i].type = "response" => log[i].ok

\* What a terminal record and an interrupt say of the log around them.
Marks ==
  /\ \A i \in 1..Len(log) : log[i].type = "finished" => i = Len(log) /\ log[i].turns = CompletedTurns
  /\ \A i \in 1..Len(log) : log[i].type = "interrupt" =>
       /\ \A j \in (i + 1)..Len(log) : log[j].type \in {"response", "finished"}
       /\ \A j \in 1..Len(log) : log[j].type = "response" /\ j < i => log[j].ok

Interrupts == \E i \in 1..Len(log) : log[i].type = "interrupt"

\* The last events are about to be appended.
Closing ==
  /\ Marks /\ (Interrupts => outcome = "interrupted")
  /\ \A i \in 1..Len(log) : log[i].type # "finished"
  /\ Len(pending) > 0
  /\ LET e == pending[Len(pending)] IN
       e.type = "finished" /\ e.turns = CompletedTurns /\ e.error = outcome
  /\ \A i \in 1..(Len(pending) - 1) :
       /\ pending[i].type \in {"interrupt", "response"}
       /\ pending[i].type = "response" => ~pending[i].ok
       /\ pending[i].type = "interrupt" => i = 1 /\ outcome = "interrupted" /\ Clean

Closed ==
  /\ Marks /\ (Interrupts => outcome = "interrupted")
  /\ Len(log) > 0 /\ log[Len(log)].type = "finished" /\ log[Len(log)].error = outcome

\* Before the next request only steers and instruction files are appended.
Joins(e, next) == e.type = "steer" \/ (e.type = "inject" /\ next = "next")

Ending ==
  /\ Running =>
       /\ Clean /\ outcome = "running"
       /\ pc = "record" => \A i \in 1..Len(pending) : Joins(pending[i], then)
       /\ IF pc = "start" THEN turn = 1 ELSE turn <= MaxTurns
       /\ CompletedTurns = IF Asking THEN turn - 1 ELSE turn
  /\ pc = "record" /\ then = "ended" =>
       outcome # "log" /\ IF pending = <<>> THEN Closed ELSE Closing
  /\ pc = "ended" => IF outcome = "log" THEN Marks ELSE Closed

\* A received interrupt never waits past the boundary.
Heeded ==
  pc \in {"fold", "request"} \/ (pc = "record" /\ then = "fold") => pendingInterrupt = NoCommand

EndInv == Typed /\ Ending /\ Heeded

---------------------------------------------------------------------------
(* The log grows by one event.                                             *)

LEMMA EmitAppends ==
  ASSUME IsSequence(log), NEW e, Emit(e), "type" \in DOMAIN e
  PROVE  /\ IsSequence(log') /\ Len(log) \in Nat /\ Len(log') = Len(log) + 1
         /\ \A i \in 1..Len(log) : log'[i] = log[i]
         /\ \A f \in DOMAIN e \ {"id"} : log'[Len(log) + 1][f] = e[f]
         /\ log'[Len(log) + 1].type = e.type
<1> DEFINE x == Stamped(e, "id", Len(log) + 1)
<1>1. \A f \in DOMAIN e \ {"id"} : x[f] = e[f] BY DEF Stamped
<1>2. x.type = e.type BY <1>1
<1> HIDE DEF x
<1>3. log' = Append(log, x) BY DEF Emit, x
<1>4. QED BY <1>1, <1>2, <1>3, AppendIsSequence

LEMMA OkResponsesAreFinite ==
  ASSUME IsSequence(log)
  PROVE  IsFiniteSet({i \in Of("response") : log[i].ok}) /\ CompletedTurns \in Nat
<1>1. Len(log) \in Nat /\ DOMAIN log = 1..Len(log) BY DEF IsSequence
<1>2. IsFiniteSet(1..Len(log)) BY <1>1, FS_Interval
<1>3. IsFiniteSet({i \in Of("response") : log[i].ok})
  BY <1>1, <1>2, FS_Subset DEF Of
<1>4. QED BY <1>3, FS_CardinalityType DEF CompletedTurns

\* Only an ok response counts.
LEMMA EmitCounts ==
  ASSUME IsSequence(log), NEW e, Emit(e), "type" \in DOMAIN e,
         e.type = "response" => "ok" \in DOMAIN e
  PROVE  CompletedTurns' = IF e.type = "response" /\ e.ok THEN CompletedTurns + 1
                           ELSE CompletedTurns
<1> DEFINE before == {i \in Of("response") : log[i].ok}
           after == {i \in Of("response")' : log'[i].ok}
           n == Len(log) + 1
<1>1. /\ IsSequence(log') /\ Len(log) \in Nat /\ Len(log') = n
      /\ \A i \in 1..Len(log) : log'[i] = log[i]
      /\ \A f \in DOMAIN e \ {"id"} : log'[n][f] = e[f]
      /\ log'[n].type = e.type
  BY EmitAppends
<1>2. DOMAIN log = 1..Len(log) /\ DOMAIN log' = 1..n BY <1>1 DEF IsSequence
<1>3. e.type = "response" => log'[n].ok = e.ok
  <2> SUFFICES ASSUME e.type = "response" PROVE log'[n].ok = e.ok OBVIOUS
  <2>1. "ok" \in DOMAIN e \ {"id"} OBVIOUS
  <2>2. QED BY <1>1, <2>1
<1>4. before = {i \in 1..Len(log) : log[i].type = "response" /\ log[i].ok}
  BY <1>2 DEF Of
<1>5. after = {i \in 1..n : log'[i].type = "response" /\ log'[i].ok}
  BY <1>2 DEF Of
<1>6. IsFiniteSet(before) /\ n \notin before BY <1>1, <1>4, OkResponsesAreFinite
<1> HIDE DEF before, after
<1>7. CASE e.type = "response" /\ e.ok
  <2>1. after = before \cup {n} BY <1>1, <1>3, <1>4, <1>5, <1>7
  <2>2. Cardinality(after) = Cardinality(before) + 1 BY <1>6, <2>1, FS_AddElement
  <2>3. QED BY <1>7, <2>2 DEF CompletedTurns, before, after
<1>8. CASE ~(e.type = "response" /\ e.ok)
  <2>1. after = before BY <1>1, <1>3, <1>4, <1>5, <1>8
  <2>2. QED BY <1>8, <2>1 DEF CompletedTurns, before, after
<1>9. QED BY <1>7, <1>8

---------------------------------------------------------------------------
(* What the steps of run() have in common.                                 *)

LEMMA CountStands == UNCHANGED log => CompletedTurns' = CompletedTurns
  BY DEF CompletedTurns, Of

\* The events that lead to the terminal record.
LastEvents(events, error) ==
  /\ IsSequence(events)
  /\ \A i \in 1..Len(events) :
       /\ Shaped(events[i]) /\ events[i].type \in {"interrupt", "response"}
       /\ events[i].type = "response" => ~events[i].ok
       /\ events[i].type = "interrupt" => i = 1 /\ error = "interrupted"

\* A return from run() that counts the turns right ends well.
LEMMA EndsWell ==
  ASSUME IsSequence(log'), Clean', NEW events, NEW completed, NEW error,
         End(events, completed, error), completed = CompletedTurns',
         LastEvents(events, error), error # "log"
  PROVE  Ending' /\ Heeded' /\ PendingTyped'
<1> DEFINE n == Len(events)
           f == Finished(completed, error)
<1>1. /\ pending' = Append(events, f)
      /\ then' = "ended" /\ pc' = "record" /\ outcome' = error
  BY DEF End, Plan
<1>2. /\ IsSequence(events) /\ n \in Nat /\ Len(pending') = n + 1 /\ IsSequence(pending')
      /\ \A i \in 1..n : pending'[i] = events[i]
      /\ pending'[n + 1] = f
  <2>1. IsSequence(events) BY DEF LastEvents
  <2> HIDE DEF f
  <2>2. QED BY <1>1, <2>1, AppendIsSequence
<1>3. /\ f.type = "finished" /\ f.turns = completed /\ f.error = error /\ Shaped(f)
  BY DEF Finished, Shaped
<1> HIDE DEF n, f
<1>4. Len(log') \in Nat BY DEF IsSequence
<1>5. Marks' /\ ~Interrupts' /\ \A i \in 1..Len(log') : log'[i].type # "finished"
  BY <1>4 DEF Clean, Marks, Interrupts
<1>6. \A i \in 1..n :
        /\ Shaped(events[i]) /\ events[i].type \in {"interrupt", "response"}
        /\ events[i].type = "response" => ~events[i].ok
        /\ events[i].type = "interrupt" => i = 1 /\ error = "interrupted"
  BY DEF LastEvents, n
<1>7. Closing'
  <2>1. Len(pending') > 0 /\ pending'[Len(pending')] = f BY <1>2
  <2>2. \A i \in 1..(Len(pending') - 1) :
          /\ pending'[i].type \in {"interrupt", "response"}
          /\ pending'[i].type = "response" => ~pending'[i].ok
          /\ pending'[i].type = "interrupt" => i = 1 /\ outcome' = "interrupted" /\ Clean'
    BY <1>1, <1>2, <1>6
  <2>3. QED BY <1>1, <1>3, <1>5, <2>1, <2>2 DEF Closing
<1>8. pending' # <<>> BY <1>2
<1>9. PendingTyped' BY <1>1, <1>2, <1>3, <1>6 DEF PendingTyped, Shaped
<1>10. Ending' BY <1>1, <1>7, <1>8 DEF Ending, Running
<1>11. Heeded' BY <1>1 DEF Heeded
<1>12. QED BY <1>9, <1>10, <1>11

\* Within a turn, where nothing is appended.
LEMMA GoesOn ==
  ASSUME EndInv, UNCHANGED <<log, pending, then, outcome, turn>>,
         pc \notin {"record", "ended"}, pc' \notin {"record", "ended"},
         Asking' <=> Asking, pc = "start" <=> pc' = "start",
         pc' \in {"fold", "request"} => pendingInterrupt' = NoCommand
  PROVE  Ending' /\ Heeded' /\ LogTyped' /\ PendingTyped'
<1>1. Running /\ Running' BY DEF Running
<1>2. CompletedTurns' = CompletedTurns BY CountStands
<1>3. Clean' BY <1>1 DEF EndInv, Ending, Clean
<1>4. Ending' BY <1>1, <1>2, <1>3 DEF EndInv, Ending
<1>5. Heeded' BY DEF Heeded
<1>6. QED BY <1>4, <1>5 DEF EndInv, Typed, LogTyped, PendingTyped, Shaped

\* An event that is neither a response nor the end of the run.
LEMMA CleanlySaid ==
  ASSUME EndInv, Clean, NEW e, Emit(e), "type" \in DOMAIN e,
         e.type \notin {"interrupt", "finished", "response"}
  PROVE  Clean' /\ CompletedTurns' = CompletedTurns /\ LogTyped'
<1>1. IsSequence(log) BY DEF EndInv, Typed, LogTyped
<1>2. CompletedTurns' = CompletedTurns BY <1>1, EmitCounts
<1>3. /\ Len(log) \in Nat /\ Len(log') = Len(log) + 1 /\ IsSequence(log')
      /\ \A i \in 1..Len(log) : log'[i] = log[i]
      /\ log'[Len(log) + 1].type = e.type
  BY <1>1, EmitAppends
<1>4. Clean' BY <1>3 DEF Clean
<1>5. QED BY <1>2, <1>3, <1>4 DEF LogTyped

LEMMA Speaks ==
  ASSUME EndInv, NEW e, Emit(e), "type" \in DOMAIN e,
         e.type \notin {"interrupt", "finished", "response"},
         UNCHANGED <<pending, then, outcome, turn>>,
         pc \notin {"record", "ended"}, pc' \notin {"record", "ended", "start"},
         Asking' <=> Asking, turn <= MaxTurns,
         pc' \in {"fold", "request"} => pendingInterrupt' = NoCommand
  PROVE  Ending' /\ Heeded' /\ LogTyped' /\ PendingTyped'
<1>1. Running /\ Running' BY DEF Running
<1>2. Clean BY <1>1 DEF EndInv, Ending
<1>3. Clean' /\ CompletedTurns' = CompletedTurns /\ LogTyped' BY <1>2, CleanlySaid
<1>4. Ending' BY <1>1, <1>3 DEF EndInv, Ending
<1>5. Heeded' BY DEF Heeded
<1>6. QED BY <1>3, <1>4, <1>5 DEF EndInv, Typed, PendingTyped, Shaped

\* Events that join the history.
LEMMA Plans ==
  ASSUME EndInv, NEW events, NEW next \in {"fold", "next"}, Plan(events, next),
         UNCHANGED <<log, outcome, turn>>, pc \notin {"start", "record", "ended"},
         Asking <=> next = "fold", IsSequence(events),
         \A i \in 1..Len(events) : Shaped(events[i]) /\ Joins(events[i], next),
         next = "fold" => pendingInterrupt' = NoCommand
  PROVE  Ending' /\ Heeded' /\ LogTyped' /\ PendingTyped'
<1>1. pending' = events /\ then' = next /\ pc' = "record" BY DEF Plan
<1>2. Running /\ Running' BY <1>1 DEF Running
<1>3. CompletedTurns' = CompletedTurns BY CountStands
<1>4. Clean' BY <1>2 DEF EndInv, Ending, Clean
<1>5. Asking' <=> Asking BY <1>1 DEF Asking
<1>6. Ending' BY <1>1, <1>2, <1>3, <1>4, <1>5 DEF EndInv, Ending
<1>7. Heeded' BY <1>1 DEF Heeded
<1>8. QED BY <1>1, <1>6, <1>7 DEF EndInv, Typed, LogTyped, PendingTyped, Shaped

LEMMA SteeringIsSteers ==
  ASSUME InboxTyped
  PROVE  /\ IsSequence(Steering(steers)) /\ Len(Steering(steers)) = Len(steers)
         /\ \A i \in 1..Len(steers) :
              /\ Steering(steers)[i].cmd = steers[i] /\ Steering(steers)[i].type = "steer"
              /\ Shaped(Steering(steers)[i])
         /\ steers = <<>> => Steering(steers) = <<>>
<1>1. Len(steers) \in Nat /\ DOMAIN steers = 1..Len(steers) BY DEF InboxTyped
<1>2. \A i \in 1..Len(steers) : steers[i] \in Commands /\ steers[i].kind = "steer"
  BY <1>1 DEF InboxTyped
<1>3. ASSUME NEW i \in 1..Len(steers)
      PROVE  /\ CommandEvent(steers[i]).cmd = steers[i]
             /\ CommandEvent(steers[i]).type = "steer"
             /\ Shaped(CommandEvent(steers[i]))
  BY <1>2 DEF CommandEvent, Shaped
<1>4. Steering(steers) = [i \in 1..Len(steers) |-> CommandEvent(steers[i])]
  BY <1>1 DEF Steering
<1>5. Len(Steering(steers)) = Len(steers) /\ IsSequence(Steering(steers))
  BY <1>1, <1>4 DEF IsSequence
<1>6. steers = <<>> => Steering(steers) = <<>> BY <1>1, <1>4
<1>7. QED BY <1>3, <1>4, <1>5, <1>6

---------------------------------------------------------------------------
(* The steps of the record loop.                                           *)

\* What is left of the events about to be appended.
LEMMA PendingShrinks ==
  ASSUME PendingTyped, pending # <<>>, pending' = Tail(pending), then' = then
  PROVE  /\ PendingTyped' /\ Len(pending) \in Nat /\ Len(pending) > 0
         /\ Len(pending') = Len(pending) - 1
         /\ \A i \in 1..(Len(pending) - 1) : pending'[i] = pending[i + 1]
         /\ Head(pending) = pending[1] /\ Shaped(pending[1])
<1>1. /\ Len(pending) \in Nat /\ Len(pending) > 0 /\ Len(pending') = Len(pending) - 1
      /\ \A i \in 1..(Len(pending) - 1) : pending'[i] = pending[i + 1]
      /\ Head(pending) = pending[1] /\ IsSequence(pending')
  BY TailIsSequence DEF PendingTyped
<1>2. \A i \in 1..Len(pending) : Shaped(pending[i]) BY DEF PendingTyped
<1>3. \A i \in 1..Len(pending') : Shaped(pending'[i])
  <2> SUFFICES ASSUME NEW i \in 1..Len(pending') PROVE Shaped(pending'[i]) OBVIOUS
  <2>1. i + 1 \in 1..Len(pending) /\ pending'[i] = pending[i + 1] BY <1>1
  <2>2. QED BY <1>2, <2>1
<1>4. Shaped(pending[1]) BY <1>1, <1>2
<1>5. PendingTyped' BY <1>1, <1>3 DEF PendingTyped, Shaped
<1>6. QED BY <1>1, <1>4, <1>5

LEMMA RecordPendingKeeps ==
  ASSUME EndInv, RecordPending
  PROVE  Ending' /\ Heeded' /\ LogTyped' /\ PendingTyped'
<1> DEFINE e == Head(pending)
           n == Len(log) + 1
           m == Len(pending)
<1>1. /\ pc = "record" /\ pc' = "record" /\ pending # <<>> /\ Emit(e)
      /\ pending' = Tail(pending) /\ then' = then /\ outcome' = outcome
      /\ turn' = turn /\ pendingInterrupt' = pendingInterrupt
  BY DEF RecordPending, inboxVars
<1>2. /\ PendingTyped' /\ m \in Nat /\ m > 0 /\ Len(pending') = m - 1
      /\ \A i \in 1..(m - 1) : pending'[i] = pending[i + 1]
      /\ e = pending[1] /\ Shaped(e)
  BY <1>1, PendingShrinks DEF EndInv, Typed
<1>3. /\ Len(log) \in Nat /\ Len(log') = n /\ LogTyped'
      /\ \A i \in 1..Len(log) : log'[i] = log[i]
      /\ \A f \in DOMAIN e \ {"id"} : log'[n][f] = e[f]
      /\ log'[n].type = e.type
  BY <1>1, <1>2, EmitAppends DEF EndInv, Typed, LogTyped, Shaped
<1>4. /\ e.type = "response" => log'[n].ok = e.ok
      /\ e.type = "finished" => log'[n].turns = e.turns /\ log'[n].error = e.error
  BY <1>2, <1>3 DEF Shaped
<1>5. e.type # "response" \/ ~e.ok => CompletedTurns' = CompletedTurns
  BY <1>1, <1>2, EmitCounts DEF EndInv, Typed, LogTyped, Shaped
<1>6. Heeded' BY <1>1 DEF EndInv, Heeded
<1> HIDE DEF e, n, m
<1>7. CASE then # "ended"
  <2>1. Running /\ Running' /\ (Asking' <=> Asking) BY <1>1, <1>7 DEF Running, Asking
  <2>2. e.type \in {"steer", "inject"} BY <1>1, <1>2, <2>1 DEF EndInv, Ending, Joins, m
  <2>3. Clean'
    <3>1. Clean BY <2>1 DEF EndInv, Ending
    <3>2. QED BY <1>3, <2>2, <3>1 DEF Clean, n
  <2>4. \A i \in 1..Len(pending') : Joins(pending'[i], then)
    BY <1>1, <1>2, <2>1 DEF EndInv, Ending, m
  <2>5. Ending' BY <1>1, <1>5, <1>7, <2>1, <2>2, <2>3, <2>4 DEF EndInv, Ending
  <2>6. QED BY <1>2, <1>3, <1>6, <2>5
<1>8. CASE then = "ended"
  <2>1. Closing /\ outcome # "log" BY <1>1, <1>8 DEF EndInv, Ending
  <2>2. ~Running' BY <1>1, <1>8 DEF Running
  <2>3. CASE m = 1
    <3>1. e.type = "finished" /\ e.turns = CompletedTurns /\ e.error = outcome
      BY <1>2, <2>1, <2>3 DEF Closing, m
    <3>2. CompletedTurns' = CompletedTurns BY <1>5, <3>1
    <3>3. pending' = <<>> BY <1>2, <2>3 DEF PendingTyped, IsSequence
    <3>4. Closed'
      <4>1. Marks' BY <1>3, <1>4, <2>1, <3>1, <3>2 DEF Marks, Closing, n
      <4>2. Interrupts' => Interrupts BY <1>3, <3>1 DEF Interrupts, n
      <4>3. QED BY <1>1, <1>3, <1>4, <2>1, <3>1, <4>1, <4>2 DEF Closed, Closing, n
    <3>5. Ending' BY <1>1, <2>1, <2>2, <3>3, <3>4, <1>8 DEF Ending
    <3>6. QED BY <1>2, <1>3, <1>6, <3>5
  <2>4. CASE m > 1
    <3>1. /\ e.type \in {"interrupt", "response"} /\ (e.type = "response" => ~e.ok)
          /\ e.type = "interrupt" => outcome = "interrupted" /\ Clean
      BY <1>2, <2>1, <2>4 DEF Closing, m
    <3>2. CompletedTurns' = CompletedTurns BY <1>5, <3>1
    <3>3. Marks'
      <4>1. CASE e.type = "interrupt"
        BY <1>3, <2>1, <3>1, <3>2, <4>1 DEF Marks, Closing, Clean, n
      <4>2. CASE e.type = "response"
        <5>1. ASSUME NEW i \in 1..Len(log'), log'[i].type = "finished" PROVE FALSE
          BY <1>3, <2>1, <4>2, <5>1 DEF Closing, n
        <5>2. ASSUME NEW i \in 1..Len(log'), log'[i].type = "interrupt"
              PROVE  /\ \A j \in (i + 1)..Len(log') : log'[j].type \in {"response", "finished"}
                     /\ \A j \in 1..Len(log') : log'[j].type = "response" /\ j < i => log'[j].ok
          <6>1. i \in 1..Len(log) /\ log[i].type = "interrupt" BY <1>3, <4>2, <5>2 DEF n
          <6>2. /\ \A j \in (i + 1)..Len(log) : log[j].type \in {"response", "finished"}
                /\ \A j \in 1..Len(log) : log[j].type = "response" /\ j < i => log[j].ok
            BY <2>1, <6>1 DEF Closing, Marks
          <6>3. QED BY <1>3, <4>2, <6>1, <6>2 DEF n
        <5>3. QED BY <5>1, <5>2 DEF Marks
      <4>3. QED BY <3>1, <4>1, <4>2
    <3>4. Interrupts' => outcome' = "interrupted"
      BY <1>1, <1>3, <2>1, <3>1 DEF Interrupts, Closing, n
    <3>5. \A i \in 1..Len(log') : log'[i].type # "finished"
      BY <1>3, <2>1, <3>1 DEF Closing, n
    <3>6. /\ Len(pending') > 0 /\ pending' # <<>> /\ Len(pending') = m - 1
          /\ pending'[Len(pending')] = pending[Len(pending)]
      BY <1>2, <2>4 DEF m
    <3>7. \A i \in 1..(Len(pending') - 1) :
            /\ pending'[i].type = "response" /\ ~pending'[i].ok
      <4> SUFFICES ASSUME NEW i \in 1..(Len(pending') - 1)
                   PROVE  pending'[i].type = "response" /\ ~pending'[i].ok
        OBVIOUS
      <4>1. i + 1 \in 1..(m - 1) /\ i \in 1..(m - 1) /\ i + 1 # 1 BY <1>2, <3>6
      <4>2. QED BY <1>2, <2>1, <4>1 DEF Closing, m
    <3>8. Closing' BY <1>1, <2>1, <3>2, <3>3, <3>4, <3>5, <3>6, <3>7 DEF Closing
    <3>9. Ending' BY <1>1, <1>8, <2>1, <2>2, <3>6, <3>8 DEF Ending
    <3>10. QED BY <1>2, <1>3, <1>6, <3>9
  <2>5. QED BY <1>2, <2>3, <2>4
<1>9. QED BY <1>7, <1>8

LEMMA HoldBackKeeps ==
  ASSUME EndInv, HoldBack
  PROVE  EndInv'
<1>1. /\ pc = "record" /\ pc' = pc /\ pending # <<>> /\ then = "fold" /\ then' = then
      /\ pending' = Tail(pending) /\ steers' = Append(steers, Head(pending).cmd)
      /\ UNCHANGED <<log, outcome, turn, channel, pendingInterrupt, taken>>
  BY DEF HoldBack, Withheld, clientVars
<1>2. /\ PendingTyped' /\ Len(pending) \in Nat /\ Len(pending) > 0
      /\ Len(pending') = Len(pending) - 1
      /\ \A i \in 1..(Len(pending) - 1) : pending'[i] = pending[i + 1]
      /\ Head(pending) = pending[1] /\ Shaped(pending[1])
  BY <1>1, PendingShrinks DEF EndInv, Typed
<1>3. Running /\ Running' /\ (Asking' <=> Asking) BY <1>1 DEF Running, Asking
<1>4. CompletedTurns' = CompletedTurns BY <1>1, CountStands
<1>5. Clean' BY <1>1, <1>3 DEF EndInv, Ending, Clean
<1>6. \A i \in 1..Len(pending') : Joins(pending'[i], then)
  BY <1>1, <1>2, <1>3 DEF EndInv, Ending
<1>7. Ending' BY <1>1, <1>3, <1>4, <1>5, <1>6 DEF EndInv, Ending
<1>8. Heeded' BY <1>1 DEF EndInv, Heeded
<1>9. InboxTyped'
  <2>1. pending[1].type = "steer" BY <1>1, <1>2, <1>3 DEF EndInv, Ending, Joins
  <2>2. pending[1].cmd \in Commands /\ pending[1].cmd.kind = "steer"
    BY <1>2, <2>1 DEF Shaped
  <2>3. QED BY <1>1, <1>2, <2>2 DEF EndInv, Typed, InboxTyped
<1>10. QED BY <1>1, <1>2, <1>7, <1>8, <1>9 DEF EndInv, Typed, LogTyped

LEMMA NextTurnKeeps ==
  ASSUME EndInv, NEW t \in Nat, NextTurn(t), IsSequence(log'), Clean',
         CompletedTurns' = t - 1, t - 1 <= MaxTurns, outcome = "running"
  PROVE  Ending' /\ Heeded' /\ PendingTyped' /\ turn' \in Nat
<1>1. CASE t <= MaxTurns
  <2>1. pc' = "boundary" /\ turn' = t /\ UNCHANGED <<pending, then, outcome>>
    BY <1>1 DEF NextTurn, WithinLimit, recordVars
  <2>2. Running' /\ Asking' BY <2>1 DEF Running, Asking
  <2>3. Ending' BY <1>1, <2>1, <2>2 DEF Ending
  <2>4. QED BY <2>1, <2>3 DEF Heeded, EndInv, Typed, PendingTyped, Shaped
<1>2. CASE ~(t <= MaxTurns)
  <2>1. End(<<>>, MaxTurns, "limit") /\ turn' = turn BY <1>2 DEF NextTurn, WithinLimit
  <2>2. MaxTurns = CompletedTurns' BY <1>2, AgentLoopAssumption
  <2>3. LastEvents(<<>>, "limit") BY DEF LastEvents, IsSequence
  <2>4. QED BY <2>1, <2>2, <2>3, EndsWell DEF EndInv, Typed, InboxTyped
<1>3. QED BY <1>1, <1>2

LEMMA RecordDoneKeeps ==
  ASSUME EndInv, RecordDone
  PROVE  EndInv'
<1>1. /\ pc = "record" /\ pending = <<>>
      /\ UNCHANGED <<log, steers, channel, pendingInterrupt, taken>>
  BY DEF RecordDone, inboxVars, clientVars
<1>2. turn \in Nat /\ then \in {"fold", "next", "ended"} /\ IsSequence(log)
  BY DEF EndInv, Typed, InboxTyped, PendingTyped, LogTyped
<1>3. CompletedTurns' = CompletedTurns BY <1>1, CountStands
<1>4. CASE then = "next"
  <2>1. /\ Clean /\ outcome = "running" /\ turn <= MaxTurns /\ CompletedTurns = turn
    BY <1>1, <1>4 DEF EndInv, Ending, Running, Asking
  <2>2. NextTurn(turn + 1) BY <1>4 DEF RecordDone
  <2>3. Clean' BY <1>1, <2>1 DEF Clean
  <2>4. Ending' /\ Heeded' /\ PendingTyped' /\ turn' \in Nat
    BY <1>1, <1>2, <1>3, <2>1, <2>2, <2>3, NextTurnKeeps
  <2>5. QED BY <1>1, <2>4 DEF EndInv, Typed, LogTyped, InboxTyped
<1>5. CASE then # "next"
  <2>1. pc' = then /\ UNCHANGED <<turn, pending, then, outcome>>
    BY <1>5 DEF RecordDone, recordVars
  <2>2. Typed' BY <1>1, <2>1 DEF EndInv, Typed, LogTyped, PendingTyped, InboxTyped, Shaped
  <2>3. CASE then = "fold"
    <3>1. Running /\ Running' /\ Asking /\ Asking' BY <1>1, <2>1, <2>3 DEF Running, Asking
    <3>2. Clean' BY <1>1, <3>1 DEF EndInv, Ending, Clean
    <3>3. Ending' BY <1>1, <1>3, <2>1, <2>3, <3>1, <3>2 DEF EndInv, Ending
    <3>4. Heeded' BY <1>1, <2>1, <2>3 DEF EndInv, Heeded
    <3>5. QED BY <2>2, <3>3, <3>4 DEF EndInv
  <2>4. CASE then = "ended"
    <3>1. Closed /\ outcome # "log" BY <1>1, <2>4 DEF EndInv, Ending
    <3>2. Closed' BY <1>1, <1>3, <2>1, <3>1 DEF Closed, Marks, Interrupts
    <3>3. Ending' BY <2>1, <2>4, <3>1, <3>2 DEF Ending, Running
    <3>4. Heeded' BY <2>1, <2>4 DEF Heeded
    <3>5. QED BY <2>2, <3>3, <3>4 DEF EndInv
  <2>5. QED BY <1>2, <1>5, <2>3, <2>4
<1>6. QED BY <1>4, <1>5

LEMMA AppendFailsKeeps ==
  ASSUME EndInv, AppendFails
  PROVE  EndInv'
<1>1. /\ MustAppend /\ pc' = "ended" /\ outcome' = "log"
      /\ UNCHANGED <<log, turn, pending, then, steers, channel, pendingInterrupt, taken>>
  BY DEF AppendFails, inboxVars, clientVars
<1>2. Typed' BY <1>1 DEF EndInv, Typed, LogTyped, PendingTyped, InboxTyped, Shaped
<1>3. Marks
  <2>1. pc # "ended" /\ (pc = "record" => pending # <<>>) BY <1>1 DEF MustAppend
  <2>2. CASE Running
    <3>1. Clean BY <2>2 DEF EndInv, Ending
    <3>2. Len(log) \in Nat BY DEF EndInv, Typed, LogTyped, IsSequence
    <3>3. QED BY <3>1, <3>2 DEF Clean, Marks
  <2>3. CASE ~Running
    BY <2>1, <2>3 DEF EndInv, Ending, Running, Closing
  <2>4. QED BY <2>2, <2>3
<1>4. CompletedTurns' = CompletedTurns BY <1>1, CountStands
<1>5. Marks' BY <1>1, <1>3, <1>4 DEF Marks
<1>6. Ending' BY <1>1, <1>5 DEF Ending, Running
<1>7. Heeded' BY <1>1 DEF Heeded
<1>8. QED BY <1>2, <1>6, <1>7 DEF EndInv

---------------------------------------------------------------------------
(* The other steps.                                                        *)

LEMMA StartKeeps ==
  ASSUME EndInv, Start
  PROVE  EndInv'
<1> DEFINE e == [type |-> "start", base |-> messages]
<1>1. /\ pc = "start" /\ Emit(e) /\ NextTurn(turn)
      /\ UNCHANGED <<steers, channel, pendingInterrupt, taken>>
  BY DEF Start, inboxVars, clientVars
<1>2. Clean /\ outcome = "running" /\ CompletedTurns = turn - 1
  BY <1>1 DEF EndInv, Ending, Running, Asking
<1>3. "type" \in DOMAIN e /\ e.type = "start" OBVIOUS
<1> HIDE DEF e
<1>4. Clean' /\ CompletedTurns' = turn - 1 /\ LogTyped' BY <1>1, <1>2, <1>3, CleanlySaid
<1>5. turn \in Nat BY DEF EndInv, Typed, InboxTyped
<1>6. turn - 1 <= MaxTurns
  BY <1>1, AgentLoopAssumption DEF EndInv, Ending, Running
<1>7. Ending' /\ Heeded' /\ PendingTyped' /\ turn' \in Nat
  BY <1>1, <1>2, <1>4, <1>5, <1>6, NextTurnKeeps DEF LogTyped
<1>8. QED BY <1>1, <1>4, <1>7 DEF EndInv, Typed, InboxTyped

LEMMA PollKeeps ==
  ASSUME EndInv, PollOne
  PROVE  EndInv'
<1> DEFINE c == Head(channel)
<1>1. /\ pc \in {"boundary", "chunk", "finish", "dispatch"} /\ channel # <<>>
      /\ channel' = Tail(channel)
      /\ UNCHANGED <<pc, log, pending, then, outcome, turn, taken>>
      /\ steers' \in {steers, Append(steers, c)}
      /\ steers' = steers \/ c.kind = "steer"
      /\ pendingInterrupt' = pendingInterrupt \/ (pendingInterrupt' = c /\ c.kind = "interrupt")
  BY DEF PollOne, inboxVars, recordVars, Buffered
<1>2. c \in Commands /\ Tail(channel) \in Seq(Commands)
  BY <1>1 DEF EndInv, Typed, InboxTyped
<1> HIDE DEF c
<1>3. InboxTyped'
  <2>1. steers \in Seq(Commands) /\ \A i \in 1..Len(steers) : steers[i].kind = "steer"
    BY DEF EndInv, Typed, InboxTyped
  <2>2. steers' \in Seq(Commands) /\ \A i \in 1..Len(steers') : steers'[i].kind = "steer"
    <3>1. CASE steers' = steers BY <2>1, <3>1
    <3>2. CASE steers' = Append(steers, c) /\ c.kind = "steer"
      <4>1. /\ Len(steers') = Len(steers) + 1 /\ Len(steers) \in Nat /\ steers' \in Seq(Commands)
            /\ \A i \in 1..Len(steers) : steers'[i] = steers[i]
            /\ steers'[Len(steers) + 1] = c
        BY <1>2, <2>1, <3>2
      <4>2. QED BY <2>1, <3>2, <4>1
    <3>3. QED BY <1>1, <3>1, <3>2
  <2>3. QED BY <1>1, <1>2, <2>2 DEF EndInv, Typed, InboxTyped
<1>4. Asking' <=> Asking BY <1>1 DEF Asking
<1>5. Ending' /\ Heeded' /\ LogTyped' /\ PendingTyped' BY <1>1, <1>4, GoesOn
<1>6. QED BY <1>3, <1>5 DEF EndInv, Typed

LEMMA SteersStand ==
  ASSUME InboxTyped, steers' = steers \/ steers' = <<>>
  PROVE  steers' \in Seq(Commands) /\ \A i \in 1..Len(steers') : steers'[i].kind = "steer"
<1>1. CASE steers' = steers BY <1>1 DEF InboxTyped
<1>2. CASE steers' = <<>> BY <1>2
<1>3. QED BY <1>1, <1>2

\* The steps that end the run.
LEMMA EndsKeep ==
  ASSUME EndInv,
         \/ BoundaryInterrupt \/ CallFails \/ StreamFails \/ EmptyTurn
         \/ ChunkPolled /\ Interrupted
         \/ FinishLine /\ (Interrupted \/ ~ContinuesRun)
         \/ ReturnBatch /\ BatchStopped
  PROVE  EndInv'
<1> DEFINE interrupt == CommandEvent(pendingInterrupt)
           cut == Response(FALSE)
<1>1. /\ UNCHANGED <<log, turn, channel, taken>>
      /\ pc \notin {"start", "record", "ended"}
      /\ steers' = steers \/ steers' = <<>>
      /\ pendingInterrupt' \in {pendingInterrupt, NoCommand}
  BY DEF BoundaryInterrupt, CallFails, StreamFails, EmptyTurn, ChunkPolled, FinishLine, ReturnBatch,
         TakeInterrupt, clientVars, inboxVars
<1>2. Running BY <1>1 DEF Running
<1>3. /\ Clean /\ turn \in Nat /\ IsSequence(log)
      /\ CompletedTurns = IF Asking THEN turn - 1 ELSE turn
  BY <1>2 DEF EndInv, Ending, Typed, InboxTyped, LogTyped
<1>4. Clean' /\ IsSequence(log') /\ CompletedTurns' = CompletedTurns
  BY <1>1, <1>3, CountStands DEF Clean
<1>5. InboxTyped' /\ LogTyped'
  <2>1. steers' \in Seq(Commands) /\ \A i \in 1..Len(steers') : steers'[i].kind = "steer"
    BY <1>1, SteersStand DEF EndInv, Typed
  <2>2. NoCommand.kind # "steer" BY DEF NoCommand
  <2>3. QED BY <1>1, <2>1, <2>2 DEF EndInv, Typed, InboxTyped, LogTyped
<1>6. /\ interrupt.type = "interrupt" /\ Shaped(interrupt)
      /\ cut.type = "response" /\ Shaped(cut) /\ ~cut.ok
  BY DEF EndInv, Typed, InboxTyped, CommandEvent, Response, Shaped
<1>7. CommandEvent(taken).type = "interrupt" /\ Shaped(CommandEvent(taken))
  BY DEF EndInv, Typed, InboxTyped, CommandEvent, Shaped
<1> HIDE DEF interrupt, cut
<1>8. /\ \A error : LastEvents(<<>>, error) /\ LastEvents(<<cut>>, error)
      /\ LastEvents(<<interrupt>>, "interrupted") /\ LastEvents(<<interrupt, cut>>, "interrupted")
      /\ LastEvents(<<CommandEvent(taken)>>, "interrupted")
  BY <1>6, <1>7 DEF LastEvents, IsSequence
<1>9. PICK events, error :
        /\ End(events, CompletedTurns, error) /\ LastEvents(events, error) /\ error # "log"
  <2>1. CASE BoundaryInterrupt
    <3>1. End(<<interrupt>>, turn - 1, "interrupted") /\ Asking
      BY <2>1 DEF BoundaryInterrupt, Asking, interrupt
    <3>2. QED BY <1>3, <1>8, <3>1
  <2>2. CASE CallFails
    <3>1. End(<<>>, turn - 1, "provider") /\ Asking BY <2>2 DEF CallFails, Asking
    <3>2. QED BY <1>3, <1>8, <3>1
  <2>3. CASE StreamFails
    <3>1. End(<<cut>>, turn - 1, "provider") /\ Asking BY <2>3 DEF StreamFails, Asking, cut
    <3>2. QED BY <1>3, <1>8, <3>1
  <2>4. CASE EmptyTurn
    <3>1. End(<<cut>>, turn - 1, "empty") /\ Asking
      BY <2>4 DEF EmptyTurn, CompletedBeforeEmpty, Asking, cut
    <3>2. QED BY <1>3, <1>8, <3>1
  <2>5. CASE ChunkPolled /\ Interrupted
    <3>1. End(<<interrupt, cut>>, turn - 1, "interrupted") /\ Asking
      BY <2>5 DEF ChunkPolled, CutOff, Asking, interrupt, cut
    <3>2. QED BY <1>3, <1>8, <3>1
  <2>6. CASE FinishLine /\ (Interrupted \/ ~ContinuesRun)
    <3>1. ~Asking BY <2>6 DEF FinishLine, Asking
    <3>2. End(<<>>, turn, "ok")
      BY <2>6, SteeringIsSteers DEF FinishLine, ContinuesRun, EndInv, Typed
    <3>3. QED BY <1>3, <1>8, <3>1, <3>2
  <2>7. CASE ReturnBatch /\ BatchStopped
    <3>1. End(<<CommandEvent(taken)>>, turn, "interrupted") /\ ~Asking
      BY <2>7 DEF ReturnBatch, Asking
    <3>2. QED BY <1>3, <1>8, <3>1
  <2>8. QED BY <2>1, <2>2, <2>3, <2>4, <2>5, <2>6, <2>7
<1>10. Ending' /\ Heeded' /\ PendingTyped' BY <1>4, <1>9, EndsWell
<1>11. QED BY <1>5, <1>10 DEF EndInv, Typed

\* The steps that plan what joins the history.
LEMMA PlansKeep ==
  ASSUME EndInv,
         BoundarySteers \/ (FinishLine /\ ~Interrupted /\ ContinuesRun)
         \/ (ReturnBatch /\ ~BatchStopped)
  PROVE  EndInv'
<1>1. /\ UNCHANGED <<log, outcome, turn, channel, taken, pendingInterrupt>>
      /\ pc \notin {"start", "record", "ended"}
      /\ steers' = steers \/ steers' = <<>>
  BY DEF BoundarySteers, FinishLine, ReturnBatch, clientVars, inboxVars
<1>2. InboxTyped'
  <2>1. steers' \in Seq(Commands) /\ \A i \in 1..Len(steers') : steers'[i].kind = "steer"
    BY <1>1, SteersStand DEF EndInv, Typed
  <2>2. QED BY <1>1, <2>1 DEF EndInv, Typed, InboxTyped
<1>3. /\ IsSequence(Steering(steers))
      /\ \A i \in 1..Len(Steering(steers)) :
           Shaped(Steering(steers)[i]) /\ Steering(steers)[i].type = "steer"
  BY SteeringIsSteers DEF EndInv, Typed
<1>4. CASE BoundarySteers
  <2>1. Plan(Steering(steers), "fold") /\ Asking /\ pendingInterrupt' = NoCommand
    BY <1>4 DEF BoundarySteers, Asking, Interrupted
  <2>2. QED BY <1>1, <1>2, <1>3, <2>1, Plans DEF EndInv, Typed, Joins
<1>5. CASE FinishLine /\ ~Interrupted /\ ContinuesRun
  <2>1. Plan(Steering(steers), "next") /\ ~Asking BY <1>5 DEF FinishLine, Asking
  <2>2. QED BY <1>1, <1>2, <1>3, <2>1, Plans DEF EndInv, Typed, Joins
<1>6. CASE ReturnBatch /\ ~BatchStopped
  <2>1. PICK k \in 0..MaxNested : Plan([i \in 1..k |-> InjectEvent(i)], "next")
    BY <1>6 DEF ReturnBatch
  <2> DEFINE files == [i \in 1..k |-> InjectEvent(i)]
  <2>2. k \in Nat BY AgentLoopAssumption
  <2>3. Len(files) = k /\ IsSequence(files) BY <2>2 DEF IsSequence
  <2>4. \A i \in 1..k : Shaped(files[i]) /\ files[i].type = "inject" BY DEF InjectEvent, Shaped
  <2>5. ~Asking BY <1>6 DEF ReturnBatch, Asking
  <2> HIDE DEF files
  <2>6. Plan(files, "next") BY <2>1 DEF files
  <2>7. QED BY <1>1, <1>2, <2>3, <2>4, <2>5, <2>6, Plans DEF EndInv, Typed, Joins
<1>7. QED BY <1>4, <1>5, <1>6

LEMMA RespondKeeps ==
  ASSUME EndInv, Respond
  PROVE  EndInv'
<1> DEFINE e == Response(TRUE)
<1>1. /\ pc = "stream" /\ pc' \in {"dispatch", "finish"} /\ Emit(e)
      /\ UNCHANGED <<turn, pending, then, outcome, steers, channel, pendingInterrupt>>
      /\ taken' \in {taken, NoCommand}
  BY DEF Respond, recordVars, clientVars, inboxVars
<1>2. e.type = "response" /\ e.ok = TRUE /\ Shaped(e) BY DEF Response, Shaped
<1> HIDE DEF e
<1>3. Running /\ Running' /\ Asking /\ ~Asking' BY <1>1 DEF Running, Asking
<1>4. /\ Clean /\ CompletedTurns = turn - 1 /\ turn \in Nat /\ IsSequence(log)
      /\ turn <= MaxTurns /\ outcome = "running"
  BY <1>1, <1>3 DEF EndInv, Ending, Typed, InboxTyped, LogTyped
<1>5. CompletedTurns' = turn BY <1>1, <1>2, <1>4, EmitCounts DEF Shaped
<1>6. /\ IsSequence(log') /\ Len(log) \in Nat /\ Len(log') = Len(log) + 1
      /\ \A i \in 1..Len(log) : log'[i] = log[i]
      /\ log'[Len(log) + 1].type = "response" /\ log'[Len(log) + 1].ok = TRUE
  BY <1>1, <1>2, <1>4, EmitAppends DEF Shaped
<1>7. Clean' BY <1>4, <1>6 DEF Clean
<1>8. Ending' BY <1>1, <1>3, <1>4, <1>5, <1>7 DEF Ending
<1>9. Heeded' BY <1>1 DEF Heeded
<1>10. InboxTyped' BY <1>1 DEF EndInv, Typed, InboxTyped, NoCommand
<1>11. QED BY <1>1, <1>6, <1>8, <1>9, <1>10 DEF EndInv, Typed, LogTyped, PendingTyped, Shaped

\* The steps that append one event of another kind.
LEMMA SpeaksKeep ==
  ASSUME EndInv,
         FoldResults \/ Request \/ Decide \/ \E p \in Position : OpenCall(p) \/ CloseCall(p)
  PROVE  EndInv'
<1>1. /\ pc \in {"fold", "request", "dispatch"} /\ pc' \notin {"record", "ended", "start", "fold"}
      /\ (pc = "dispatch" <=> pc' = "dispatch") /\ pc' \in {"request", "call", "dispatch"}
      /\ pc' = "request" => pc = "fold"
      /\ UNCHANGED <<turn, pending, then, outcome, steers, channel, pendingInterrupt, taken>>
  BY DEF FoldResults, Request, Decide, OpenCall, CloseCall, recordVars, clientVars, inboxVars
<1>2. PICK e : Emit(e) /\ "type" \in DOMAIN e /\ e.type \notin {"interrupt", "finished", "response"}
  <2> DEFINE Other(e) == "type" \in DOMAIN e /\ e.type \notin {"interrupt", "finished", "response"}
  <2> SUFFICES \E e : Emit(e) /\ Other(e) OBVIOUS
  <2>1. CASE FoldResults
    <3> DEFINE e == [type |-> "fold", turn |-> turn, refs |-> Candidates]
    <3>1. Emit(e) BY <2>1 DEF FoldResults
    <3>2. Other(e) OBVIOUS
    <3>3. QED BY <3>1, <3>2
  <2>2. CASE Request
    <3> DEFINE e == [type |-> "request", turn |-> turn]
    <3>1. Emit(e) BY <2>2 DEF Request
    <3>2. Other(e) OBVIOUS
    <3>3. QED BY <3>1, <3>2
  <2>3. CASE Decide
    <3> DEFINE e == [type |-> "resolve"]
    <3>1. Emit(e) BY <2>3 DEF Decide
    <3>2. Other(e) OBVIOUS
    <3>3. QED BY <3>1, <3>2
  <2>4. ASSUME NEW p \in Position, OpenCall(p) PROVE \E e : Emit(e) /\ Other(e)
    <3> DEFINE e == [type |-> "call", call |-> <<turn, p>>]
    <3>1. Emit(e) BY <2>4 DEF OpenCall
    <3>2. Other(e) OBVIOUS
    <3>3. QED BY <3>1, <3>2
  <2>5. ASSUME NEW p \in Position, CloseCall(p) PROVE \E e : Emit(e) /\ Other(e)
    <3> DEFINE e == [type |-> "result", turn |-> turn, call |-> <<turn, p>>,
                     gated |-> p \in Gated, msg |-> ToolMessage(p)]
    <3>1. Emit(e) BY <2>5 DEF CloseCall
    <3>2. Other(e) OBVIOUS
    <3>3. QED BY <3>1, <3>2
  <2> HIDE DEF Other
  <2>6. QED BY <2>1, <2>2, <2>3, <2>4, <2>5
<1>3. Running /\ (Asking' <=> Asking) BY <1>1 DEF Running, Asking
<1>4. turn <= MaxTurns BY <1>1, <1>3 DEF EndInv, Ending
<1>5. pc' \in {"fold", "request"} => pendingInterrupt' = NoCommand
  BY <1>1 DEF EndInv, Heeded
<1>6. Ending' /\ Heeded' /\ LogTyped' /\ PendingTyped'
  BY <1>1, <1>2, <1>3, <1>4, <1>5, Speaks
<1>7. InboxTyped' BY <1>1 DEF EndInv, Typed, InboxTyped
<1>8. QED BY <1>6, <1>7 DEF EndInv, Typed

\* The steps that append nothing.
LEMMA QuietStepsKeep ==
  ASSUME EndInv,
         \/ FoldNothing \/ StreamOpens \/ Chunk \/ StopBatch \/ (ChunkPolled /\ ~Interrupted)
  PROVE  EndInv'
<1>1. /\ UNCHANGED <<log, pending, then, outcome, turn, steers, channel>>
      /\ pc \in {"fold", "call", "stream", "chunk", "dispatch"}
      /\ pc' \in {"request", "stream", "chunk", "dispatch"}
      /\ pc = "dispatch" <=> pc' = "dispatch"
      /\ pc' = "request" => pc = "fold" /\ pendingInterrupt' = pendingInterrupt
      /\ pendingInterrupt' \in {pendingInterrupt, NoCommand}
      /\ taken' \in {taken, pendingInterrupt}
  BY DEF FoldNothing, StreamOpens, Chunk, StopBatch, ChunkPolled, TakeInterrupt,
         recordVars, clientVars, inboxVars
<1>2. Asking' <=> Asking BY <1>1 DEF Asking
<1>3. pc' \in {"fold", "request"} => pendingInterrupt' = NoCommand BY <1>1 DEF EndInv, Heeded
<1>4. Ending' /\ Heeded' /\ LogTyped' /\ PendingTyped' BY <1>1, <1>2, <1>3, GoesOn
<1>5. InboxTyped' BY <1>1 DEF EndInv, Typed, InboxTyped, NoCommand
<1>6. QED BY <1>4, <1>5 DEF EndInv, Typed

LEMMA StandsStill ==
  ASSUME EndInv,
         UNCHANGED <<pc, turn, log, recordVars, steers, pendingInterrupt, taken>>,
         channel' \in Seq(Commands)
  PROVE  EndInv'
<1>1. UNCHANGED <<pc, turn, log, pending, then, outcome, steers, pendingInterrupt, taken>>
  BY DEF recordVars
<1>2. CompletedTurns' = CompletedTurns BY <1>1, CountStands
<1>3. Typed' BY <1>1 DEF EndInv, Typed, LogTyped, PendingTyped, InboxTyped, Shaped
<1>4. Running' = Running /\ Asking' = Asking /\ Clean' = Clean /\ Closed' = Closed
      /\ Closing' = Closing /\ Marks' = Marks
  BY <1>1, <1>2 DEF Running, Asking, Clean, Closed, Closing, Marks, Interrupts
<1>5. Ending' BY <1>1, <1>2, <1>4 DEF EndInv, Ending
<1>6. Heeded' BY <1>1 DEF EndInv, Heeded
<1>7. QED BY <1>3, <1>5, <1>6 DEF EndInv

LEMMA EndInvInit == Init => EndInv
<1> SUFFICES ASSUME Init PROVE EndInv OBVIOUS
<1>1. log = <<>> /\ pending = <<>> /\ pc = "start" /\ turn = 1 /\ outcome = "running"
      /\ then = "ended" /\ steers = <<>> /\ channel = <<>>
      /\ pendingInterrupt = NoCommand /\ taken = NoCommand
  BY DEF Init
<1>2. Typed
  BY <1>1 DEF Typed, LogTyped, PendingTyped, InboxTyped, IsSequence, NoCommand
<1>3. CompletedTurns = 0
  <2>1. {i \in Of("response") : log[i].ok} = {} BY <1>1 DEF Of
  <2>2. QED BY <2>1, FS_EmptySet DEF CompletedTurns
<1>4. Running /\ Asking /\ Clean BY <1>1 DEF Running, Asking, Clean
<1>5. Ending BY <1>1, <1>3, <1>4 DEF Ending
<1>6. Heeded BY <1>1 DEF Heeded
<1>7. QED BY <1>2, <1>5, <1>6 DEF EndInv

LEMMA EndInvStep == EndInv /\ [Next]_vars => EndInv'
<1> SUFFICES ASSUME EndInv, [Next]_vars PROVE EndInv' OBVIOUS
<1>1. ASSUME NEW c \in Commands, Send(c) PROVE EndInv'
  <2>1. channel' \in Seq(Commands)
    BY <1>1 DEF Send, EndInv, Typed, InboxTyped
  <2>2. QED BY <1>1, <2>1, StandsStill DEF Send, inboxVars
<1>2. CASE PollOne BY <1>2, PollKeeps
<1>3. CASE Start BY <1>3, StartKeeps
<1>4. CASE BoundaryInterrupt \/ CallFails \/ StreamFails \/ EmptyTurn BY <1>4, EndsKeep
<1>5. CASE BoundarySteers BY <1>5, PlansKeep
<1>6. CASE FoldResults \/ Request \/ Decide \/ \E p \in Position : OpenCall(p) \/ CloseCall(p)
  BY <1>6, SpeaksKeep
<1>7. CASE FoldNothing \/ StreamOpens \/ Chunk \/ StopBatch BY <1>7, QuietStepsKeep
<1>8. CASE ChunkPolled BY <1>8, QuietStepsKeep, EndsKeep
<1>9. CASE Respond BY <1>9, RespondKeeps
<1>10. CASE FinishLine BY <1>10, EndsKeep, PlansKeep
<1>11. CASE ReturnBatch BY <1>11, EndsKeep, PlansKeep
<1>12. CASE HoldBack BY <1>12, HoldBackKeeps
<1>13. CASE RecordPending
  <2>1. InboxTyped' BY <1>13 DEF RecordPending, EndInv, Typed, InboxTyped, inboxVars, clientVars
  <2>2. QED BY <1>13, <2>1, RecordPendingKeeps DEF EndInv, Typed
<1>14. CASE RecordDone BY <1>14, RecordDoneKeeps
<1>15. CASE AppendFails BY <1>15, AppendFailsKeeps
<1>16. CASE UNCHANGED vars
  BY <1>16, StandsStill DEF vars, clientVars, inboxVars, EndInv, Typed, InboxTyped
<1>17. QED
  BY <1>1, <1>2, <1>3, <1>4, <1>5, <1>6, <1>7, <1>8, <1>9, <1>10, <1>11, <1>12, <1>13, <1>14,
     <1>15, <1>16
  DEF Next, Returned

LEMMA EndInvTellsEnding == EndInv => EndingIsRecorded
<1> SUFFICES ASSUME EndInv PROVE EndingIsRecorded OBVIOUS
<1>1. Len(log) \in Nat /\ DOMAIN log = 1..Len(log)
  BY DEF EndInv, Typed, LogTyped, IsSequence
<1>2. Marks
  <2>1. CASE Running
    <3>1. Clean BY <2>1 DEF EndInv, Ending
    <3>2. QED BY <1>1, <3>1 DEF Clean, Marks
  <2>2. CASE ~Running
    BY <2>2 DEF EndInv, Ending, Running, Closed, Closing
  <2>3. QED BY <2>1, <2>2
<1>3. Ended => Closed BY DEF Ended, EndInv, Ending
<1>4. OneTerminalRecord
  <2>1. \A i \in Of("finished") : i = Len(log) /\ log[i].turns = CompletedTurns
    BY <1>1, <1>2 DEF Marks, Of
  <2>2. ASSUME Ended PROVE Of("finished") # {} /\ Last(log).error = outcome
    <3>1. Closed BY <1>3, <2>2
    <3>2. Len(log) \in Of("finished") BY <1>1, <3>1 DEF Closed, Of
    <3>3. QED BY <3>1, <3>2 DEF Closed, Last
  <2>3. QED BY <2>1, <2>2 DEF OneTerminalRecord
<1>5. InterruptEndsRun
  <2>1. ASSUME NEW i \in Of("interrupt")
        PROVE  /\ \A j \in (i + 1)..Len(log) : log[j].type \in {"response", "finished"}
               /\ \A j \in Of("response") : j < i => log[j].ok
               /\ Ended => outcome = "interrupted"
    <3>1. i \in 1..Len(log) /\ log[i].type = "interrupt" BY <1>1 DEF Of
    <3>2. /\ \A j \in (i + 1)..Len(log) : log[j].type \in {"response", "finished"}
          /\ \A j \in 1..Len(log) : log[j].type = "response" /\ j < i => log[j].ok
      BY <1>2, <3>1 DEF Marks
    <3>3. Ended => outcome = "interrupted" BY <1>3, <3>1 DEF Closed, Interrupts
    <3>4. QED BY <1>1, <3>2, <3>3 DEF Of
  <2>2. pc \in {"fold", "request"} => pendingInterrupt = NoCommand BY DEF EndInv, Heeded
  <2>3. QED BY <2>1, <2>2 DEF InterruptEndsRun
<1>6. QED BY <1>4, <1>5 DEF EndingIsRecorded

(* However a run ends, short of a failing log, its log ends in one         *)
(* terminal record that tells how and counts the turns completed, and      *)
(* nothing but the truncated response follows a recorded interrupt         *)
(* (mod.rs 216-384, events.rs 78-97, inbox.rs 96-108).                     *)
THEOREM RunsEndRecorded == Spec => []EndingIsRecorded
<1>1. Spec => []EndInv BY EndInvInit, EndInvStep, PTL DEF Spec
<1>2. QED BY <1>1, EndInvTellsEnding, PTL

---------------------------------------------------------------------------
(* The invariant of the steers: from receipt to the buffer, from there to  *)
(* the hands of the loop, from there to the log.                           *)

Receipts ==
  /\ IsSequence(received)
  /\ \A i, j \in 1..Len(received) : received[i] = received[j] => i = j
  /\ seen = {received[i] : i \in 1..Len(received)}

Sooner(c, d) == ReceivedAt(c) < ReceivedAt(d)
MayPrecede(c, d) == c.id # d.id /\ (Sooner(c, d) \/ (c.mode = "inject" /\ d.mode = "queue"))

\* The positions of the steers in the log, and among the events in hand.
Steered == {i \in 1..Len(log) : log[i].type = "steer"}
Taken == {i \in 1..Len(pending) : pending[i].type = "steer"}

Applied ==
  /\ \A i \in Steered : log[i].cmd.id \in seen /\ (log[i].cmd.mode = "queue" => AtFinishLine(i))
  /\ \A i, j \in Steered : i < j => MayPrecede(log[i].cmd, log[j].cmd)

Waiting ==
  /\ \A i \in 1..Len(steers) : steers[i].id \in seen
  /\ \A i, j \in 1..Len(steers) : i < j => Sooner(steers[i], steers[j])
  /\ \A i \in Steered, j \in 1..Len(steers) : MayPrecede(log[i].cmd, steers[j])

\* Where the run would finish the loop takes the whole buffer; at a boundary it
\* puts back what is queued.
Place ==
  \/ then = "fold"
  \/ then = "next" /\ steers = <<>> /\ AtFinishLine(Len(log) + 1) /\ Taken = 1..Len(pending)

InHand ==
  /\ \A i \in Taken :
       /\ pending[i].cmd.id \in seen
       /\ \A k \in Steered : MayPrecede(log[k].cmd, pending[i].cmd)
       /\ \A k \in 1..Len(steers) : steers[k].mode = "queue" /\ Sooner(steers[k], pending[i].cmd)
  /\ \A i, j \in Taken : i < j => Sooner(pending[i].cmd, pending[j].cmd)
  /\ Taken # {} => Place

AnswerLast ==
  LET e == log[Len(log)] IN Len(log) > 0 /\ e.type = "response" /\ e.ok /\ ~e.calls

Answered == \A i \in Steered : \E j \in 1..Len(log) : log[j].type = "request" /\ j > i

Asked == pc \in {"call", "stream", "chunk", "dispatch", "finish"} \/ outcome = "ok"

SteerInv ==
  /\ Receipts /\ Applied /\ Waiting
  /\ pc = "record" => InHand
  /\ pc = "finish" => AnswerLast
  /\ Asked => Answered

---------------------------------------------------------------------------
(* Receipts.                                                               *)

LEMMA ReceiptIsUnique ==
  ASSUME Receipts, NEW c, c.id \in seen
  PROVE  ReceivedAt(c) \in 1..Len(received) /\ received[ReceivedAt(c)] = c.id
<1>1. DOMAIN received = 1..Len(received) BY DEF Receipts, IsSequence
<1>2. \E i \in DOMAIN received : received[i] = c.id BY <1>1 DEF Receipts
<1>3. QED BY <1>1, <1>2 DEF ReceivedAt

LEMMA SoonerIsOther ==
  ASSUME Receipts, NEW c, NEW d, c.id \in seen, d.id \in seen, Sooner(c, d)
  PROVE  c.id # d.id
<1>1. Len(received) \in Nat BY DEF Receipts, IsSequence
<1>2. ReceivedAt(c) \in Nat /\ ReceivedAt(d) \in Nat BY <1>1, ReceiptIsUnique
<1>3. c.id = d.id => ReceivedAt(c) = ReceivedAt(d) BY DEF ReceivedAt
<1>4. QED BY <1>2, <1>3 DEF Sooner

\* A command received now is later than every other.
LEMMA ReceiptGrows ==
  ASSUME Receipts, NEW c, c.id \notin seen, seen' = seen \cup {c.id},
         received' = Append(received, c.id)
  PROVE  /\ Receipts'
         /\ \A d : d.id \in seen => ReceivedAt(d)' = ReceivedAt(d) /\ Sooner(d, c)'
<1> DEFINE n == Len(received) + 1
<1>1. /\ IsSequence(received') /\ Len(received) \in Nat /\ Len(received') = n
      /\ \A i \in 1..Len(received) : received'[i] = received[i]
      /\ received'[n] = c.id
  BY AppendIsSequence DEF Receipts
<1>2. Receipts' BY <1>1 DEF Receipts
<1>3. ReceivedAt(c)' = n
  <2>1. DOMAIN received' = 1..n BY <1>1 DEF IsSequence
  <2>2. \A i \in 1..n : received'[i] = c.id => i = n BY <1>1 DEF Receipts
  <2>3. QED BY <1>1, <2>1, <2>2 DEF ReceivedAt
<1>4. ASSUME NEW d, d.id \in seen PROVE ReceivedAt(d)' = ReceivedAt(d)
  <2>1. ReceivedAt(d) \in 1..Len(received) /\ received[ReceivedAt(d)] = d.id
    BY <1>4, ReceiptIsUnique
  <2>2. DOMAIN received' = 1..n BY <1>1 DEF IsSequence
  <2>3. received'[ReceivedAt(d)] = d.id BY <1>1, <2>1
  <2>4. \A i \in DOMAIN received' : received'[i] = d.id => i = ReceivedAt(d)
    BY <1>1, <1>2, <2>1, <2>2, <2>3 DEF Receipts
  <2>5. ReceivedAt(d) \in DOMAIN received' BY <1>1, <2>1, <2>2
  <2> DEFINE r == ReceivedAt(d)
  <2> HIDE DEF r
  <2>6. QED BY <2>3, <2>4, <2>5 DEF ReceivedAt
<1>5. ASSUME NEW d, d.id \in seen PROVE Sooner(d, c)'
  BY <1>1, <1>3, <1>4, <1>5, ReceiptIsUnique DEF Sooner
<1>6. QED BY <1>2, <1>4, <1>5

LEMMA ReceiptsStand ==
  ASSUME UNCHANGED received
  PROVE  /\ \A c : ReceivedAt(c)' = ReceivedAt(c)
         /\ \A c, d : (Sooner(c, d)' <=> Sooner(c, d)) /\ (MayPrecede(c, d)' <=> MayPrecede(c, d))
  BY DEF ReceivedAt, Sooner, MayPrecede

---------------------------------------------------------------------------
(* The place of a steer in a growing log.                                  *)

LEMMA FinishLineStands ==
  ASSUME IsSequence(log), IsSequence(log'), Len(log') >= Len(log),
         \A i \in 1..Len(log) : log'[i] = log[i],
         NEW i \in 1..(Len(log) + 1), AtFinishLine(i)
  PROVE  AtFinishLine(i)'
<1>1. /\ Len(log) \in Nat /\ Len(log') \in Nat
      /\ DOMAIN log = 1..Len(log) /\ DOMAIN log' = 1..Len(log')
  BY DEF IsSequence
<1>2. PICK j \in Of("response") :
        /\ j < i /\ log[j].ok /\ ~log[j].calls
        /\ \A k \in (j + 1)..(i - 1) : log[k].type = "steer"
  BY DEF AtFinishLine
<1>3. j \in 1..Len(log) /\ log'[j] = log[j] /\ j \in Of("response")' BY <1>1, <1>2 DEF Of
<1>4. \A k \in (j + 1)..(i - 1) : log'[k].type = "steer"
  <2> SUFFICES ASSUME NEW k \in (j + 1)..(i - 1) PROVE log'[k].type = "steer" OBVIOUS
  <2>1. k \in 1..Len(log) BY <1>1, <1>3
  <2>2. QED BY <1>2, <2>1
<1>5. QED BY <1>2, <1>3, <1>4 DEF AtFinishLine

LEMMA FinishLineMoves ==
  ASSUME IsSequence(log), IsSequence(log'), Len(log') = Len(log) + 1,
         \A i \in 1..Len(log) : log'[i] = log[i],
         log'[Len(log) + 1].type = "steer", AtFinishLine(Len(log) + 1)
  PROVE  AtFinishLine(Len(log) + 1)'
<1> DEFINE n == Len(log) + 1
<1>1. /\ Len(log) \in Nat
      /\ DOMAIN log = 1..Len(log) /\ DOMAIN log' = 1..n
  BY DEF IsSequence
<1>2. PICK j \in Of("response") :
        /\ j < n /\ log[j].ok /\ ~log[j].calls
        /\ \A k \in (j + 1)..(n - 1) : log[k].type = "steer"
  BY DEF AtFinishLine
<1>3. j \in 1..Len(log) /\ log'[j] = log[j] /\ j \in Of("response")' BY <1>1, <1>2 DEF Of
<1>4. \A k \in (j + 1)..n : log'[k].type = "steer"
  <2> SUFFICES ASSUME NEW k \in (j + 1)..n PROVE log'[k].type = "steer" OBVIOUS
  <2>1. CASE k = n BY <2>1
  <2>2. CASE k # n
    <3>1. k \in 1..Len(log) /\ k \in (j + 1)..(n - 1) BY <1>1, <1>3, <2>2
    <3>2. QED BY <1>2, <3>1
  <2>3. QED BY <2>1, <2>2
<1>5. QED
  <2>1. j < n + 1 /\ n + 1 = Len(log') + 1 /\ (n + 1) - 1 = n BY <1>1, <1>3
  <2>2. QED BY <1>2, <1>3, <1>4, <2>1 DEF AtFinishLine

\* The answer without calls, last in the log, is where the run would finish.
LEMMA AnswerIsFinishLine ==
  ASSUME IsSequence(log), AnswerLast
  PROVE  AtFinishLine(Len(log) + 1)
<1>1. Len(log) \in Of("response") /\ Len(log) \in Nat
  BY DEF AnswerLast, IsSequence, Of
<1>2. QED BY <1>1 DEF AnswerLast, AtFinishLine

---------------------------------------------------------------------------
(* Steps that bring no steer to the log.                                   *)

\* Nothing is appended.
LEMMA SteersRest ==
  ASSUME SteerInv, EndInv, UNCHANGED <<log, seen, received>>,
         steers' = steers \/ steers' = <<>>,
         pc' = "record" => Taken' = {},
         pc' = "finish" => pc = "finish", Asked' => Asked
  PROVE  SteerInv'
<1>1. /\ \A c, d : (Sooner(c, d)' <=> Sooner(c, d)) /\ (MayPrecede(c, d)' <=> MayPrecede(c, d))
  BY ReceiptsStand
<1>2. Receipts' BY DEF SteerInv, Receipts
<1>3. Applied' BY <1>1 DEF SteerInv, Applied, Steered, AtFinishLine, Of
<1>4. Waiting'
  <2>1. CASE steers' = steers BY <1>1, <2>1 DEF SteerInv, Waiting, Steered
  <2>2. CASE steers' = <<>> BY <2>2 DEF Waiting
  <2>3. QED BY <2>1, <2>2
<1>5. pc' = "record" => InHand' BY DEF InHand
<1>6. (pc' = "finish" => AnswerLast') /\ (Asked' => Answered')
  BY DEF SteerInv, AnswerLast, Answered, Steered
<1>7. QED BY <1>2, <1>3, <1>4, <1>5, <1>6 DEF SteerInv

\* Something else is appended.
LEMMA SteersStay ==
  ASSUME SteerInv, EndInv, NEW e, Emit(e), Shaped(e), e.type # "steer",
         UNCHANGED <<seen, received, steers>>,
         pc' = "record" => Taken' = {},
         pc' = "finish" => e.type = "response" /\ e.ok /\ ~e.calls,
         Asked' => Asked \/ e.type = "request"
  PROVE  SteerInv'
<1> DEFINE n == Len(log) + 1
<1>1. /\ IsSequence(log) /\ IsSequence(log') /\ Len(log) \in Nat /\ Len(log') = n
      /\ \A i \in 1..Len(log) : log'[i] = log[i]
      /\ \A f \in DOMAIN e \ {"id"} : log'[n][f] = e[f]
      /\ log'[n].type = e.type
  BY EmitAppends DEF EndInv, Typed, LogTyped, Shaped
<1>2. /\ \A c, d : (Sooner(c, d)' <=> Sooner(c, d)) /\ (MayPrecede(c, d)' <=> MayPrecede(c, d))
  BY ReceiptsStand
<1>3. Steered' = Steered BY <1>1 DEF Steered
<1>4. \A i \in Steered : i \in 1..Len(log) /\ log'[i] = log[i] BY <1>1 DEF Steered
<1>5. Receipts' BY DEF SteerInv, Receipts
<1>6. Applied'
  <2>1. ASSUME NEW i \in Steered, log[i].cmd.mode = "queue" PROVE AtFinishLine(i)'
    <3>1. AtFinishLine(i) BY <2>1 DEF SteerInv, Applied
    <3>2. i \in 1..(Len(log) + 1) /\ Len(log') >= Len(log) BY <1>1, <1>4
    <3>3. QED BY <1>1, <3>1, <3>2, FinishLineStands
  <2>2. QED BY <1>2, <1>3, <1>4, <2>1 DEF SteerInv, Applied
<1>7. Waiting' BY <1>2, <1>3, <1>4 DEF SteerInv, Waiting
<1>8. pc' = "record" => InHand' BY DEF InHand
<1>9. pc' = "finish" => AnswerLast'
  <2> SUFFICES ASSUME pc' = "finish" PROVE AnswerLast' OBVIOUS
  <2>1. e.type = "response" /\ e.ok /\ ~e.calls /\ {"ok", "calls"} \subseteq DOMAIN e
    BY DEF Shaped
  <2>2. log'[n].ok = e.ok /\ log'[n].calls = e.calls BY <1>1, <2>1
  <2>3. QED BY <1>1, <2>1, <2>2 DEF AnswerLast
<1>10. Asked' => Answered'
  <2> SUFFICES ASSUME Asked', NEW i \in Steered
               PROVE  \E j \in 1..n : log'[j].type = "request" /\ j > i
    BY <1>1, <1>3 DEF Answered
  <2>1. CASE e.type = "request" BY <1>1, <1>4, <2>1
  <2>2. CASE Asked
    <3>1. PICK j \in 1..Len(log) : log[j].type = "request" /\ j > i
      BY <2>2 DEF SteerInv, Answered
    <3>2. QED BY <1>1, <3>1
  <2>3. QED BY <2>1, <2>2
<1>11. QED BY <1>5, <1>6, <1>7, <1>8, <1>9, <1>10 DEF SteerInv

---------------------------------------------------------------------------
(* Steps that move a steer.                                                *)

LEMMA SteersPolled ==
  ASSUME SteerInv, EndInv, PollOne
  PROVE  SteerInv'
<1> PICK c : c = Head(channel) OBVIOUS
<1>1. /\ UNCHANGED <<pc, log, outcome>> /\ pc \notin {"record", "ended"}
      /\ \/ UNCHANGED <<seen, received, steers>>
         \/ /\ c.id \notin seen /\ seen' = seen \cup {c.id} /\ received' = Append(received, c.id)
            /\ steers' \in {steers, Append(steers, c)}
  BY DEF PollOne, Retried, Buffered, inboxVars, recordVars
<1>2. CASE UNCHANGED <<seen, received, steers>>
  BY <1>1, <1>2, SteersRest DEF Asked
<1>3. CASE /\ c.id \notin seen /\ seen' = seen \cup {c.id} /\ received' = Append(received, c.id)
           /\ steers' \in {steers, Append(steers, c)}
  <2>1. /\ Receipts'
        /\ \A d : d.id \in seen => ReceivedAt(d)' = ReceivedAt(d) /\ Sooner(d, c)'
    BY <1>3, ReceiptGrows DEF SteerInv
  <2>2. \A d, f : d.id \in seen /\ f.id \in seen =>
          (Sooner(d, f) => Sooner(d, f)') /\ (MayPrecede(d, f) => MayPrecede(d, f)')
    BY <2>1 DEF Sooner, MayPrecede
  <2>3. \A d : d.id \in seen => MayPrecede(d, c)' BY <1>3, <2>1 DEF MayPrecede
  <2>4. Steered' = Steered BY <1>1 DEF Steered
  <2>5. Applied' BY <1>1, <1>3, <2>2, <2>4 DEF SteerInv, Applied, AtFinishLine, Of
  <2>6. Waiting'
    <3>1. CASE steers' = steers
      BY <1>1, <1>3, <2>2, <2>4, <3>1 DEF SteerInv, Waiting, Applied
    <3>2. CASE steers' = Append(steers, c)
      <4>1. /\ Len(steers) \in Nat /\ Len(steers') = Len(steers) + 1
            /\ \A i \in 1..Len(steers) : steers'[i] = steers[i]
            /\ steers'[Len(steers) + 1] = c
        <5>1. IsSequence(steers) BY SequenceIsOne DEF EndInv, Typed, InboxTyped
        <5>2. QED BY <3>2, <5>1, AppendIsSequence
      <4>2. \A i \in 1..Len(steers') : steers'[i].id \in seen'
        BY <1>3, <4>1 DEF SteerInv, Waiting
      <4>3. \A i, j \in 1..Len(steers') : i < j => Sooner(steers[i], steers[j])'
        <5> SUFFICES ASSUME NEW i \in 1..Len(steers'), NEW j \in 1..Len(steers'), i < j
                     PROVE  Sooner(steers[i], steers[j])'
          OBVIOUS
        <5>1. i \in 1..Len(steers) /\ steers[i].id \in seen BY <4>1 DEF SteerInv, Waiting
        <5>2. CASE j \in 1..Len(steers)
          BY <2>2, <4>1, <5>1, <5>2 DEF SteerInv, Waiting
        <5>3. CASE j = Len(steers) + 1 BY <2>1, <4>1, <5>1, <5>3
        <5>4. QED BY <4>1, <5>2, <5>3
      <4>4. \A i \in Steered, j \in 1..Len(steers') : MayPrecede(log[i].cmd, steers[j])'
        <5> SUFFICES ASSUME NEW i \in Steered, NEW j \in 1..Len(steers')
                     PROVE  MayPrecede(log[i].cmd, steers[j])'
          OBVIOUS
        <5>1. log[i].cmd.id \in seen BY DEF SteerInv, Applied
        <5>2. CASE j \in 1..Len(steers)
          BY <1>1, <2>2, <4>1, <5>1, <5>2 DEF SteerInv, Waiting
        <5>3. CASE j = Len(steers) + 1 BY <1>1, <2>3, <4>1, <5>1, <5>3
        <5>4. QED BY <4>1, <5>2, <5>3
      <4>5. QED BY <1>1, <2>4, <4>2, <4>3, <4>4 DEF Waiting
    <3>3. QED BY <1>3, <3>1, <3>2
  <2>7. (pc' = "finish" => AnswerLast') /\ (Asked' => Answered')
    BY <1>1, <2>4 DEF SteerInv, AnswerLast, Answered, Asked
  <2>8. QED BY <1>1, <2>1, <2>5, <2>6, <2>7 DEF SteerInv
<1>4. QED BY <1>1, <1>2, <1>3

\* The loop takes the buffer in its hands.
LEMMA SteersTaken ==
  ASSUME SteerInv, EndInv, BoundarySteers \/ (FinishLine /\ ~Interrupted /\ ContinuesRun)
  PROVE  SteerInv'
<1>1. /\ UNCHANGED <<log, outcome, seen, received>> /\ steers' = <<>>
      /\ pending' = Steering(steers) /\ pc' = "record"
      /\ then' = "fold" \/ (then' = "next" /\ pc = "finish")
  BY DEF BoundarySteers, FinishLine, Plan, inboxVars
<1>2. /\ Len(pending') = Len(steers) /\ Len(steers) \in Nat
      /\ \A i \in 1..Len(steers) : pending'[i].cmd = steers[i] /\ pending'[i].type = "steer"
  BY <1>1, SteeringIsSteers DEF EndInv, Typed, InboxTyped
<1>3. Taken' = 1..Len(steers) BY <1>2 DEF Taken
<1>4. /\ \A c, d : (Sooner(c, d)' <=> Sooner(c, d)) /\ (MayPrecede(c, d)' <=> MayPrecede(c, d))
      /\ Steered' = Steered
  BY <1>1, ReceiptsStand DEF Steered
<1>5. Receipts' BY <1>1 DEF SteerInv, Receipts
<1>6. Applied' BY <1>1, <1>4 DEF SteerInv, Applied, AtFinishLine, Of
<1>7. Waiting' BY <1>1 DEF Waiting
<1>8. InHand'
  <2>1. ASSUME NEW i \in 1..Len(steers)
        PROVE  /\ pending'[i].cmd.id \in seen
               /\ \A k \in Steered : MayPrecede(log[k].cmd, pending'[i].cmd)
    BY <1>2 DEF SteerInv, Waiting
  <2>2. \A i, j \in 1..Len(steers) : i < j => Sooner(pending'[i].cmd, pending'[j].cmd)
    BY <1>2 DEF SteerInv, Waiting
  <2>3. \A k \in 1..Len(steers') : FALSE BY <1>1
  <2>4. Place'
    <3>1. CASE then' = "fold" BY <3>1 DEF Place
    <3>2. CASE then' = "next" /\ pc = "finish"
      <4>1. IsSequence(log) BY DEF EndInv, Typed, LogTyped
      <4>2. AtFinishLine(Len(log) + 1) BY <3>2, <4>1, AnswerIsFinishLine DEF SteerInv
      <4>3. AtFinishLine(Len(log) + 1)' BY <1>1, <4>2 DEF AtFinishLine, Of
      <4>4. QED BY <1>1, <1>2, <1>3, <3>2, <4>3 DEF Place
    <3>3. QED BY <1>1, <3>1, <3>2
  <2>5. \A i \in Taken' : \A k \in Steered : MayPrecede(log[k].cmd, pending[i].cmd)'
    <3> SUFFICES ASSUME NEW i \in 1..Len(steers), NEW k \in Steered
                 PROVE  MayPrecede(log[k].cmd, pending[i].cmd)'
      BY <1>3
    <3>1. log'[k].cmd = log[k].cmd BY <1>1
    <3>2. MayPrecede(log[k].cmd, steers[i]) BY DEF SteerInv, Waiting
    <3>3. pending'[i].cmd = steers[i] BY <1>2
    <3>4. QED BY <1>4, <3>1, <3>2, <3>3
  <2>6. \A i, j \in Taken' : i < j => Sooner(pending[i].cmd, pending[j].cmd)'
    <3> SUFFICES ASSUME NEW i \in 1..Len(steers), NEW j \in 1..Len(steers), i < j
                 PROVE  Sooner(pending[i].cmd, pending[j].cmd)'
      BY <1>3
    <3>1. Sooner(steers[i], steers[j]) BY DEF SteerInv, Waiting
    <3>2. QED BY <1>2, <1>4, <3>1
  <2>7. \A i \in Taken' : pending'[i].cmd.id \in seen' BY <1>1, <1>3, <2>1
  <2>8. QED BY <1>4, <2>3, <2>4, <2>5, <2>6, <2>7 DEF InHand
<1>9. Asked' => Answered'
  BY <1>1, <1>4 DEF SteerInv, Asked, Answered
<1>10. QED BY <1>1, <1>5, <1>6, <1>7, <1>8, <1>9 DEF SteerInv

\* What the loop knows of the first steer in hand.
LEMMA FirstInHand ==
  ASSUME SteerInv, EndInv, pc = "record", pending # <<>>, Head(pending).type = "steer"
  PROVE  /\ 1 \in Taken /\ Head(pending) = pending[1]
         /\ pending[1].cmd \in Commands /\ pending[1].cmd.mode \in {"inject", "queue"}
         /\ InHand /\ Place
<1>1. /\ Len(pending) \in Nat /\ Len(pending) > 0 /\ Head(pending) = pending[1]
  BY TailIsSequence DEF EndInv, Typed, PendingTyped
<1>2. 1 \in Taken BY <1>1 DEF Taken
<1>3. Shaped(pending[1]) BY <1>1 DEF EndInv, Typed, PendingTyped
<1>4. pending[1].cmd \in Commands /\ pending[1].cmd.kind = "steer" BY <1>1, <1>3 DEF Shaped
<1>5. pending[1].cmd.mode \in {"inject", "queue"} BY <1>4, AgentLoopAssumption
<1>6. InHand /\ Place BY <1>2 DEF SteerInv, InHand
<1>7. QED BY <1>1, <1>2, <1>4, <1>5, <1>6

\* A queued steer goes back to the buffer.
LEMMA SteerHeld ==
  ASSUME SteerInv, EndInv, HoldBack
  PROVE  SteerInv'
<1>1. /\ pc = "record" /\ pc' = pc /\ pending # <<>> /\ then = "fold" /\ then' = then
      /\ pending' = Tail(pending) /\ steers' = Append(steers, Head(pending).cmd)
      /\ Head(pending).cmd.mode = "queue"
      /\ UNCHANGED <<log, outcome, seen, received>>
  BY DEF HoldBack, Withheld
<1>2. /\ Len(pending) \in Nat /\ Len(pending) > 0 /\ Len(pending') = Len(pending) - 1
      /\ \A i \in 1..(Len(pending) - 1) : pending'[i] = pending[i + 1]
      /\ Head(pending) = pending[1]
  BY <1>1, PendingShrinks DEF EndInv, Typed
<1>3. pending[1].type = "steer" BY <1>1, <1>2 DEF EndInv, Ending, Joins, Running
<1>4. InHand /\ 1 \in Taken BY <1>1, <1>2, <1>3, FirstInHand
<1> PICK c : c = pending[1].cmd OBVIOUS
<1>5. /\ Len(steers) \in Nat /\ Len(steers') = Len(steers) + 1
      /\ \A i \in 1..Len(steers) : steers'[i] = steers[i]
      /\ steers'[Len(steers) + 1] = c
  <2>1. IsSequence(steers) BY SequenceIsOne DEF EndInv, Typed, InboxTyped
  <2>2. QED BY <1>1, <1>2, <2>1, AppendIsSequence
<1>6. /\ \A d, f : (Sooner(d, f)' <=> Sooner(d, f)) /\ (MayPrecede(d, f)' <=> MayPrecede(d, f))
      /\ Steered' = Steered
  BY <1>1, ReceiptsStand DEF Steered
<1>7. Receipts' BY <1>1 DEF SteerInv, Receipts
<1>8. Applied' BY <1>1, <1>6 DEF SteerInv, Applied, AtFinishLine, Of
<1>9. /\ c.id \in seen /\ \A k \in Steered : MayPrecede(log[k].cmd, c)
      /\ \A k \in 1..Len(steers) : Sooner(steers[k], c)
  BY <1>4 DEF InHand
<1>10. Waiting'
  <2>1. \A i \in 1..Len(steers') : steers'[i].id \in seen'
    BY <1>1, <1>5, <1>9 DEF SteerInv, Waiting
  <2>2. \A i, j \in 1..Len(steers') : i < j => Sooner(steers[i], steers[j])'
    <3> SUFFICES ASSUME NEW i \in 1..Len(steers'), NEW j \in 1..Len(steers'), i < j
                 PROVE  Sooner(steers[i], steers[j])'
      OBVIOUS
    <3>1. i \in 1..Len(steers) BY <1>5
    <3>2. CASE j \in 1..Len(steers) BY <1>5, <1>6, <3>1, <3>2 DEF SteerInv, Waiting
    <3>3. CASE j = Len(steers) + 1 BY <1>5, <1>6, <1>9, <3>1, <3>3
    <3>4. QED BY <1>5, <3>2, <3>3
  <2>3. \A i \in Steered, j \in 1..Len(steers') : MayPrecede(log[i].cmd, steers[j])'
    <3> SUFFICES ASSUME NEW i \in Steered, NEW j \in 1..Len(steers')
                 PROVE  MayPrecede(log[i].cmd, steers[j])'
      OBVIOUS
    <3>1. CASE j \in 1..Len(steers) BY <1>1, <1>5, <1>6, <3>1 DEF SteerInv, Waiting
    <3>2. CASE j = Len(steers) + 1 BY <1>1, <1>5, <1>6, <1>9, <3>2
    <3>3. QED BY <1>5, <3>1, <3>2
  <2>4. QED BY <1>6, <2>1, <2>2, <2>3 DEF Waiting
<1>11. ASSUME NEW i \in Taken'
       PROVE i + 1 \in Taken /\ pending'[i] = pending[i + 1] /\ i + 1 > 1 /\ i \in Nat
  BY <1>2 DEF Taken
<1>12. InHand'
  <2>1. ASSUME NEW i \in Taken'
        PROVE  /\ pending'[i].cmd.id \in seen'
               /\ \A k \in Steered : MayPrecede(log[k].cmd, pending[i].cmd)'
    BY <1>1, <1>4, <1>6, <1>11 DEF InHand
  <2>2. ASSUME NEW i \in Taken', NEW k \in 1..Len(steers')
        PROVE  steers'[k].mode = "queue" /\ Sooner(steers[k], pending[i].cmd)'
    <3>1. CASE k \in 1..Len(steers) BY <1>4, <1>5, <1>6, <1>11, <3>1 DEF InHand
    <3>2. CASE k = Len(steers) + 1
      <4>1. Sooner(c, pending[i + 1].cmd) BY <1>4, <1>11 DEF InHand
      <4>2. steers'[k] = c /\ pending'[i].cmd = pending[i + 1].cmd BY <1>5, <1>11, <3>2
      <4>3. QED BY <1>1, <1>2, <1>6, <4>1, <4>2
    <3>3. QED BY <1>5, <3>1, <3>2
  <2>3. \A i, j \in Taken' : i < j => Sooner(pending[i].cmd, pending[j].cmd)'
    <3> SUFFICES ASSUME NEW i \in Taken', NEW j \in Taken', i < j
                 PROVE  Sooner(pending[i].cmd, pending[j].cmd)'
      OBVIOUS
    <3>1. i + 1 \in Taken /\ j + 1 \in Taken /\ i + 1 < j + 1 BY <1>11
    <3>2. Sooner(pending[i + 1].cmd, pending[j + 1].cmd) BY <1>4, <3>1 DEF InHand
    <3>3. QED BY <1>6, <1>11, <3>2
  <2>4. Place' BY <1>1 DEF Place
  <2>5. QED BY <1>6, <2>1, <2>2, <2>3, <2>4 DEF InHand
<1>13. Asked' => Answered' BY <1>1, <1>6 DEF SteerInv, Asked, Answered
<1>14. QED BY <1>1, <1>7, <1>8, <1>10, <1>12, <1>13 DEF SteerInv

\* A steer is recorded: it follows those in the log and comes before the rest.
LEMMA SteerRecorded ==
  ASSUME SteerInv, EndInv, RecordPending, Head(pending).type = "steer"
  PROVE  SteerInv'
<1>1. /\ pc = "record" /\ pc' = pc /\ pending # <<>> /\ then' = then
      /\ pending' = Tail(pending) /\ Emit(Head(pending)) /\ ~Withheld(Head(pending))
      /\ UNCHANGED <<outcome, seen, received, steers>>
  BY DEF RecordPending, inboxVars
<1>2. /\ Len(pending) \in Nat /\ Len(pending) > 0 /\ Len(pending') = Len(pending) - 1
      /\ \A i \in 1..(Len(pending) - 1) : pending'[i] = pending[i + 1]
      /\ Head(pending) = pending[1] /\ Shaped(pending[1])
  BY <1>1, PendingShrinks DEF EndInv, Typed
<1>3. InHand /\ 1 \in Taken /\ Place /\ pending[1].cmd.mode \in {"inject", "queue"}
  BY <1>1, <1>2, FirstInHand
<1> PICK c : c = pending[1].cmd OBVIOUS
<1> PICK n : n = Len(log) + 1 OBVIOUS
<1>4. /\ IsSequence(log) /\ IsSequence(log') /\ Len(log) \in Nat /\ Len(log') = n
      /\ \A i \in 1..Len(log) : log'[i] = log[i]
      /\ \A f \in DOMAIN pending[1] \ {"id"} : log'[n][f] = pending[1][f]
      /\ log'[n].type = "steer"
  BY <1>1, <1>2, EmitAppends DEF EndInv, Typed, LogTyped, Shaped
<1>5. log'[n].cmd = c BY <1>2, <1>4 DEF Shaped
<1>6. /\ \A d, f : (Sooner(d, f)' <=> Sooner(d, f)) /\ (MayPrecede(d, f)' <=> MayPrecede(d, f))
      /\ Steered' = Steered \cup {n} /\ n \notin Steered
      /\ \A i \in Steered : i \in 1..Len(log) /\ log'[i] = log[i] /\ i < n
  BY <1>1, <1>4, ReceiptsStand DEF Steered
<1>7. /\ c.id \in seen
      /\ \A k \in Steered : MayPrecede(log[k].cmd, c)
      /\ \A k \in 1..Len(steers) : steers[k].mode = "queue" /\ Sooner(steers[k], c)
  BY <1>3 DEF InHand
<1>8. /\ c.mode = "queue" => AtFinishLine(n)
      /\ c.mode = "queue" => then = "next"
      /\ then = "next" => steers = <<>>
  BY <1>1, <1>2, <1>3 DEF Withheld, Place
<1>9. Receipts' BY <1>1 DEF SteerInv, Receipts
<1>10. Applied'
  <2>1. ASSUME NEW i \in Steered' PROVE log'[i].cmd.id \in seen'
    BY <1>1, <1>5, <1>6, <1>7 DEF SteerInv, Applied
  <2>2. ASSUME NEW i \in Steered', log'[i].cmd.mode = "queue" PROVE AtFinishLine(i)'
    <3>1. i \in 1..(Len(log) + 1) /\ Len(log') >= Len(log) BY <1>4, <1>6
    <3>2. AtFinishLine(i)
      BY <1>5, <1>6, <1>8, <2>2 DEF SteerInv, Applied
    <3>3. QED BY <1>4, <3>1, <3>2, FinishLineStands
  <2>3. ASSUME NEW i \in Steered', NEW j \in Steered', i < j
        PROVE  MayPrecede(log[i].cmd, log[j].cmd)'
    <3>1. i \in Steered BY <1>4, <1>6, <2>3
    <3>2. CASE j \in Steered BY <1>6, <2>3, <3>1, <3>2 DEF SteerInv, Applied
    <3>3. CASE j = n BY <1>5, <1>6, <1>7, <3>1, <3>3
    <3>4. QED BY <1>6, <3>2, <3>3
  <2>4. QED BY <2>1, <2>2, <2>3 DEF Applied
<1>11. Waiting'
  <2>1. ASSUME NEW i \in Steered', NEW j \in 1..Len(steers)
        PROVE  MayPrecede(log[i].cmd, steers[j])'
    <3>1. CASE i \in Steered BY <1>1, <1>6, <3>1 DEF SteerInv, Waiting
    <3>2. CASE i = n
      <4>1. steers[j].mode = "queue" /\ Sooner(steers[j], c) /\ steers[j].id \in seen
        BY <1>7 DEF SteerInv, Waiting
      <4>2. steers[j].id # c.id BY <1>7, <4>1, SoonerIsOther DEF SteerInv
      <4>3. c.mode = "inject" BY <1>3, <1>8
      <4>4. MayPrecede(c, steers[j]) BY <4>1, <4>2, <4>3 DEF MayPrecede
      <4>5. QED BY <1>1, <1>5, <1>6, <3>2, <4>4
    <3>3. QED BY <1>6, <3>1, <3>2
  <2>2. QED BY <1>1, <1>6, <2>1 DEF SteerInv, Waiting
<1>12. ASSUME NEW i \in Taken'
       PROVE i + 1 \in Taken /\ pending'[i] = pending[i + 1] /\ i + 1 > 1 /\ i \in Nat
  BY <1>2 DEF Taken
<1>13. InHand'
  <2>1. ASSUME NEW i \in Taken', NEW k \in Steered'
        PROVE  MayPrecede(log[k].cmd, pending[i].cmd)'
    <3>1. CASE k \in Steered BY <1>3, <1>6, <1>12, <3>1 DEF InHand
    <3>2. CASE k = n
      <4>1. Sooner(c, pending[i + 1].cmd) /\ pending[i + 1].cmd.id \in seen
        BY <1>3, <1>12 DEF InHand
      <4>2. c.id # pending[i + 1].cmd.id BY <1>7, <4>1, SoonerIsOther DEF SteerInv
      <4>3. MayPrecede(c, pending[i + 1].cmd) BY <4>1, <4>2 DEF MayPrecede
      <4>4. QED BY <1>5, <1>6, <1>12, <3>2, <4>3
    <3>3. QED BY <1>6, <3>1, <3>2
  <2>2. ASSUME NEW i \in Taken'
        PROVE  /\ pending'[i].cmd.id \in seen'
               /\ \A k \in 1..Len(steers') :
                    steers'[k].mode = "queue" /\ Sooner(steers[k], pending[i].cmd)'
    BY <1>1, <1>3, <1>6, <1>12 DEF InHand
  <2>3. \A i, j \in Taken' : i < j => Sooner(pending[i].cmd, pending[j].cmd)'
    <3> SUFFICES ASSUME NEW i \in Taken', NEW j \in Taken', i < j
                 PROVE  Sooner(pending[i].cmd, pending[j].cmd)'
      OBVIOUS
    <3>1. i + 1 \in Taken /\ j + 1 \in Taken /\ i + 1 < j + 1 BY <1>12
    <3>2. Sooner(pending[i + 1].cmd, pending[j + 1].cmd) BY <1>3, <3>1 DEF InHand
    <3>3. QED BY <1>6, <1>12, <3>2
  <2>4. Place'
    <3>1. CASE then = "fold" BY <1>1, <3>1 DEF Place
    <3>2. CASE then = "next"
      <4>1. AtFinishLine(Len(log) + 1) /\ Taken = 1..Len(pending) /\ steers = <<>>
        BY <1>3, <3>2 DEF Place
      <4>2. AtFinishLine(Len(log) + 1)' BY <1>4, <4>1, FinishLineMoves
      <4>3. Taken' = 1..Len(pending')
        <5>1. \A i \in 1..Len(pending') : pending'[i].type = "steer"
          <6> SUFFICES ASSUME NEW i \in 1..Len(pending') PROVE pending'[i].type = "steer" OBVIOUS
          <6>1. i + 1 \in Taken /\ pending'[i] = pending[i + 1] BY <1>2, <4>1
          <6>2. QED BY <6>1 DEF Taken
        <5>2. QED BY <5>1 DEF Taken
      <4>4. QED BY <1>1, <3>2, <4>1, <4>2, <4>3 DEF Place
    <3>3. QED BY <1>3, <3>1, <3>2 DEF Place
  <2>5. QED BY <1>6, <2>1, <2>2, <2>3, <2>4 DEF InHand
<1>14. ~Asked'
  <2>1. Running BY <1>1, <1>3 DEF Place, Running
  <2>2. outcome = "running" BY <2>1 DEF EndInv, Ending
  <2>3. QED BY <1>1, <2>2 DEF Asked
<1>15. QED BY <1>1, <1>9, <1>10, <1>11, <1>13, <1>14 DEF SteerInv

---------------------------------------------------------------------------
LEMMA SteerInvInit == Init => SteerInv
<1> SUFFICES ASSUME Init PROVE SteerInv OBVIOUS
<1>1. log = <<>> /\ pc = "start" /\ outcome = "running" /\ steers = <<>> /\ received = <<>>
      /\ seen = {}
  BY DEF Init
<1>2. Receipts BY <1>1 DEF Receipts, IsSequence
<1>3. Steered = {} BY <1>1 DEF Steered
<1>4. Applied /\ Waiting BY <1>1, <1>3 DEF Applied, Waiting
<1>5. ~Asked BY <1>1 DEF Asked
<1>6. QED BY <1>1, <1>2, <1>4, <1>5 DEF SteerInv

\* Events before the terminal record are no steers.
LEMMA EndTakesNone ==
  ASSUME NEW events, NEW completed, NEW error, End(events, completed, error),
         IsSequence(events), \A i \in 1..Len(events) : events[i].type # "steer"
  PROVE  Taken' = {}
<1> DEFINE f == Finished(completed, error)
<1>1. pending' = Append(events, f) BY DEF End, Plan
<1>2. f.type = "finished" BY DEF Finished
<1> HIDE DEF f
<1>3. /\ Len(events) \in Nat /\ Len(pending') = Len(events) + 1
      /\ \A i \in 1..Len(events) : pending'[i] = events[i]
      /\ pending'[Len(events) + 1] = f
  BY <1>1, AppendIsSequence
<1>4. QED BY <1>2, <1>3 DEF Taken

LEMMA NextTurnTakesNone ==
  ASSUME NEW t, NextTurn(t)
  PROVE  /\ pc' = "record" => Taken' = {}
         /\ pc' \in {"boundary", "record"} /\ outcome' \in {outcome, "limit"}
<1>1. IsSequence(<<>>) BY DEF IsSequence
<1>2. CASE WithinLimit(t) BY <1>2 DEF NextTurn, recordVars
<1>3. CASE ~WithinLimit(t)
  <2>1. End(<<>>, MaxTurns, "limit") BY <1>3 DEF NextTurn
  <2>2. QED BY <1>1, <2>1, EndTakesNone DEF End, Plan
<1>4. QED BY <1>2, <1>3

LEMMA SteersKeptAtEnds ==
  ASSUME SteerInv, EndInv,
         \/ BoundaryInterrupt \/ CallFails \/ StreamFails \/ EmptyTurn
         \/ ChunkPolled /\ Interrupted
         \/ FinishLine /\ (Interrupted \/ ~ContinuesRun)
         \/ ReturnBatch
  PROVE  SteerInv'
<1>1. /\ UNCHANGED <<log, seen, received>> /\ pc' = "record"
      /\ steers' = steers \/ steers' = <<>>
  BY DEF BoundaryInterrupt, CallFails, StreamFails, EmptyTurn, ChunkPolled, FinishLine, ReturnBatch,
         TakeInterrupt, inboxVars, End, Plan
<1> DEFINE NoSteer(q) == IsSequence(q) /\ \A i \in 1..Len(q) : q[i].type # "steer"
<1>2. CommandEvent(pendingInterrupt).type # "steer" /\ CommandEvent(taken).type # "steer"
  BY DEF EndInv, Typed, InboxTyped, CommandEvent
<1>3. Response(FALSE).type # "steer" BY DEF Response
<1>a. ASSUME NEW e, e.type # "steer" PROVE NoSteer(<<e>>)
  BY <1>a DEF IsSequence
<1>b. ASSUME NEW e, NEW f, e.type # "steer", f.type # "steer" PROVE NoSteer(<<e, f>>)
  <2>1. Len(<<e, f>>) = 2 /\ <<e, f>>[1] = e /\ <<e, f>>[2] = f OBVIOUS
  <2>2. IsSequence(<<e, f>>) BY DEF IsSequence
  <2>3. QED BY <1>b, <2>1, <2>2
<1>c. NoSteer(<<>>) BY DEF IsSequence
<1> HIDE DEF NoSteer
<1>4. /\ NoSteer(<<>>) /\ NoSteer(<<CommandEvent(pendingInterrupt)>>)
      /\ NoSteer(<<Response(FALSE)>>) /\ NoSteer(<<CommandEvent(taken)>>)
      /\ NoSteer(<<CommandEvent(pendingInterrupt), Response(FALSE)>>)
  BY <1>2, <1>3, <1>a, <1>b, <1>c
<1>5. CASE ReturnBatch /\ ~BatchStopped
  <2>1. PICK k \in 0..MaxNested : Plan([i \in 1..k |-> InjectEvent(i)], "next")
    BY <1>5 DEF ReturnBatch
  <2>2. k \in Nat /\ pending' = [i \in 1..k |-> InjectEvent(i)]
    BY <2>1, AgentLoopAssumption DEF Plan
  <2>3. Taken' = {} BY <2>2 DEF Taken, InjectEvent
  <2>4. outcome' = outcome BY <1>5 DEF ReturnBatch
  <2>5. QED BY <1>1, <2>3, <2>4, SteersRest DEF Asked
<1>6. CASE ~(ReturnBatch /\ ~BatchStopped)
  <2>1. PICK events, completed, error :
          /\ End(events, completed, error) /\ NoSteer(events)
          /\ error = "ok" => pc = "finish"
    <3>1. CASE BoundaryInterrupt
      <4>1. End(<<CommandEvent(pendingInterrupt)>>, turn - 1, "interrupted")
        BY <3>1 DEF BoundaryInterrupt
      <4>2. QED BY <1>4, <4>1
    <3>2. CASE CallFails
      <4>1. End(<<>>, turn - 1, "provider") BY <3>2 DEF CallFails
      <4>2. QED BY <1>4, <4>1
    <3>3. CASE StreamFails
      <4>1. End(<<Response(FALSE)>>, turn - 1, "provider") BY <3>3 DEF StreamFails
      <4>2. QED BY <1>4, <4>1
    <3>4. CASE EmptyTurn
      <4>1. End(<<Response(FALSE)>>, CompletedBeforeEmpty, "empty") BY <3>4 DEF EmptyTurn
      <4>2. QED BY <1>4, <4>1
    <3>5. CASE ChunkPolled /\ Interrupted
      <4>1. End(<<CommandEvent(pendingInterrupt), Response(FALSE)>>, turn - 1, "interrupted")
        BY <3>5 DEF ChunkPolled, CutOff
      <4>2. QED BY <1>4, <4>1
    <3>6. CASE FinishLine /\ (Interrupted \/ ~ContinuesRun)
      <4>1. pc = "finish" BY <3>6 DEF FinishLine
      <4>2. End(<<>>, turn, "ok")
        BY <3>6, SteeringIsSteers DEF FinishLine, ContinuesRun, EndInv, Typed
      <4>3. QED BY <1>4, <4>1, <4>2
    <3>7. CASE ReturnBatch /\ BatchStopped
      <4>1. End(<<CommandEvent(taken)>>, turn, "interrupted") BY <3>7 DEF ReturnBatch
      <4>2. QED BY <1>4, <4>1
    <3>8. QED BY <1>6, <3>1, <3>2, <3>3, <3>4, <3>5, <3>6, <3>7
  <2>2. Taken' = {} BY <2>1, EndTakesNone DEF NoSteer
  <2>3. outcome' = error BY <2>1 DEF End
  <2>4. Asked' => Asked BY <1>1, <2>1, <2>3 DEF Asked
  <2>5. QED BY <1>1, <2>2, <2>4, SteersRest
<1>7. QED BY <1>5, <1>6

\* The steps that append one event of the loop's own.
LEMMA SteersKeptBySpeech ==
  ASSUME SteerInv, EndInv,
         \/ Start \/ FoldResults \/ Request \/ Respond
         \/ Decide \/ \E p \in Position : OpenCall(p) \/ CloseCall(p)
  PROVE  SteerInv'
<1>1. UNCHANGED <<seen, received, steers>>
  BY DEF Start, FoldResults, Request, Respond, Decide, OpenCall, CloseCall, inboxVars
<1>2. CASE Start
  <2> DEFINE e == [type |-> "start", base |-> messages]
  <2>1. Emit(e) /\ NextTurn(turn) BY <1>2 DEF Start
  <2>2. Shaped(e) /\ e.type = "start" BY DEF Shaped
  <2> HIDE DEF e
  <2>3. Asked' => Asked BY <2>1, NextTurnTakesNone DEF Asked
  <2>4. QED BY <1>1, <2>1, <2>2, <2>3, NextTurnTakesNone, SteersStay
<1>3. CASE FoldResults
  <2> DEFINE e == [type |-> "fold", turn |-> turn, refs |-> Candidates]
  <2>1. Emit(e) /\ pc' = "request" /\ outcome' = outcome BY <1>3 DEF FoldResults, recordVars
  <2>2. Shaped(e) /\ e.type = "fold" BY DEF Shaped
  <2> HIDE DEF e
  <2>3. QED BY <1>1, <2>1, <2>2, SteersStay DEF Asked
<1>4. CASE Request
  <2> DEFINE e == [type |-> "request", turn |-> turn]
  <2>1. Emit(e) /\ pc' = "call" BY <1>4 DEF Request
  <2>2. Shaped(e) /\ e.type = "request" BY DEF Shaped
  <2> HIDE DEF e
  <2>3. QED BY <1>1, <2>1, <2>2, SteersStay
<1>5. CASE Respond
  <2> DEFINE e == Response(TRUE)
  <2>1. /\ Emit(e) /\ pc = "stream" /\ pc' \in {"dispatch", "finish"}
        /\ pc' = "finish" => content # "calls"
    BY <1>5 DEF Respond
  <2>2. Shaped(e) /\ e.type = "response" /\ e.ok /\ (e.calls <=> content = "calls")
    BY DEF Response, Shaped
  <2> HIDE DEF e
  <2>3. QED BY <1>1, <2>1, <2>2, SteersStay DEF Asked
<1>6. CASE Decide
  <2> DEFINE e == [type |-> "resolve"]
  <2>1. Emit(e) /\ pc' = pc /\ outcome' = outcome /\ pc = "dispatch"
    BY <1>6 DEF Decide, recordVars
  <2>2. Shaped(e) /\ e.type = "resolve" BY DEF Shaped
  <2> HIDE DEF e
  <2>3. QED BY <1>1, <2>1, <2>2, SteersStay DEF Asked
<1>7. ASSUME NEW p \in Position, OpenCall(p) PROVE SteerInv'
  <2> DEFINE e == [type |-> "call", call |-> <<turn, p>>]
  <2>1. Emit(e) /\ pc' = pc /\ outcome' = outcome /\ pc = "dispatch"
    BY <1>7 DEF OpenCall, recordVars
  <2>2. Shaped(e) /\ e.type = "call" BY DEF Shaped
  <2> HIDE DEF e
  <2>3. QED BY <1>1, <2>1, <2>2, SteersStay DEF Asked
<1>8. ASSUME NEW p \in Position, CloseCall(p) PROVE SteerInv'
  <2> DEFINE e == [type |-> "result", turn |-> turn, call |-> <<turn, p>>,
                   gated |-> p \in Gated, msg |-> ToolMessage(p)]
  <2>1. Emit(e) /\ pc' = pc /\ outcome' = outcome /\ pc = "dispatch"
    BY <1>8 DEF CloseCall, recordVars
  <2>2. Shaped(e) /\ e.type = "result" BY DEF Shaped
  <2> HIDE DEF e
  <2>3. QED BY <1>1, <2>1, <2>2, SteersStay DEF Asked
<1>9. QED BY <1>2, <1>3, <1>4, <1>5, <1>6, <1>7, <1>8

LEMMA SteersKeptByRecord ==
  ASSUME SteerInv, EndInv, RecordPending
  PROVE  SteerInv'
<1> DEFINE e == Head(pending)
<1>1. /\ pc = "record" /\ pc' = pc /\ pending # <<>> /\ pending' = Tail(pending) /\ Emit(e)
      /\ UNCHANGED <<then, outcome, seen, received, steers>>
  BY DEF RecordPending, inboxVars
<1>2. /\ Len(pending) \in Nat /\ Len(pending) > 0 /\ Len(pending') = Len(pending) - 1
      /\ \A i \in 1..(Len(pending) - 1) : pending'[i] = pending[i + 1]
      /\ e = pending[1] /\ Shaped(e)
  BY <1>1, PendingShrinks DEF EndInv, Typed
<1> HIDE DEF e
<1>3. CASE e.type = "steer" BY <1>3, SteerRecorded DEF e
<1>4. CASE e.type # "steer"
  <2>1. Taken' = {}
    <3>1. ASSUME Taken # {} PROVE FALSE
      <4>1. Place BY <1>1, <3>1 DEF SteerInv, InHand
      <4>2. CASE then = "fold"
        <5>1. Joins(e, "fold") BY <1>1, <1>2, <4>2 DEF EndInv, Ending, Running
        <5>2. QED BY <1>4, <5>1 DEF Joins
      <4>3. CASE then = "next" /\ Taken = 1..Len(pending)
        <5>1. 1 \in Taken BY <1>2, <4>3
        <5>2. QED BY <1>2, <1>4, <5>1 DEF Taken
      <4>4. QED BY <4>1, <4>2, <4>3 DEF Place
    <3>2. ASSUME NEW i \in 1..Len(pending') PROVE pending'[i].type # "steer"
      <4>1. i + 1 \in 1..Len(pending) /\ pending'[i] = pending[i + 1] BY <1>2
      <4>2. QED BY <3>1, <4>1 DEF Taken
    <3>3. QED BY <3>2 DEF Taken
  <2>2. QED BY <1>1, <1>2, <1>4, <2>1, SteersStay DEF Asked
<1>5. QED BY <1>3, <1>4

LEMMA SteerInvStep == SteerInv /\ EndInv /\ [Next]_vars => SteerInv'
<1> SUFFICES ASSUME SteerInv, EndInv, [Next]_vars PROVE SteerInv' OBVIOUS
<1>1. CASE \/ \E c \in Commands : Send(c)
           \/ FoldNothing \/ StreamOpens \/ Chunk \/ StopBatch \/ (ChunkPolled /\ ~Interrupted)
           \/ UNCHANGED vars
  <2>1. /\ UNCHANGED <<log, seen, received, steers, pending, outcome>>
        /\ pc' = "record" => pc = "record"
        /\ pc' \in {pc, "request", "stream", "chunk"}
        /\ pc' \in {"stream", "chunk"} => pc' = pc \/ pc \in {"call", "stream", "chunk"}
    BY <1>1 DEF Send, FoldNothing, StreamOpens, Chunk, StopBatch, ChunkPolled, vars,
                recordVars, inboxVars, clientVars, TakeInterrupt
  <2>2. Asked' => Asked BY <2>1 DEF Asked
  <2>3. CASE pc' # "record" BY <2>1, <2>2, <2>3, SteersRest
  <2>4. CASE pc' = "record"
    <3>1. /\ pc = "record" /\ then' = then
      BY <1>1, <2>1, <2>4
      DEF Send, FoldNothing, StreamOpens, Chunk, StopBatch, ChunkPolled, vars, recordVars
    <3>2. /\ \A c, d : (Sooner(c, d)' <=> Sooner(c, d)) /\ (MayPrecede(c, d)' <=> MayPrecede(c, d))
          /\ Steered' = Steered /\ Taken' = Taken
      BY <2>1, ReceiptsStand DEF Steered, Taken
    <3>3. InHand' BY <2>1, <3>1, <3>2 DEF SteerInv, InHand, Place, AtFinishLine, Of
    <3>4. Receipts' /\ Applied' /\ Waiting'
      BY <2>1, <3>2 DEF SteerInv, Receipts, Applied, Waiting, AtFinishLine, Of
    <3>5. Asked' => Answered' BY <2>1, <2>2, <3>2 DEF SteerInv, Answered
    <3>6. QED BY <2>4, <3>3, <3>4, <3>5 DEF SteerInv
  <2>5. QED BY <2>3, <2>4
<1>2. CASE PollOne BY <1>2, SteersPolled
<1>3. CASE BoundaryInterrupt \/ CallFails \/ StreamFails \/ EmptyTurn \/ ReturnBatch
  BY <1>3, SteersKeptAtEnds
<1>4. CASE BoundarySteers BY <1>4, SteersTaken
<1>5. CASE \/ Start \/ FoldResults \/ Request \/ Respond
           \/ Decide \/ \E p \in Position : OpenCall(p) \/ CloseCall(p)
  BY <1>5, SteersKeptBySpeech
<1>6. CASE ChunkPolled BY <1>1, <1>6, SteersKeptAtEnds
<1>7. CASE FinishLine BY <1>7, SteersKeptAtEnds, SteersTaken
<1>8. CASE HoldBack BY <1>8, SteerHeld
<1>9. CASE RecordPending BY <1>9, SteersKeptByRecord
<1>10. CASE RecordDone
  <2>1. pc = "record" /\ UNCHANGED <<log, seen, received, steers>>
    BY <1>10 DEF RecordDone, inboxVars
  <2>2. CASE then = "next"
    <3>1. NextTurn(turn + 1) BY <1>10, <2>2 DEF RecordDone
    <3>2. Asked' => Asked BY <3>1, NextTurnTakesNone DEF Asked
    <3>3. QED BY <2>1, <3>1, <3>2, NextTurnTakesNone, SteersRest
  <2>3. CASE then # "next"
    <3>1. pc' \in {"fold", "ended"} /\ outcome' = outcome
      BY <1>10, <2>3 DEF RecordDone, recordVars, EndInv, Typed, PendingTyped
    <3>2. QED BY <2>1, <3>1, SteersRest DEF Asked
  <2>4. QED BY <2>2, <2>3
<1>11. CASE AppendFails
  <2>1. pc' = "ended" /\ outcome' = "log" /\ UNCHANGED <<log, seen, received, steers>>
    BY <1>11 DEF AppendFails, inboxVars
  <2>2. QED BY <2>1, SteersRest DEF Asked
<1>12. QED
  BY <1>1, <1>2, <1>3, <1>4, <1>5, <1>6, <1>7, <1>8, <1>9, <1>10, <1>11 DEF Next, Returned

LEMMA SteerInvTellsSteers == SteerInv /\ EndInv => SteersAreHeard
<1> SUFFICES ASSUME SteerInv, EndInv PROVE SteersAreHeard OBVIOUS
<1>1. Len(log) \in Nat /\ DOMAIN log = 1..Len(log)
  BY DEF EndInv, Typed, LogTyped, IsSequence
<1>2. Of("steer") = Steered BY <1>1 DEF Of, Steered
<1>3. SteersInReceiptOrder
  <2>1. \A i \in Steered : log[i].cmd.mode = "queue" => AtFinishLine(i)
    BY DEF SteerInv, Applied
  <2>2. \A i, j \in Steered : i < j =>
          /\ log[i].cmd.id # log[j].cmd.id
          /\ ReceivedAt(log[i].cmd) < ReceivedAt(log[j].cmd)
             \/ (log[i].cmd.mode = "inject" /\ log[j].cmd.mode = "queue")
    BY DEF SteerInv, Applied, MayPrecede, Sooner
  <2>3. QED BY <1>2, <2>1, <2>2 DEF SteersInReceiptOrder
<1>4. AppliedSteersAreAnswered
  <2> SUFFICES ASSUME Ended, outcome = "ok", NEW i \in Steered
               PROVE  \E j \in Of("request") : j > i
    BY <1>2 DEF AppliedSteersAreAnswered
  <2>1. PICK j \in 1..Len(log) : log[j].type = "request" /\ j > i
    BY DEF SteerInv, Asked, Answered
  <2>2. QED BY <1>1, <2>1 DEF Of
<1>5. QED BY <1>3, <1>4 DEF SteersAreHeard

(* Steers of both modes are applied once each and in order of receipt,     *)
(* only an inject steer overtaking and only a queued one overtaken, a      *)
(* queued one where the run would otherwise finish, and a run that         *)
(* succeeds has answered each (inbox.rs 32-58, 96-145, mod.rs 216-290).    *)
THEOREM SteersStayHeard == Spec => []SteersAreHeard
<1>1. Spec => []EndInv BY EndInvInit, EndInvStep, PTL DEF Spec
<1>2. Spec => []SteerInv BY <1>1, SteerInvInit, SteerInvStep, PTL DEF Spec
<1>3. QED BY <1>1, <1>2, SteerInvTellsSteers, PTL

---------------------------------------------------------------------------
(* The log replayed: for any commands, turn limit and calls the replayer   *)
(* recovers the live history, the completed turns and the calls in flight, *)
(* and the fold directives name results that are there.                    *)

ReplayFields == {"seen", "started", "messages", "results", "turns", "open", "finished"}
Types == {"start", "fold", "request", "response", "resolve", "call", "result",
          "steer", "inject", "interrupt", "finished"}

---------------------------------------------------------------------------
(* One event replayed.                                                     *)

LEMMA FoldEventReads ==
  ASSUME NEW s, DOMAIN s = ReplayFields, NEW e, e.type \in Types
  PROVE  LET t == FoldEvent(s, e) IN
         /\ DOMAIN t = ReplayFields /\ t.seen = s.seen
         /\ t.started <=> (e.type = "start" \/ s.started)
         /\ t.messages = IF Appends(e) THEN Append(s.messages, e.msg)
                         ELSE IF e.type = "start" /\ ~s.started THEN e.base ELSE s.messages
         /\ t.turns = IF e.type = "response" /\ e.ok THEN s.turns + 1 ELSE s.turns
         /\ t.open = IF e.type = "call" THEN Append(s.open, e.call)
                     ELSE IF e.type = "result" THEN Without(s.open, e.call) ELSE s.open
         /\ e.type = "finished" => t.finished.turns = e.turns
         /\ e.type # "finished" => t.finished = s.finished
<1>1. CASE e.type = "start"
  BY <1>1 DEF FoldEvent, Seed, Appends, ReplayFields
<1>2. CASE e.type = "response"
  BY <1>2 DEF FoldEvent, Completes, Appends, ReplayFields
<1>3. CASE e.type = "call"
  BY <1>3 DEF FoldEvent, Appends, ReplayFields
<1>4. CASE e.type = "result"
  BY <1>4 DEF FoldEvent, Appends, ReplayFields
<1>5. CASE e.type = "finished"
  BY <1>5 DEF FoldEvent, Appends, ReplayFields
<1>6. CASE e.type \in {"fold", "request", "resolve", "steer", "inject", "interrupt"}
  BY <1>6 DEF FoldEvent, Appends, ReplayFields
<1>7. QED BY <1>1, <1>2, <1>3, <1>4, <1>5, <1>6 DEF Types

\* What the replayer reads of an event.
Complete(e) ==
  /\ "type" \in DOMAIN e /\ e.type \in Types
  /\ Appends(e) => "msg" \in DOMAIN e
  /\ e.type = "start" => "base" \in DOMAIN e
  /\ e.type = "response" => "ok" \in DOMAIN e
  /\ e.type \in {"call", "result"} => "call" \in DOMAIN e
  /\ e.type = "finished" => "turns" \in DOMAIN e

Readable == DOMAIN Replayed = ReplayFields /\ Replayed.seen \subseteq 1..Len(log)

LEMMA EmitReplays ==
  ASSUME IsSequence(log), Readable, NEW e, Emit(e), Complete(e)
  PROVE  /\ Readable'
         /\ Replayed'.started <=> (e.type = "start" \/ Replayed.started)
         /\ Replayed'.messages = IF Appends(e) THEN Append(Replayed.messages, e.msg)
                                 ELSE IF e.type = "start" /\ ~Replayed.started THEN e.base
                                 ELSE Replayed.messages
         /\ Replayed'.turns = IF e.type = "response" /\ e.ok THEN Replayed.turns + 1
                              ELSE Replayed.turns
         /\ Replayed'.open = IF e.type = "call" THEN Append(Replayed.open, e.call)
                             ELSE IF e.type = "result" THEN Without(Replayed.open, e.call)
                             ELSE Replayed.open
         /\ e.type = "finished" => Replayed'.finished.turns = e.turns
         /\ e.type # "finished" => Replayed'.finished = Replayed.finished
<1> DEFINE n == Len(log) + 1
           x == Stamped(e, "id", n)
           r == [Replayed EXCEPT !.seen = @ \cup {x.id}]
<1>1. /\ x.id = n /\ x.type = e.type /\ (Appends(x) <=> Appends(e))
      /\ Appends(e) => x.msg = e.msg
      /\ e.type = "start" => x.base = e.base
      /\ e.type = "response" => x.ok = e.ok
      /\ e.type \in {"call", "result"} => x.call = e.call
      /\ e.type = "finished" => x.turns = e.turns
  BY DEF Stamped, Complete, Appends
<1>2. log' = Append(log, x) BY DEF Emit
<1> HIDE DEF x
<1>3. Len(log) \in Nat /\ Len(log') = n BY <1>2, AppendIsSequence
<1>4. Replayed' = Folded(Replayed, x)
  <2>1. Replay(Append(log, x)) = Folded(Replay(log), x) BY ReplayGoesOn
  <2>2. QED BY <1>2, <2>1 DEF Replayed
<1>5. ~Repeated(Replayed, x) BY <1>1, <1>3 DEF Readable, Repeated
<1>6. Replayed' = FoldEvent(r, x) BY <1>4, <1>5 DEF Folded
<1>7. /\ DOMAIN r = ReplayFields /\ r.seen \subseteq 1..n
      /\ r.messages = Replayed.messages /\ r.started = Replayed.started
      /\ r.turns = Replayed.turns /\ r.open = Replayed.open /\ r.finished = Replayed.finished
  BY <1>1, <1>3 DEF Readable, ReplayFields
<1>8. x.type \in Types BY <1>1 DEF Complete
<1> HIDE DEF r
<1>9. LET t == FoldEvent(r, x) IN
      /\ DOMAIN t = ReplayFields /\ t.seen = r.seen
      /\ t.started <=> (x.type = "start" \/ r.started)
      /\ t.messages = IF Appends(x) THEN Append(r.messages, x.msg)
                      ELSE IF x.type = "start" /\ ~r.started THEN x.base ELSE r.messages
      /\ t.turns = IF x.type = "response" /\ x.ok THEN r.turns + 1 ELSE r.turns
      /\ t.open = IF x.type = "call" THEN Append(r.open, x.call)
                  ELSE IF x.type = "result" THEN Without(r.open, x.call) ELSE r.open
      /\ x.type = "finished" => t.finished.turns = x.turns
      /\ x.type # "finished" => t.finished = r.finished
  BY <1>7, <1>8, FoldEventReads
<1>10. Readable' BY <1>3, <1>6, <1>7, <1>9 DEF Readable
<1>11. QED BY <1>1, <1>6, <1>7, <1>9, <1>10

---------------------------------------------------------------------------
(* The calls in flight.                                                    *)

Elements(q) == {q[i] : i \in DOMAIN q}
Distinct(q) == \A i, j \in DOMAIN q : q[i] = q[j] => i = j

LEMMA AppendElements ==
  ASSUME NEW q, IsSequence(q), NEW x
  PROVE  /\ Elements(Append(q, x)) = Elements(q) \cup {x}
         /\ Distinct(q) /\ x \notin Elements(q) => Distinct(Append(q, x))
<1> DEFINE r == Append(q, x)
<1>1. /\ IsSequence(r) /\ Len(q) \in Nat /\ Len(r) = Len(q) + 1
      /\ \A i \in 1..Len(q) : r[i] = q[i]
      /\ r[Len(q) + 1] = x
  BY AppendIsSequence
<1>2. DOMAIN q = 1..Len(q) /\ DOMAIN r = 1..(Len(q) + 1) BY <1>1 DEF IsSequence
<1> HIDE DEF r
<1>3. Elements(r) = Elements(q) \cup {x} BY <1>1, <1>2 DEF Elements
<1>4. ASSUME Distinct(q), x \notin Elements(q) PROVE Distinct(r)
  BY <1>1, <1>2, <1>4 DEF Elements, Distinct
<1>5. QED BY <1>3, <1>4 DEF r

\* A result closes its call and no other.
LEMMA WithoutCloses ==
  ASSUME NEW q, IsSequence(q), Distinct(q), NEW c
  PROVE  /\ IsSequence(Without(q, c)) /\ Distinct(Without(q, c))
         /\ Elements(Without(q, c)) = Elements(q) \ {c}
<1>1. CASE c \notin Elements(q) BY <1>1 DEF Without, Elements
<1>2. CASE c \in Elements(q)
  <2>1. DOMAIN q = 1..Len(q) /\ Len(q) \in Nat BY DEF IsSequence
  <2>2. \E i \in DOMAIN q : q[i] = c /\ \A j \in 1..(i - 1) : q[j] # c
    BY <1>2, <2>1 DEF Elements, Distinct
  <2>3. PICK k \in DOMAIN q : /\ q[k] = c /\ Without(q, c) = RemoveAt(q, k)
    <3> DEFINE k == CHOOSE i \in DOMAIN q : q[i] = c /\ \A j \in 1..(i - 1) : q[j] # c
    <3>1. k \in DOMAIN q /\ q[k] = c BY <2>2
    <3>2. Without(q, c) = RemoveAt(q, k) BY <2>2 DEF Without
    <3> HIDE DEF k
    <3>3. QED BY <3>1, <3>2
  <2> DEFINE r == Without(q, c)
  <2>4. /\ IsSequence(r) /\ DOMAIN r = 1..(Len(q) - 1)
        /\ \A i \in 1..(Len(q) - 1) : r[i] = IF i < k THEN q[i] ELSE q[i + 1]
    BY <2>1, <2>3, RemoveAtShifts
  <2> HIDE DEF r
  <2>5. Distinct(r)
    <3> SUFFICES ASSUME NEW i \in DOMAIN r, NEW j \in DOMAIN r, r[i] = r[j] PROVE i = j
      BY DEF Distinct
    <3>1. PICK x \in DOMAIN q : r[i] = q[x] /\ x = IF i < k THEN i ELSE i + 1
      <4>1. i \in 1..(Len(q) - 1) BY <2>4
      <4>2. i \in DOMAIN q /\ i + 1 \in DOMAIN q BY <2>1, <4>1
      <4>3. r[i] = IF i < k THEN q[i] ELSE q[i + 1] BY <2>4, <4>1
      <4>4. QED BY <4>2, <4>3
    <3>2. PICK y \in DOMAIN q : r[j] = q[y] /\ y = IF j < k THEN j ELSE j + 1
      <4>1. j \in 1..(Len(q) - 1) BY <2>4
      <4>2. j \in DOMAIN q /\ j + 1 \in DOMAIN q BY <2>1, <4>1
      <4>3. r[j] = IF j < k THEN q[j] ELSE q[j + 1] BY <2>4, <4>1
      <4>4. QED BY <4>2, <4>3
    <3>3. x = y BY <3>1, <3>2 DEF Distinct
    <3>4. i \in Nat /\ j \in Nat /\ k \in Nat BY <2>1, <2>4
    <3>5. QED BY <3>1, <3>2, <3>3, <3>4
  <2>6. Elements(r) \subseteq Elements(q) \ {c}
    BY <2>1, <2>3, <2>4 DEF Elements, Distinct
  <2>7. ASSUME NEW i \in DOMAIN q, i # k PROVE \E j \in DOMAIN r : r[j] = q[i]
    <3>1. CASE i < k BY <2>1, <2>4, <3>1
    <3>2. CASE i > k
      <4>1. i - 1 \in DOMAIN r /\ r[i - 1] = q[i] BY <2>1, <2>4, <3>2
      <4>2. QED BY <4>1
    <3>3. QED BY <2>1, <2>7, <3>1, <3>2
  <2>8. Elements(q) \ {c} \subseteq Elements(r) BY <2>3, <2>7 DEF Elements
  <2>9. QED BY <2>4, <2>5, <2>6, <2>8 DEF r
<1>3. QED BY <1>1, <1>2

---------------------------------------------------------------------------
(* The invariant.                                                          *)

\* The history and the count of turns are recovered.
Recovered ==
  /\ Readable /\ IsSequence(messages)
  /\ Replayed.turns = CompletedTurns
  /\ Of("finished") # {} => Replayed.finished.turns = CompletedTurns
  /\ pc = "start" => ~Replayed.started
  /\ pc # "start" /\ (Running \/ outcome = "ok") => Replayed.messages = messages

Dangling == Elements(Replayed.open)
OpenCalls == {<<turn, p>> : p \in {q \in Position : span[q] = "open"}}

\* A call dangles while the batch has it open, and in no other place.
InFlight ==
  /\ IsSequence(Replayed.open) /\ Distinct(Replayed.open) /\ DOMAIN span = Position
  /\ Of("finished") # {} => Dangling = {}
  /\ pc = "dispatch" => Dangling = OpenCalls
  /\ pc \notin {"dispatch", "ended"} => Dangling = {}

\* What is about to be appended can be replayed, and a successful end has
\* nothing left to say but that.
Sayable ==
  \A i \in 1..Len(pending) :
    /\ Complete(pending[i])
    /\ pc = "record" /\ outcome = "ok" => pending[i].type = "finished"

Tracks == Elements(tracks)

\* A track names a result of the log and where its message is.
Tracked ==
  /\ IsSequence(tracks)
  /\ \A t \in Tracks :
       /\ t.event \in 1..Len(log) /\ log[t.event].type = "result" /\ log[t.event].turn = t.turn
       /\ t.msg \in Nat /\ t.msg < Len(messages) /\ messages[t.msg + 1] = log[t.event].msg
  /\ \A t, u \in Tracks : t.event = u.event => t = u

\* A directive folds tracks that were old enough, and marks them.
Directed ==
  \A i \in 1..Len(log) : log[i].type = "fold" =>
    \A r \in log[i].refs :
      /\ r \in Tracks /\ r.msg \in folded /\ r.event < i
      /\ r.turn + RecentTurns < log[i].turn
      /\ \A j \in 1..Len(log) : log[j].type = "fold" =>
           \A s \in log[j].refs : s.event = r.event => s = r /\ j = i

ReplayInv == Recovered /\ InFlight /\ Sayable /\ Tracked /\ Directed

---------------------------------------------------------------------------
(* Steps that leave the log alone.                                         *)

LEMMA NothingSaid ==
  ASSUME ReplayInv, UNCHANGED <<log, messages, tracks, folded>>,
         pc' # "start" \/ pc = "start",
         (pc' # "start" /\ (Running' \/ outcome' = "ok"))
           => (pc # "start" /\ (Running \/ outcome = "ok"))
  PROVE  Recovered' /\ Tracked' /\ Directed' /\ Replayed' = Replayed /\ Dangling' = Dangling
<1>1. Replayed' = Replayed /\ CompletedTurns' = CompletedTurns /\ Of("finished")' = Of("finished")
  BY CountStands DEF Replayed, Of
<1>2. Dangling' = Dangling BY <1>1 DEF Dangling
<1>3. Recovered' BY <1>1 DEF ReplayInv, Recovered, Readable
<1>4. Tracks' = Tracks BY DEF Tracks
<1>5. Tracked' BY <1>4 DEF ReplayInv, Tracked
<1>6. Directed' BY <1>4 DEF ReplayInv, Directed
<1>7. QED BY <1>1, <1>2, <1>3, <1>5, <1>6

LEMMA CallsRest ==
  ASSUME ReplayInv, Replayed' = Replayed, Dangling' = Dangling, UNCHANGED <<log, span>>,
         \/ pc' = "ended"
         \/ pc' = "dispatch" /\ pc = "dispatch" /\ turn' = turn
         \/ pc' # "dispatch" /\ pc # "ended" /\ Dangling = {}
  PROVE  InFlight'
<1>1. Of("finished")' = Of("finished") BY DEF Of
<1>2. turn' = turn => OpenCalls' = OpenCalls BY DEF OpenCalls
<1>3. QED BY <1>1, <1>2 DEF ReplayInv, InFlight

\* Within a turn.
LEMMA QuietKeepsReplay ==
  ASSUME ReplayInv, UNCHANGED <<log, messages, tracks, folded, pending, then, outcome, turn, span>>,
         pc \notin {"start", "record", "ended"}, pc' \notin {"start", "record", "ended"},
         pc' = "dispatch" <=> pc = "dispatch"
  PROVE  ReplayInv'
<1>1. Running BY DEF Running
<1>2. Recovered' /\ Tracked' /\ Directed' /\ Replayed' = Replayed /\ Dangling' = Dangling
  BY <1>1, NothingSaid
<1>3. pc # "dispatch" => Dangling = {} BY DEF ReplayInv, InFlight
<1>4. InFlight' BY <1>2, <1>3, CallsRest
<1>5. Sayable' BY DEF ReplayInv, Sayable, Complete
<1>6. QED BY <1>2, <1>4, <1>5 DEF ReplayInv

\* What leads to the record loop.
LEMMA PlanKeepsReplay ==
  ASSUME ReplayInv, UNCHANGED <<log, messages, tracks, folded, span>>,
         pc \notin {"start", "record", "ended"}, pc' = "record", Dangling = {},
         \A i \in 1..Len(pending') :
           Complete(pending[i])' /\ (outcome' = "ok" => pending'[i].type = "finished")
  PROVE  ReplayInv'
<1>1. Running BY DEF Running
<1>2. Recovered' /\ Tracked' /\ Directed' /\ Replayed' = Replayed /\ Dangling' = Dangling
  BY <1>1, NothingSaid
<1>3. InFlight' BY <1>2, CallsRest
<1>4. Sayable' BY DEF Sayable
<1>5. QED BY <1>2, <1>3, <1>4 DEF ReplayInv

---------------------------------------------------------------------------
(* What the steps plan to append.                                          *)

LEMMA CommandIsComplete == \A c : Complete(CommandEvent(c))
  BY DEF Complete, CommandEvent, Appends, Types

LEMMA ResponseIsComplete == \A ok : Complete(Response(ok))
  BY DEF Complete, Response, Appends, Types

LEMMA EndIsSayable ==
  ASSUME NEW events, IsSequence(events), \A i \in 1..Len(events) : Complete(events[i]),
         NEW completed, NEW error, End(events, completed, error), error = "ok" => events = <<>>
  PROVE  /\ pc' = "record" /\ outcome' = error /\ then' = "ended"
         /\ \A i \in 1..Len(pending') :
              Complete(pending[i])' /\ (outcome' = "ok" => pending'[i].type = "finished")
<1> DEFINE f == Finished(completed, error)
<1>1. pending' = Append(events, f) /\ pc' = "record" /\ outcome' = error /\ then' = "ended"
  BY DEF End, Plan
<1>2. Complete(f) /\ f.type = "finished" BY DEF Complete, Finished, Appends, Types
<1> HIDE DEF f
<1>3. /\ Len(events) \in Nat /\ Len(pending') = Len(events) + 1
      /\ \A i \in 1..Len(events) : pending'[i] = events[i]
      /\ pending'[Len(events) + 1] = f
  BY <1>1, AppendIsSequence
<1>4. events = <<>> => Len(events) = 0 OBVIOUS
<1>5. \A i \in 1..Len(pending') :
        Complete(pending'[i]) /\ (outcome' = "ok" => pending'[i].type = "finished")
  BY <1>1, <1>2, <1>3, <1>4
<1>6. QED BY <1>1, <1>5 DEF Complete

\* The events of one or two that precede the end.
LEMMA FewEvents ==
  /\ IsSequence(<<>>) /\ Len(<<>>) = 0
  /\ \A e : IsSequence(<<e>>) /\ Len(<<e>>) = 1 /\ <<e>>[1] = e
  /\ \A e, f : IsSequence(<<e, f>>) /\ Len(<<e, f>>) = 2 /\ <<e, f>>[1] = e /\ <<e, f>>[2] = f
  BY DEF IsSequence

LEMMA NothingDangles ==
  ASSUME ReplayInv, pc \notin {"dispatch", "ended"} \/ (pc = "dispatch" /\ Batch!Return)
  PROVE  Dangling = {}
<1>1. CASE pc \notin {"dispatch", "ended"} BY <1>1 DEF ReplayInv, InFlight
<1>2. CASE pc = "dispatch" /\ Batch!Return
  <2>1. OpenCalls = {} BY <1>2 DEF OpenCalls, Batch!Return, Batch!Position, Position
  <2>2. QED BY <1>2, <2>1 DEF ReplayInv, InFlight
<1>3. QED BY <1>1, <1>2

LEMMA EndsKeepReplay ==
  ASSUME ReplayInv, EndInv,
         \/ BoundaryInterrupt \/ CallFails \/ StreamFails \/ EmptyTurn
         \/ ChunkPolled /\ Interrupted
         \/ FinishLine /\ (Interrupted \/ ~ContinuesRun)
         \/ ReturnBatch /\ BatchStopped
  PROVE  ReplayInv'
<1>1. /\ UNCHANGED <<log, messages, tracks, folded, span>>
      /\ pc \notin {"start", "record", "ended"} /\ pc' = "record"
      /\ pc = "dispatch" => Batch!Return
  BY DEF BoundaryInterrupt, CallFails, StreamFails, EmptyTurn, ChunkPolled, FinishLine, ReturnBatch,
         End, Plan, batchVars, foldVars, Batch!Return
<1> DEFINE Fit(q) == IsSequence(q) /\ \A i \in 1..Len(q) : Complete(q[i])
<1>2. \A e : Complete(e) => Fit(<<e>>) BY FewEvents
<1>3. \A e, f : Complete(e) /\ Complete(f) => Fit(<<e, f>>) BY FewEvents
<1>4. Fit(<<>>) BY FewEvents
<1> HIDE DEF Fit
<1>5. PICK events, completed, error :
        End(events, completed, error) /\ Fit(events) /\ (error = "ok" => events = <<>>)
  <2>1. CASE BoundaryInterrupt
    <3>1. End(<<CommandEvent(pendingInterrupt)>>, turn - 1, "interrupted")
      BY <2>1 DEF BoundaryInterrupt
    <3>2. Fit(<<CommandEvent(pendingInterrupt)>>) BY <1>2, CommandIsComplete
    <3>3. QED BY <3>1, <3>2
  <2>2. CASE CallFails
    <3>1. End(<<>>, turn - 1, "provider") BY <2>2 DEF CallFails
    <3>2. QED BY <1>4, <3>1
  <2>3. CASE StreamFails
    <3>1. End(<<Response(FALSE)>>, turn - 1, "provider") BY <2>3 DEF StreamFails
    <3>2. Fit(<<Response(FALSE)>>) BY <1>2, ResponseIsComplete
    <3>3. QED BY <3>1, <3>2
  <2>4. CASE EmptyTurn
    <3>1. End(<<Response(FALSE)>>, CompletedBeforeEmpty, "empty") BY <2>4 DEF EmptyTurn
    <3>2. Fit(<<Response(FALSE)>>) BY <1>2, ResponseIsComplete
    <3>3. QED BY <3>1, <3>2
  <2>5. CASE ChunkPolled /\ Interrupted
    <3>1. End(<<CommandEvent(pendingInterrupt), Response(FALSE)>>, turn - 1, "interrupted")
      BY <2>5 DEF ChunkPolled, CutOff
    <3>2. Fit(<<CommandEvent(pendingInterrupt), Response(FALSE)>>)
      BY <1>3, CommandIsComplete, ResponseIsComplete
    <3>3. QED BY <3>1, <3>2
  <2>6. CASE FinishLine /\ Interrupted
    <3>1. End(<<>>, turn, "ok") BY <2>6 DEF FinishLine
    <3>2. QED BY <1>4, <3>1
  <2>7. CASE FinishLine /\ ~Interrupted /\ ~ContinuesRun
    <3>1. End(Steering(steers), turn, "ok") BY <2>7 DEF FinishLine
    <3>2. Steering(steers) = <<>>
      BY <2>7, SteeringIsSteers DEF ContinuesRun, EndInv, Typed
    <3>3. QED BY <1>4, <3>1, <3>2
  <2>8. CASE ReturnBatch /\ BatchStopped
    <3>1. End(<<CommandEvent(taken)>>, turn, "interrupted") BY <2>8 DEF ReturnBatch
    <3>2. Fit(<<CommandEvent(taken)>>) BY <1>2, CommandIsComplete
    <3>3. QED BY <3>1, <3>2
  <2>9. QED BY <2>1, <2>2, <2>3, <2>4, <2>5, <2>6, <2>7, <2>8
<1>6. \A i \in 1..Len(pending') :
        Complete(pending[i])' /\ (outcome' = "ok" => pending'[i].type = "finished")
  BY <1>5, EndIsSayable DEF Fit
<1>7. Dangling = {} BY <1>1, NothingDangles
<1>8. QED BY <1>1, <1>6, <1>7, PlanKeepsReplay

\* Steers and instruction files on their way to the history.
LEMMA PlansKeepReplay ==
  ASSUME ReplayInv, EndInv, EndInv',
         BoundarySteers \/ (FinishLine /\ ~Interrupted /\ ContinuesRun) \/ (ReturnBatch /\ ~BatchStopped)
  PROVE  ReplayInv'
<1>1. /\ UNCHANGED <<log, messages, tracks, folded, span, outcome>>
      /\ pc \notin {"start", "record", "ended"} /\ pc' = "record" /\ then' \in {"fold", "next"}
      /\ pc = "dispatch" => Batch!Return
  BY DEF BoundarySteers, FinishLine, ReturnBatch, Plan, batchVars, foldVars, Batch!Return
<1>2. outcome' = "running" BY <1>1 DEF EndInv, Ending, Running
<1>3. \A i \in 1..Len(pending') : Complete(pending'[i])
  <2>1. CASE BoundarySteers \/ (FinishLine /\ ~Interrupted /\ ContinuesRun)
    <3>1. pending' = Steering(steers) BY <2>1 DEF BoundarySteers, FinishLine, Plan
    <3>2. /\ Len(Steering(steers)) = Len(steers) /\ DOMAIN steers = 1..Len(steers)
      BY SteeringIsSteers DEF EndInv, Typed, InboxTyped
    <3>3. \A i \in 1..Len(steers) : Steering(steers)[i] = CommandEvent(steers[i])
      BY <3>2 DEF Steering
    <3>4. QED BY <3>1, <3>2, <3>3, CommandIsComplete
  <2>2. CASE ReturnBatch /\ ~BatchStopped
    <3>1. PICK k \in 0..MaxNested : pending' = [i \in 1..k |-> InjectEvent(i)]
      BY <2>2 DEF ReturnBatch, Plan
    <3>2. \A i : Complete(InjectEvent(i)) BY DEF Complete, InjectEvent, Appends, Types
    <3>3. Len(pending') = k BY <3>1, AgentLoopAssumption
    <3>4. QED BY <3>1, <3>2, <3>3
  <2>3. QED BY <2>1, <2>2
<1>4. \A i \in 1..Len(pending') :
        Complete(pending[i])' /\ (outcome' = "ok" => pending'[i].type = "finished")
  BY <1>2, <1>3 DEF Complete
<1>5. Dangling = {} BY <1>1, NothingDangles
<1>6. QED BY <1>1, <1>4, <1>5, PlanKeepsReplay

---------------------------------------------------------------------------
(* Steps that append an event.                                             *)

LEMMA FinishedIsLast ==
  ASSUME EndInv', IsSequence(log), NEW e, Emit(e), Complete(e), Of("finished")' # {}
  PROVE  e.type = "finished" /\ e.turns = CompletedTurns'
<1>1. /\ IsSequence(log') /\ Len(log) \in Nat /\ Len(log') = Len(log) + 1
      /\ \A i \in 1..Len(log) : log'[i] = log[i]
      /\ \A f \in DOMAIN e \ {"id"} : log'[Len(log) + 1][f] = e[f]
      /\ log'[Len(log) + 1].type = e.type
  BY EmitAppends DEF Complete
<1>2. DOMAIN log' = 1..Len(log') BY <1>1 DEF IsSequence
<1>3. Marks'
  <2>1. Clean' => Marks' BY <1>2 DEF Clean, Marks
  <2>2. Running' \/ (pc = "record" /\ then = "ended")' \/ (pc = "ended")' BY DEF Running
  <2>3. QED BY <2>1, <2>2 DEF EndInv, Ending, Closed, Closing
<1>4. PICK i \in 1..Len(log') : log'[i].type = "finished" BY <1>2 DEF Of
<1>5. i = Len(log) + 1 /\ log'[i].turns = CompletedTurns' BY <1>1, <1>3, <1>4 DEF Marks
<1>6. e.type = "finished" BY <1>1, <1>4, <1>5
<1>7. "turns" \in DOMAIN e \ {"id"} BY <1>6 DEF Complete
<1>8. QED BY <1>1, <1>5, <1>6, <1>7

LEMMA SpeechRecovers ==
  ASSUME ReplayInv, EndInv, EndInv', NEW e, Emit(e), Complete(e), pc' # "start",
         IsSequence(messages'), e.type = "start" => pc = "start",
         (Running' \/ outcome' = "ok") =>
           IF pc = "start" THEN e.type = "start" /\ messages' = e.base
           ELSE /\ Running \/ outcome = "ok"
                /\ messages' = IF Appends(e) THEN Append(messages, e.msg) ELSE messages
  PROVE  Recovered' /\ Readable'
<1>1. IsSequence(log) /\ Readable BY DEF ReplayInv, Recovered, EndInv, Typed, LogTyped
<1>2. /\ Readable'
      /\ Replayed'.started <=> (e.type = "start" \/ Replayed.started)
      /\ Replayed'.messages = IF Appends(e) THEN Append(Replayed.messages, e.msg)
                              ELSE IF e.type = "start" /\ ~Replayed.started THEN e.base
                              ELSE Replayed.messages
      /\ Replayed'.turns = IF e.type = "response" /\ e.ok THEN Replayed.turns + 1
                           ELSE Replayed.turns
      /\ e.type = "finished" => Replayed'.finished.turns = e.turns
  BY <1>1, EmitReplays
<1>3. CompletedTurns' = IF e.type = "response" /\ e.ok THEN CompletedTurns + 1 ELSE CompletedTurns
  BY <1>1, EmitCounts DEF Complete
<1>4. Replayed'.turns = CompletedTurns' BY <1>2, <1>3 DEF ReplayInv, Recovered
<1>5. Of("finished")' # {} => Replayed'.finished.turns = CompletedTurns'
  BY <1>1, <1>2, FinishedIsLast
<1>6. Running' \/ outcome' = "ok" => Replayed'.messages = messages'
  <2> SUFFICES ASSUME Running' \/ outcome' = "ok" PROVE Replayed'.messages = messages' OBVIOUS
  <2>1. CASE pc = "start"
    BY <1>2, <2>1 DEF ReplayInv, Recovered, Appends
  <2>2. CASE pc # "start"
    <3>1. Replayed.messages = messages BY <2>2 DEF ReplayInv, Recovered
    <3>2. QED BY <1>2, <2>2, <3>1
  <2>3. QED BY <2>1, <2>2
<1>7. QED BY <1>2, <1>4, <1>5, <1>6 DEF Recovered

\* Events that open and close no call.
LEMMA SpeechKeepsCalls ==
  ASSUME ReplayInv, EndInv, EndInv', NEW e, Emit(e), Complete(e),
         e.type \notin {"call", "result"}, DOMAIN span' = Position,
         pc = "dispatch" => pc' = "dispatch" /\ UNCHANGED <<turn, span>> /\ e.type # "finished",
         pc # "dispatch" /\ pc' = "dispatch" => OpenCalls' = {}, pc # "ended"
  PROVE  InFlight'
<1>1. IsSequence(log) /\ Readable BY DEF ReplayInv, Recovered, EndInv, Typed, LogTyped
<1>2. Replayed'.open = Replayed.open BY <1>1, EmitReplays
<1>3. Dangling' = Dangling BY <1>2 DEF Dangling
<1>4. Of("finished")' # {} => e.type = "finished" BY <1>1, FinishedIsLast
<1>5. CASE pc = "dispatch"
  <2>1. OpenCalls' = OpenCalls BY <1>5 DEF OpenCalls
  <2>2. QED BY <1>2, <1>3, <1>4, <1>5, <2>1 DEF ReplayInv, InFlight
<1>6. CASE pc # "dispatch"
  <2>1. Dangling' = {} BY <1>3, <1>6 DEF ReplayInv, InFlight
  <2>2. QED BY <1>2, <1>6, <2>1 DEF ReplayInv, InFlight
<1>7. QED BY <1>5, <1>6

\* A longer log and a longer history leave every track where it is.
LEMMA TracksStand ==
  ASSUME ReplayInv, EndInv, NEW e, Emit(e), Complete(e), tracks' = tracks,
         messages' = messages \/ \E m : messages' = Append(messages, m)
  PROVE  Tracked' /\ IsSequence(messages')
<1>1. IsSequence(log) /\ IsSequence(messages)
  BY DEF ReplayInv, Recovered, EndInv, Typed, LogTyped
<1>2. /\ Len(log) \in Nat /\ Len(log') = Len(log) + 1
      /\ \A i \in 1..Len(log) : log'[i] = log[i]
  BY <1>1, EmitAppends DEF Complete
<1>3. /\ Len(messages) \in Nat /\ Len(messages') \in Nat /\ Len(messages) <= Len(messages')
      /\ \A i \in 1..Len(messages) : messages'[i] = messages[i]
      /\ IsSequence(messages')
  <2>1. CASE messages' = messages BY <1>1, <2>1 DEF IsSequence
  <2>2. ASSUME NEW m, messages' = Append(messages, m)
        PROVE  /\ Len(messages) \in Nat /\ Len(messages') = Len(messages) + 1
               /\ \A i \in 1..Len(messages) : messages'[i] = messages[i]
               /\ IsSequence(messages')
    BY <1>1, <2>2, AppendIsSequence
  <2>3. QED BY <2>1, <2>2
<1>4. Tracks' = Tracks BY DEF Tracks
<1>5. ASSUME NEW t \in Tracks
      PROVE  /\ t.event \in 1..Len(log') /\ log'[t.event].type = "result"
             /\ log'[t.event].turn = t.turn
             /\ t.msg \in Nat /\ t.msg < Len(messages') /\ messages'[t.msg + 1] = log'[t.event].msg
  <2>1. /\ t.event \in 1..Len(log) /\ log[t.event].type = "result" /\ log[t.event].turn = t.turn
        /\ t.msg \in Nat /\ t.msg < Len(messages) /\ messages[t.msg + 1] = log[t.event].msg
    BY DEF ReplayInv, Tracked
  <2>2. t.msg + 1 \in 1..Len(messages) BY <1>3, <2>1
  <2>3. messages'[t.msg + 1] = messages[t.msg + 1] BY <1>3, <2>2
  <2>4. log'[t.event] = log[t.event] /\ t.event \in 1..Len(log') BY <1>2, <2>1
  <2>5. t.msg \in Nat /\ t.msg < Len(messages') BY <1>3, <2>1
  <2>6. QED BY <2>1, <2>3, <2>4, <2>5
<1>6. QED BY <1>3, <1>4, <1>5 DEF ReplayInv, Tracked

LEMMA DirectivesStand ==
  ASSUME ReplayInv, EndInv, NEW e, Emit(e), Complete(e), e.type # "fold",
         Tracks \subseteq Tracks', folded' = folded
  PROVE  Directed'
<1>1. IsSequence(log) BY DEF EndInv, Typed, LogTyped
<1>2. /\ Len(log) \in Nat /\ Len(log') = Len(log) + 1
      /\ \A i \in 1..Len(log) : log'[i] = log[i]
      /\ log'[Len(log) + 1].type # "fold"
  BY <1>1, EmitAppends DEF Complete
<1>3. \A i \in 1..Len(log') : log'[i].type = "fold" => i \in 1..Len(log) /\ log'[i] = log[i]
  BY <1>2
<1>4. QED BY <1>3 DEF ReplayInv, Directed

---------------------------------------------------------------------------
(* The steps of the run.                                                   *)

LEMMA StartKeepsReplay == ASSUME ReplayInv, EndInv, EndInv', Start PROVE ReplayInv'
<1> DEFINE e == [type |-> "start", base |-> messages]
<1>1. /\ pc = "start" /\ Emit(e) /\ NextTurn(turn) /\ UNCHANGED <<messages, tracks, folded, span>>
  BY DEF Start, foldVars, batchVars
<1>2. Complete(e) /\ e.type = "start" /\ e.base = messages BY DEF Complete, Appends, Types
<1> HIDE DEF e
<1>3. pc' \in {"boundary", "record"} /\ \A i \in 1..Len(pending') :
        Complete(pending[i])' /\ (pc' = "record" /\ outcome' = "ok" => pending'[i].type = "finished")
  <2>1. CASE WithinLimit(turn)
    BY <1>1, <2>1 DEF NextTurn, recordVars, ReplayInv, Sayable, Complete
  <2>2. CASE ~WithinLimit(turn)
    <3>1. End(<<>>, MaxTurns, "limit") BY <1>1, <2>2 DEF NextTurn
    <3>2. QED BY <3>1, FewEvents, EndIsSayable
  <2>3. QED BY <2>1, <2>2
<1>4. Sayable' BY <1>3 DEF Sayable
<1>5. Tracked' /\ IsSequence(messages') BY <1>1, <1>2, TracksStand
<1>6. Directed'
  <2>1. Tracks \subseteq Tracks' BY <1>1 DEF Tracks
  <2>2. QED BY <1>1, <1>2, <2>1, DirectivesStand
<1>7. Recovered' BY <1>1, <1>2, <1>3, <1>5, SpeechRecovers
<1>8. InFlight'
  <2>1. DOMAIN span' = Position BY <1>1 DEF ReplayInv, InFlight
  <2>2. QED BY <1>1, <1>2, <1>3, <2>1, SpeechKeepsCalls
<1>9. QED BY <1>4, <1>5, <1>6, <1>7, <1>8 DEF ReplayInv

LEMMA RequestKeepsReplay == ASSUME ReplayInv, EndInv, EndInv', Request \/ Decide PROVE ReplayInv'
<1>1. PICK e : /\ Emit(e) /\ Complete(e) /\ e.type \in {"request", "resolve"}
  <2> DEFINE Plain(e) == Complete(e) /\ e.type \in {"request", "resolve"}
  <2>1. CASE Request
    <3> DEFINE e == [type |-> "request", turn |-> turn]
    <3>1. Emit(e) BY <2>1 DEF Request
    <3>2. Plain(e) BY DEF Complete, Appends, Types
    <3>3. QED BY <3>1, <3>2
  <2>2. CASE Decide
    <3> DEFINE e == [type |-> "resolve"]
    <3>1. Emit(e) BY <2>2 DEF Decide
    <3>2. Plain(e) BY DEF Complete, Appends, Types
    <3>3. QED BY <3>1, <3>2
  <2>3. QED BY <2>1, <2>2
<1>2. /\ UNCHANGED <<messages, tracks, folded, pending, then, outcome, turn, span>>
      /\ pc \in {"request", "dispatch"} /\ pc' \in {"call", "dispatch"}
      /\ pc = "dispatch" <=> pc' = "dispatch"
  BY DEF Request, Decide, Batch!Decide, recordVars, foldVars, batchVars
<1>3. Running /\ ~Appends(e) BY <1>1, <1>2 DEF Running, Appends
<1>4. Tracked' /\ IsSequence(messages') BY <1>1, <1>2, TracksStand
<1>5. Directed'
  <2>1. Tracks \subseteq Tracks' BY <1>2 DEF Tracks
  <2>2. QED BY <1>1, <1>2, <2>1, DirectivesStand
<1>6. Recovered' BY <1>1, <1>2, <1>3, <1>4, SpeechRecovers
<1>7. InFlight'
  <2>1. DOMAIN span' = Position BY <1>2 DEF ReplayInv, InFlight
  <2>2. QED BY <1>1, <1>2, <2>1, SpeechKeepsCalls
<1>8. Sayable' BY <1>2 DEF ReplayInv, Sayable, Complete
<1>9. QED BY <1>4, <1>5, <1>6, <1>7, <1>8 DEF ReplayInv

LEMMA RespondKeepsReplay == ASSUME ReplayInv, EndInv, EndInv', Respond PROVE ReplayInv'
<1> DEFINE e == Response(TRUE)
<1>1. /\ Emit(e) /\ messages' = Append(messages, AssistantMessage)
      /\ UNCHANGED <<tracks, folded, pending, then, outcome, turn>>
      /\ pc = "stream" /\ pc' \in {"dispatch", "finish"}
  BY DEF Respond, recordVars, foldVars
<1>2. Complete(e) /\ e.type = "response" /\ e.msg = AssistantMessage /\ Appends(e)
  BY ResponseIsComplete DEF Response, Appends
<1>3. DOMAIN span' = Position /\ (pc' = "dispatch" => OpenCalls' = {})
  <2>1. CASE content = "calls"
    <3>1. span' = [p \in Position |-> "idle"] BY <2>1 DEF Respond, OpenBatch
    <3>2. QED BY <3>1 DEF OpenCalls
  <2>2. CASE content # "calls"
    <3>1. span' = span /\ pc' = "finish" BY <2>2 DEF Respond, batchVars
    <3>2. QED BY <3>1 DEF ReplayInv, InFlight
  <2>3. QED BY <2>1, <2>2
<1> HIDE DEF e
<1>4. Running BY <1>1 DEF Running
<1>5. Tracked' /\ IsSequence(messages') BY <1>1, <1>2, TracksStand
<1>6. Directed'
  <2>1. Tracks \subseteq Tracks' BY <1>1 DEF Tracks
  <2>2. QED BY <1>1, <1>2, <2>1, DirectivesStand
<1>7. Recovered' BY <1>1, <1>2, <1>4, <1>5, SpeechRecovers
<1>8. InFlight' BY <1>1, <1>2, <1>3, SpeechKeepsCalls
<1>9. Sayable' BY <1>1 DEF ReplayInv, Sayable, Complete
<1>10. QED BY <1>5, <1>6, <1>7, <1>8, <1>9 DEF ReplayInv

LEMMA PendingIsSayable ==
  ASSUME ReplayInv, EndInv, pending # <<>>, pending' = Tail(pending), outcome' = outcome,
         pc = "record", pc' = "record"
  PROVE  Sayable' /\ Complete(Head(pending)) /\ Len(pending) \in Nat /\ Head(pending) = pending[1]
         /\ (outcome = "ok" => Head(pending).type = "finished") /\ Len(pending) > 0
<1>1. IsSequence(pending) BY DEF EndInv, Typed, PendingTyped
<1>2. /\ Len(pending) \in Nat /\ Len(pending) > 0 /\ Len(pending') = Len(pending) - 1
      /\ \A i \in 1..(Len(pending) - 1) : pending'[i] = pending[i + 1]
      /\ Head(pending) = pending[1]
  BY <1>1, TailIsSequence
<1>3. \A i \in 1..Len(pending) :
        Complete(pending[i]) /\ (outcome = "ok" => pending[i].type = "finished")
  BY DEF ReplayInv, Sayable
<1>4. \A i \in 1..Len(pending') :
        Complete(pending'[i]) /\ (outcome = "ok" => pending'[i].type = "finished")
  BY <1>2, <1>3
<1>5. Sayable' BY <1>4 DEF Sayable, Complete
<1>6. 1 \in 1..Len(pending) BY <1>2
<1>7. QED BY <1>2, <1>3, <1>5, <1>6

LEMMA RecordPendingKeepsReplay ==
  ASSUME ReplayInv, EndInv, EndInv', RecordPending
  PROVE  ReplayInv'
<1> DEFINE e == Head(pending)
<1>1. /\ pc = "record" /\ pc' = "record" /\ pending # <<>> /\ pending' = Tail(pending) /\ Emit(e)
      /\ UNCHANGED <<tracks, folded, then, outcome, turn, span>>
      /\ messages' = IF JoinsHistory(e) THEN Append(messages, e.msg) ELSE messages
  BY DEF RecordPending, foldVars, batchVars
<1>2. /\ Sayable' /\ Complete(e) /\ Len(pending) \in Nat /\ e = pending[1] /\ Len(pending) > 0
      /\ outcome = "ok" => e.type = "finished"
  BY <1>1, PendingIsSayable
<1> HIDE DEF e
<1>3. /\ Running => e.type \in {"steer", "inject"}
      /\ ~Running => e.type \in {"interrupt", "response", "finished"}
  <2>1. CASE Running
    <3>1. 1 \in 1..Len(pending) BY <1>2
    <3>2. Joins(e, then) BY <1>1, <1>2, <2>1, <3>1 DEF EndInv, Ending
    <3>3. QED BY <2>1, <3>2 DEF Joins
  <2>2. CASE ~Running
    <3>1. Closing BY <1>1, <2>2 DEF EndInv, Ending, Running
    <3>2. CASE Len(pending) = 1 BY <1>2, <2>2, <3>1, <3>2 DEF Closing
    <3>3. CASE Len(pending) # 1
      <4>1. 1 \in 1..(Len(pending) - 1) BY <1>2, <3>3
      <4>2. QED BY <1>2, <2>2, <3>1, <4>1 DEF Closing
    <3>4. QED BY <3>2, <3>3
  <2>3. QED BY <2>1, <2>2
<1>4. e.type \notin {"call", "result", "fold", "start"} BY <1>3
<1>5. Tracked' /\ IsSequence(messages') BY <1>1, <1>2, TracksStand
<1>6. Directed'
  <2>1. Tracks \subseteq Tracks' BY <1>1 DEF Tracks
  <2>2. QED BY <1>1, <1>2, <1>4, <2>1, DirectivesStand
<1>7. Recovered'
  <2>1. Running' <=> Running BY <1>1 DEF Running
  <2>2. Running \/ outcome = "ok" => (Appends(e) <=> JoinsHistory(e))
    BY <1>2, <1>3 DEF Appends, JoinsHistory
  <2>3. QED BY <1>1, <1>2, <1>4, <1>5, <2>1, <2>2, SpeechRecovers
<1>8. InFlight'
  <2>1. DOMAIN span' = Position BY <1>1 DEF ReplayInv, InFlight
  <2>2. QED BY <1>1, <1>2, <1>4, <2>1, SpeechKeepsCalls
<1>9. QED BY <1>2, <1>5, <1>6, <1>7, <1>8 DEF ReplayInv

\* The candidates are tracks of old turns that no directive has named.
LEMMA FoldKeepsReplay == ASSUME ReplayInv, EndInv, EndInv', FoldResults PROVE ReplayInv'
<1> DEFINE e == [type |-> "fold", turn |-> turn, refs |-> Candidates]
           n == Len(log) + 1
<1>1. /\ Emit(e) /\ pc = "fold" /\ pc' = "request" /\ folded' = folded \cup {t.msg : t \in Candidates}
      /\ UNCHANGED <<messages, tracks, pending, then, outcome, turn, span>>
  BY DEF FoldResults, recordVars, batchVars
<1>2. Complete(e) /\ e.type = "fold" /\ ~Appends(e) /\ e.turn = turn /\ e.refs = Candidates
      /\ {"turn", "refs"} \subseteq DOMAIN e \ {"id"}
  BY DEF Complete, Appends, Types
<1> HIDE DEF e
<1>3. Running BY <1>1 DEF Running
<1>4. Tracked' /\ IsSequence(messages') BY <1>1, <1>2, TracksStand
<1>5. Recovered' BY <1>1, <1>2, <1>3, <1>4, SpeechRecovers
<1>6. InFlight'
  <2>1. DOMAIN span' = Position BY <1>1 DEF ReplayInv, InFlight
  <2>2. QED BY <1>1, <1>2, <2>1, SpeechKeepsCalls
<1>7. Sayable' BY <1>1 DEF ReplayInv, Sayable, Complete
<1>8. Directed'
  <2>1. IsSequence(log) BY DEF EndInv, Typed, LogTyped
  <2>2. /\ Len(log) \in Nat /\ Len(log') = n
        /\ \A i \in 1..Len(log) : log'[i] = log[i]
        /\ log'[n].turn = turn /\ log'[n].refs = Candidates
    BY <1>1, <1>2, <2>1, EmitAppends DEF Complete
  <2> HIDE DEF n
  <2>3. Tracks' = Tracks BY <1>1 DEF Tracks
  <2>4. ASSUME NEW r \in Candidates
        PROVE  /\ r \in Tracks /\ r.turn + RecentTurns < turn /\ r.msg \notin folded
               /\ r.msg \in folded' /\ r.event \in 1..Len(log)
    <3>1. r \in Tracks BY DEF Candidates, ToSet, Tracks, Elements
    <3>2. r.turn + RecentTurns < turn /\ r.msg \notin folded BY DEF Candidates, Foldable
    <3>3. QED BY <1>1, <3>1, <3>2 DEF ReplayInv, Tracked
  <2>5. ASSUME NEW i \in 1..Len(log), log[i].type = "fold", NEW s \in log[i].refs
        PROVE  /\ s \in Tracks /\ s.msg \in folded /\ s.event < i
               /\ s.turn + RecentTurns < log[i].turn
    BY <2>5 DEF ReplayInv, Directed
  <2>6. ASSUME NEW i \in 1..Len(log), log[i].type = "fold", NEW s \in log[i].refs,
               NEW r \in Candidates
        PROVE  s.event # r.event
    <3>1. s \in Tracks /\ s.msg \in folded /\ r \in Tracks /\ r.msg \notin folded
      BY <2>4, <2>5, <2>6
    <3>2. QED BY <3>1 DEF ReplayInv, Tracked
  <2>7. ASSUME NEW i \in 1..n, log'[i].type = "fold", NEW r \in log'[i].refs
        PROVE  /\ r \in Tracks' /\ r.msg \in folded' /\ r.event < i
               /\ r.turn + RecentTurns < log'[i].turn
    <3>1. CASE i = n BY <2>2, <2>3, <2>4, <2>7, <3>1 DEF n
    <3>2. CASE i # n
      <4>1. i \in 1..Len(log) /\ log'[i] = log[i] BY <2>2, <3>2 DEF n
      <4>2. QED BY <1>1, <2>3, <2>5, <2>7, <4>1
    <3>3. QED BY <3>1, <3>2
  <2>8. ASSUME NEW i \in 1..n, log'[i].type = "fold", NEW r \in log'[i].refs,
               NEW j \in 1..n, log'[j].type = "fold", NEW s \in log'[j].refs,
               s.event = r.event
        PROVE  s = r /\ j = i
    <3>1. \A k \in 1..n : k # n => k \in 1..Len(log) /\ log'[k] = log[k] BY <2>2 DEF n
    <3>2. CASE i = n /\ j = n
      <4>1. r \in Tracks /\ s \in Tracks BY <2>2, <2>4, <2>8, <3>2
      <4>2. QED BY <2>8, <3>2, <4>1 DEF ReplayInv, Tracked
    <3>3. CASE i = n /\ j # n
      <4>1. j \in 1..Len(log) /\ log[j].type = "fold" /\ s \in log[j].refs /\ r \in Candidates
        BY <2>2, <2>8, <3>1, <3>3
      <4>2. QED BY <2>6, <2>8, <4>1
    <3>4. CASE i # n /\ j = n
      <4>1. i \in 1..Len(log) /\ log[i].type = "fold" /\ r \in log[i].refs /\ s \in Candidates
        BY <2>2, <2>8, <3>1, <3>4
      <4>2. QED BY <2>6, <2>8, <4>1
    <3>5. CASE i # n /\ j # n
      <4>1. /\ i \in 1..Len(log) /\ log[i].type = "fold" /\ r \in log[i].refs
            /\ j \in 1..Len(log) /\ log[j].type = "fold" /\ s \in log[j].refs
        BY <2>8, <3>1, <3>5
      <4>2. QED BY <2>8, <4>1 DEF ReplayInv, Directed
    <3>6. QED BY <3>2, <3>3, <3>4, <3>5
  <2>9. QED BY <2>2, <2>7, <2>8 DEF Directed
<1>9. QED BY <1>4, <1>5, <1>6, <1>7, <1>8 DEF ReplayInv

LEMMA OpenKeepsReplay ==
  ASSUME ReplayInv, EndInv, EndInv', NEW p \in Position, OpenCall(p)
  PROVE  ReplayInv'
<1> DEFINE e == [type |-> "call", call |-> <<turn, p>>]
<1>1. /\ Emit(e) /\ pc = "dispatch" /\ pc' = "dispatch"
      /\ span[p] = "idle" /\ span' = [span EXCEPT ![p] = "open"]
      /\ UNCHANGED <<messages, tracks, folded, pending, then, outcome, turn>>
  BY DEF OpenCall, Batch!Open, recordVars, foldVars
<1>2. Complete(e) /\ e.type = "call" /\ ~Appends(e) /\ e.call = <<turn, p>>
  BY DEF Complete, Appends, Types
<1> HIDE DEF e
<1>3. Running BY <1>1 DEF Running
<1>4. Tracked' /\ IsSequence(messages') BY <1>1, <1>2, TracksStand
<1>5. Directed'
  <2>1. Tracks \subseteq Tracks' BY <1>1 DEF Tracks
  <2>2. QED BY <1>1, <1>2, <2>1, DirectivesStand
<1>6. Recovered' BY <1>1, <1>2, <1>3, <1>4, SpeechRecovers
<1>7. InFlight'
  <2>1. IsSequence(log) /\ Readable BY DEF ReplayInv, Recovered, EndInv, Typed, LogTyped
  <2>2. Replayed'.open = Append(Replayed.open, <<turn, p>>) BY <1>1, <1>2, <2>1, EmitReplays
  <2>3. Of("finished")' = {} BY <1>1, <1>2, <2>1, FinishedIsLast
  <2>4. Dangling = OpenCalls /\ <<turn, p>> \notin OpenCalls
    BY <1>1 DEF ReplayInv, InFlight, OpenCalls
  <2>5. IsSequence(Replayed.open) /\ Distinct(Replayed.open) BY DEF ReplayInv, InFlight
  <2>6. IsSequence(Replayed'.open) /\ Distinct(Replayed'.open) /\ Dangling' = Dangling \cup {<<turn, p>>}
    <3> DEFINE c == <<turn, p>>
    <3>1. c \notin Elements(Replayed.open) /\ Replayed'.open = Append(Replayed.open, c)
      BY <2>2, <2>4 DEF Dangling
    <3>2. Dangling' = Elements(Replayed'.open) /\ Dangling = Elements(Replayed.open) BY DEF Dangling
    <3> HIDE DEF c
    <3>3. IsSequence(Replayed'.open) BY <2>5, <3>1, AppendIsSequence
    <3>4. Distinct(Replayed'.open) /\ Elements(Replayed'.open) = Elements(Replayed.open) \cup {c}
      BY <2>5, <3>1, AppendElements
    <3>5. QED BY <3>2, <3>3, <3>4 DEF c
  <2>7. DOMAIN span' = Position /\ \A q \in Position : span'[q] = IF q = p THEN "open" ELSE span[q]
    BY <1>1 DEF ReplayInv, InFlight
  <2>8. OpenCalls' = OpenCalls \cup {<<turn, p>>} BY <1>1, <2>7 DEF OpenCalls
  <2>9. QED BY <1>1, <2>3, <2>4, <2>6, <2>7, <2>8 DEF InFlight
<1>8. Sayable' BY <1>1 DEF ReplayInv, Sayable, Complete
<1>9. QED BY <1>4, <1>5, <1>6, <1>7, <1>8 DEF ReplayInv

LEMMA CloseKeepsReplay ==
  ASSUME ReplayInv, EndInv, EndInv', NEW p \in Position, CloseCall(p)
  PROVE  ReplayInv'
<1> DEFINE e == [type |-> "result", turn |-> turn, call |-> <<turn, p>>, gated |-> p \in Gated,
                 msg |-> ToolMessage(p)]
           n == Len(log) + 1
           t == [msg |-> Len(messages), turn |-> turn, event |-> n, bulky |-> p \in Bulky]
<1>1. /\ Emit(e) /\ pc = "dispatch" /\ pc' = "dispatch"
      /\ span[p] = "open" /\ span' = [span EXCEPT ![p] = "closed"]
      /\ tracks' = Append(tracks, t) /\ messages' = Append(messages, ToolMessage(p))
      /\ UNCHANGED <<folded, pending, then, outcome, turn>>
  BY DEF CloseCall, Batch!Close, recordVars, TrackedAt
<1>2. /\ Complete(e) /\ e.type = "result" /\ Appends(e) /\ e.call = <<turn, p>>
      /\ e.msg = ToolMessage(p) /\ e.turn = turn /\ {"turn", "msg"} \subseteq DOMAIN e \ {"id"}
  BY DEF Complete, Appends, Types
<1>3. t.msg = Len(messages) /\ t.turn = turn /\ t.event = n OBVIOUS
<1> HIDE DEF e, t
<1>4. Running BY <1>1 DEF Running
<1>5. IsSequence(log) /\ Readable /\ IsSequence(messages) /\ IsSequence(tracks)
  BY DEF ReplayInv, Recovered, Tracked, EndInv, Typed, LogTyped
<1>6. /\ Len(log) \in Nat /\ Len(log') = n
      /\ \A i \in 1..Len(log) : log'[i] = log[i]
      /\ log'[n].type = "result" /\ log'[n].turn = turn /\ log'[n].msg = ToolMessage(p)
  BY <1>1, <1>2, <1>5, EmitAppends DEF Complete
<1>7. /\ IsSequence(messages') /\ Len(messages) \in Nat /\ Len(messages') = Len(messages) + 1
      /\ \A i \in 1..Len(messages) : messages'[i] = messages[i]
      /\ messages'[Len(messages) + 1] = ToolMessage(p)
  BY <1>1, <1>5, AppendIsSequence
<1>8. IsSequence(tracks') /\ Tracks' = Tracks \cup {t}
  BY <1>1, <1>5, AppendIsSequence, AppendElements DEF Tracks
<1>9. Tracked'
  <2>1. ASSUME NEW u \in Tracks
        PROVE  /\ u.event \in 1..Len(log) /\ log'[u.event].type = "result" /\ log'[u.event].turn = u.turn
               /\ u.msg \in Nat /\ u.msg < Len(messages') /\ messages'[u.msg + 1] = log'[u.event].msg
    <3>1. /\ u.event \in 1..Len(log) /\ log[u.event].type = "result" /\ log[u.event].turn = u.turn
          /\ u.msg \in Nat /\ u.msg < Len(messages) /\ messages[u.msg + 1] = log[u.event].msg
      BY DEF ReplayInv, Tracked
    <3>2. u.msg + 1 \in 1..Len(messages) BY <1>7, <3>1
    <3>3. QED BY <1>6, <1>7, <3>1, <3>2
  <2>2. /\ t.event \in 1..n /\ log'[t.event].type = "result" /\ log'[t.event].turn = t.turn
        /\ t.msg \in Nat /\ t.msg < Len(messages') /\ messages'[t.msg + 1] = log'[t.event].msg
    BY <1>3, <1>6, <1>7
  <2>3. \A u, v \in Tracks : u.event = v.event => u = v BY DEF ReplayInv, Tracked
  <2>4. \A u \in Tracks : u.event # t.event BY <1>3, <1>6, <2>1
  <2>5. \A u \in Tracks' :
          /\ u.event \in 1..Len(log') /\ log'[u.event].type = "result" /\ log'[u.event].turn = u.turn
          /\ u.msg \in Nat /\ u.msg < Len(messages') /\ messages'[u.msg + 1] = log'[u.event].msg
    BY <1>6, <1>8, <2>1, <2>2
  <2>6. \A u, v \in Tracks' : u.event = v.event => u = v BY <1>8, <2>3, <2>4
  <2>7. QED BY <1>8, <2>5, <2>6 DEF Tracked
<1>10. Directed' BY <1>1, <1>2, <1>8, DirectivesStand
<1>11. Recovered' BY <1>1, <1>2, <1>4, <1>7, SpeechRecovers
<1>12. InFlight'
  <2>1. Replayed'.open = Without(Replayed.open, <<turn, p>>) BY <1>1, <1>2, <1>5, EmitReplays
  <2>2. Of("finished")' = {} BY <1>1, <1>2, <1>5, FinishedIsLast
  <2>3. Dangling = OpenCalls BY <1>1 DEF ReplayInv, InFlight
  <2>4. IsSequence(Replayed.open) /\ Distinct(Replayed.open) BY DEF ReplayInv, InFlight
  <2>5. IsSequence(Replayed'.open) /\ Distinct(Replayed'.open) /\ Dangling' = Dangling \ {<<turn, p>>}
    BY <2>1, <2>4, WithoutCloses DEF Dangling
  <2>6. DOMAIN span' = Position /\ \A q \in Position : span'[q] = IF q = p THEN "closed" ELSE span[q]
    BY <1>1 DEF ReplayInv, InFlight
  <2>7. OpenCalls' = OpenCalls \ {<<turn, p>>} BY <1>1, <2>6 DEF OpenCalls
  <2>8. QED BY <1>1, <2>2, <2>3, <2>5, <2>6, <2>7 DEF InFlight
<1>13. Sayable' BY <1>1 DEF ReplayInv, Sayable, Complete
<1>14. QED BY <1>9, <1>10, <1>11, <1>12, <1>13 DEF ReplayInv

\* The record loop and the failed append.
LEMMA HoldBackKeepsReplay == ASSUME ReplayInv, EndInv, HoldBack PROVE ReplayInv'
<1>1. /\ pc = "record" /\ pc' = "record" /\ pending # <<>> /\ pending' = Tail(pending)
      /\ UNCHANGED <<log, messages, tracks, folded, then, outcome, turn, span>>
  BY DEF HoldBack, foldVars, batchVars
<1>2. Running' <=> Running BY <1>1 DEF Running
<1>3. Recovered' /\ Tracked' /\ Directed' /\ Replayed' = Replayed /\ Dangling' = Dangling
  BY <1>1, <1>2, NothingSaid
<1>4. Sayable' BY <1>1, PendingIsSayable
<1>5. Dangling = {} BY <1>1, NothingDangles
<1>6. InFlight' BY <1>1, <1>3, <1>5, CallsRest
<1>7. QED BY <1>3, <1>4, <1>6 DEF ReplayInv

LEMMA RecordDoneKeepsReplay == ASSUME ReplayInv, EndInv, RecordDone PROVE ReplayInv'
<1>1. /\ pc = "record" /\ pending = <<>> /\ UNCHANGED <<log, messages, tracks, folded, span>>
  BY DEF RecordDone, foldVars, batchVars
<1>2. then \in {"fold", "next", "ended"} BY DEF EndInv, Typed, PendingTyped
<1>3. Dangling = {} BY <1>1, NothingDangles
<1>4. Len(pending) = 0 BY <1>1
<1>5. /\ pc' \in {"fold", "boundary", "record", "ended"}
      /\ Running' \/ outcome' = "ok" => Running \/ outcome = "ok"
      /\ Sayable'
  <2>1. CASE then # "next"
    <3>1. pc' = then /\ pending' = pending /\ outcome' = outcome /\ then' = then
      BY <2>1 DEF RecordDone, recordVars
    <3>2. Sayable' BY <1>2, <1>4, <2>1, <3>1 DEF Sayable
    <3>3. QED BY <1>1, <1>2, <2>1, <3>1, <3>2 DEF Running
  <2>2. CASE then = "next" /\ WithinLimit(turn + 1)
    <3>1. pc' = "boundary" /\ pending' = pending /\ outcome' = outcome /\ then' = then
      BY <2>2 DEF RecordDone, NextTurn, recordVars
    <3>2. Sayable' BY <1>4, <3>1 DEF Sayable
    <3>3. Running BY <1>1, <2>2 DEF Running
    <3>4. QED BY <3>1, <3>2, <3>3
  <2>3. CASE then = "next" /\ ~WithinLimit(turn + 1)
    <3>1. End(<<>>, MaxTurns, "limit") BY <2>3 DEF RecordDone, NextTurn
    <3>2. pc' = "record" /\ Sayable' BY <3>1, FewEvents, EndIsSayable DEF Sayable
    <3>3. Running BY <1>1, <2>3 DEF Running
    <3>4. QED BY <3>2, <3>3
  <2>4. QED BY <2>1, <2>2, <2>3
<1>6. Recovered' /\ Tracked' /\ Directed' /\ Replayed' = Replayed /\ Dangling' = Dangling
  BY <1>1, <1>5, NothingSaid
<1>7. InFlight' BY <1>1, <1>3, <1>5, <1>6, CallsRest
<1>8. QED BY <1>5, <1>6, <1>7 DEF ReplayInv

LEMMA AppendFailsKeepsReplay == ASSUME ReplayInv, EndInv, AppendFails PROVE ReplayInv'
<1>1. /\ pc' = "ended" /\ outcome' = "log" /\ pending' = pending
      /\ UNCHANGED <<log, messages, tracks, folded, span>>
  BY DEF AppendFails, foldVars, batchVars
<1>2. ~Running' BY <1>1 DEF Running
<1>3. Recovered' /\ Tracked' /\ Directed' /\ Replayed' = Replayed /\ Dangling' = Dangling
  BY <1>1, <1>2, NothingSaid
<1>4. InFlight' BY <1>1, <1>3, CallsRest
<1>5. Sayable' BY <1>1 DEF ReplayInv, Sayable, Complete
<1>6. QED BY <1>3, <1>4, <1>5 DEF ReplayInv

LEMMA ClientsKeepReplay ==
  ASSUME ReplayInv, EndInv,
         UNCHANGED <<pc, log, messages, tracks, folded, pending, then, outcome, turn, span>>
  PROVE  ReplayInv'
<1>1. Running' <=> Running BY DEF Running
<1>2. Recovered' /\ Tracked' /\ Directed' /\ Replayed' = Replayed /\ Dangling' = Dangling
  BY <1>1, NothingSaid
<1>3. InFlight'
  <2>1. OpenCalls' = OpenCalls /\ Of("finished")' = Of("finished") BY DEF OpenCalls, Of
  <2>2. QED BY <1>2, <2>1 DEF ReplayInv, InFlight
<1>4. Sayable' BY DEF ReplayInv, Sayable, Complete
<1>5. QED BY <1>2, <1>3, <1>4 DEF ReplayInv

---------------------------------------------------------------------------
LEMMA ReplayInvInit == Init => ReplayInv
<1> SUFFICES ASSUME Init PROVE ReplayInv OBVIOUS
<1>1. /\ log = <<>> /\ pending = <<>> /\ pc = "start" /\ outcome = "running" /\ then = "ended"
      /\ messages = Base /\ tracks = <<>> /\ span = [p \in Position |-> "idle"]
  BY DEF Init, Batch!Init, Batch!Position, Position
<1>2. Replayed = Empty BY <1>1, ReplayOfNothing DEF Replayed
<1>3. Of("finished") = {} /\ Len(log) = 0 /\ Len(pending) = 0 BY <1>1 DEF Of
<1>4. CompletedTurns = 0
  <2>1. {i \in Of("response") : log[i].ok} = {} BY <1>1 DEF Of
  <2>2. QED BY <2>1, FS_EmptySet DEF CompletedTurns
<1>5. Recovered
  <2>1. Readable /\ Replayed.turns = 0 /\ ~Replayed.started
    BY <1>2 DEF Readable, Empty, ReplayFields
  <2>2. IsSequence(messages) BY <1>1, FewEvents DEF Base
  <2>3. QED BY <1>1, <1>3, <1>4, <2>1, <2>2 DEF Recovered
<1>6. InFlight
  <2>1. Replayed.open = <<>> BY <1>2 DEF Empty
  <2>2. IsSequence(Replayed.open) /\ Distinct(Replayed.open) /\ Dangling = {}
    BY <2>1, FewEvents DEF Distinct, Dangling, Elements
  <2>3. QED BY <1>1, <1>3, <2>2 DEF InFlight
<1>7. Tracked BY <1>1, FewEvents DEF Tracked, Tracks, Elements
<1>8. QED BY <1>3, <1>5, <1>6, <1>7 DEF ReplayInv, Sayable, Directed

LEMMA ReplayInvStep == ReplayInv /\ EndInv /\ EndInv' /\ [Next]_vars => ReplayInv'
<1> SUFFICES ASSUME ReplayInv, EndInv, EndInv', [Next]_vars PROVE ReplayInv' OBVIOUS
<1>1. CASE \/ (\E c \in Commands : Send(c)) \/ PollOne \/ UNCHANGED vars
  BY <1>1, ClientsKeepReplay
  DEF Send, PollOne, vars, recordVars, foldVars, batchVars, streamVars
<1>2. CASE \/ BoundaryInterrupt \/ CallFails \/ StreamFails \/ EmptyTurn
  BY <1>2, EndsKeepReplay
<1>3. CASE FoldNothing \/ StreamOpens \/ Chunk \/ StopBatch \/ (ChunkPolled /\ ~Interrupted)
  BY <1>3, QuietKeepsReplay
  DEF FoldNothing, StreamOpens, Chunk, StopBatch, ChunkPolled, Batch!Stop, recordVars, foldVars, batchVars
<1>4. CASE Start BY <1>4, StartKeepsReplay
<1>5. CASE BoundarySteers BY <1>5, PlansKeepReplay
<1>6. CASE FoldResults BY <1>6, FoldKeepsReplay
<1>7. CASE Request \/ Decide BY <1>7, RequestKeepsReplay
<1>8. CASE Respond BY <1>8, RespondKeepsReplay
<1>9. CASE ChunkPolled /\ Interrupted BY <1>9, EndsKeepReplay
<1>10. CASE FinishLine BY <1>10, EndsKeepReplay, PlansKeepReplay
<1>11. CASE ReturnBatch BY <1>11, EndsKeepReplay, PlansKeepReplay
<1>12. CASE \E p \in Position : OpenCall(p) \/ CloseCall(p)
  BY <1>12, OpenKeepsReplay, CloseKeepsReplay
<1>13. CASE HoldBack BY <1>13, HoldBackKeepsReplay
<1>14. CASE RecordPending BY <1>14, RecordPendingKeepsReplay
<1>15. CASE RecordDone BY <1>15, RecordDoneKeepsReplay
<1>16. CASE AppendFails BY <1>16, AppendFailsKeepsReplay
<1>17. QED
  BY <1>1, <1>2, <1>3, <1>4, <1>5, <1>6, <1>7, <1>8, <1>9, <1>10, <1>11, <1>12, <1>13, <1>14,
     <1>15, <1>16
  DEF Next, Returned

LEMMA ReplayInvTellsRun == ReplayInv /\ EndInv => LogTellsRun
<1> SUFFICES ASSUME ReplayInv, EndInv PROVE LogTellsRun OBVIOUS
<1>1. IsSequence(log) /\ DOMAIN log = 1..Len(log)
  BY DEF EndInv, Typed, LogTyped, IsSequence
<1>2. ReplayEqualsLive
  <2>1. pc \in {"call", "finish"} => Running /\ pc # "start" BY DEF Running
  <2>2. Ended => pc # "start" BY DEF Ended
  <2>3. QED BY <2>1, <2>2 DEF ReplayInv, Recovered, ReplayEqualsLive
<1>3. DanglingAreInFlight
  BY DEF ReplayInv, InFlight, Dangling, Elements, OpenCalls, DanglingAreInFlight
<1>4. FoldsNameResults
  <2> SUFFICES ASSUME NEW i \in Of("fold"), NEW r \in log[i].refs
               PROVE  /\ r.event < i /\ log[r.event].type = "result"
                      /\ r.msg < Len(messages) /\ messages[r.msg + 1] = log[r.event].msg
                      /\ log[r.event].turn + RecentTurns < log[i].turn
                      /\ \A j \in Of("fold") : \A s \in log[j].refs :
                           s.event = r.event => s = r /\ j = i
    BY DEF FoldsNameResults
  <2>1. i \in 1..Len(log) /\ log[i].type = "fold" BY <1>1 DEF Of
  <2>2. /\ r \in Tracks /\ r.event < i /\ r.turn + RecentTurns < log[i].turn
        /\ \A j \in 1..Len(log) : log[j].type = "fold" =>
             \A s \in log[j].refs : s.event = r.event => s = r /\ j = i
    BY <2>1 DEF ReplayInv, Directed
  <2>3. /\ log[r.event].type = "result" /\ log[r.event].turn = r.turn
        /\ r.msg < Len(messages) /\ messages[r.msg + 1] = log[r.event].msg
    BY <2>2 DEF ReplayInv, Tracked
  <2>4. QED BY <1>1, <2>2, <2>3 DEF Of
<1>5. QED BY <1>2, <1>3, <1>4 DEF LogTellsRun

(* What can be read from the log is what the loop has: its history and     *)
(* completed turns, the calls in flight wherever a crash cuts the log, and *)
(* the results its fold directives name (mod.rs, dispatch.rs, fold.rs      *)
(* against trajectory.rs).                                                 *)
THEOREM LogReplaysTheRun == Spec => []LogTellsRun
<1>1. EndInv /\ [Next]_vars => EndInv' BY EndInvStep
<1>2. ReplayInv /\ EndInv /\ EndInv' /\ [Next]_vars => ReplayInv' BY ReplayInvStep
<1>3. QED BY <1>1, <1>2, EndInvInit, ReplayInvInit, ReplayInvTellsRun, PTL DEF Spec
=============================================================================
