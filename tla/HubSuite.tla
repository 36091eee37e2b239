------------------------------ MODULE HubSuite ------------------------------
(***************************************************************************)
(* The client-protocol suite every hub must pass (cadmus-contract          *)
(* testing.rs), as what a publisher may do: each case is a script of items *)
(* and what a client that attaches at a position of it must be given.      *)
(* Here the clients attach, read and hang up anywhere, not only where the  *)
(* case does.                                                              *)
(*                                                                         *)
(* Texts and call bodies are left out, as in LiveState; a tail's order and *)
(* its lag marker are Broadcaster's own properties.                        *)
(***************************************************************************)
EXTENDS Broadcaster

---------------------------------------------------------------------------
(* The items of the scripts.                                               *)

Message(role, of) == [role |-> role, of |-> of]
Event(e) == [kind |-> "recorded", event |-> e]
StartRun(id, base) == Event([id |-> id, type |-> "start", base |-> base])
LlmRequest(id, t) == Event([id |-> id, type |-> "request", turn |-> t])
Response(id, t) ==
  Event([id |-> id, type |-> "response", turn |-> t, ok |-> TRUE, msg |-> Message("assistant", t)])
Appending(id, type, of) == Event([id |-> id, type |-> type, msg |-> Message("user", of)])
Called(id, call) == Event([id |-> id, type |-> "call", call |-> call])
Result(id, span, call) ==
  Event([id |-> id, type |-> "result", span |-> span, call |-> call, gated |-> FALSE,
         msg |-> Message("tool", span)])
BatchReply(id, r, ds) ==
  Event([id |-> id, type |-> "resolve", cmd |-> [kind |-> "batch", req |-> r, decisions |-> ds]])
CallReply(id, r, i, d) ==
  Event([id |-> id, type |-> "resolve",
         cmd |-> [kind |-> "call", req |-> r, index |-> i, decision |-> d]])
Request(r, t, n) == [kind |-> "requested", request |-> r, turn |-> t, calls |-> n]
Delta(t) == [kind |-> "delta", turn |-> t]
Completed(span, t) == [kind |-> "completed", done |-> [span |-> span, turn |-> t]]

Seeded == <<Message("user", "fix the typo")>>
Started(t) == <<StartRun("e1", Seeded), LlmRequest("e2", t)>>

---------------------------------------------------------------------------
(* What an attach at a position must show; what is not named is not asked. *)

Pending(r, index, ds) == [request |-> r, index |-> index, decisions |-> ds]

Shown ==
  [asOf     |-> hub.last,
   messages |-> Len(Replay(hub.events).messages),
   open     |-> hub.open,
   done     |-> {d.span : d \in hub.done},
   pending  |-> [k \in DOMAIN hub.pending |->
                   Pending(hub.pending[k].request, hub.pending[k].index, hub.pending[k].decisions)],
   settled  |-> [k \in DOMAIN hub.settled |->
                   Pending(hub.settled[k].request, hub.settled[k].index, hub.settled[k].decisions)]]

\* The window keeps the last ones.
Remembered(all) == SubSeq(all, Max({1, Len(all) - Window + 1}), Len(all))

Case(script, wants) == [script |-> script, wants |-> wants]

---------------------------------------------------------------------------
(* The cases.                                                              *)

AttachAtZero ==
  Case(Started(1) \o <<Delta(1), Delta(1), Response("e5", 1)>>,
       (0 :> [asOf |-> 0, messages |-> 0, open |-> NoOpenTurn, done |-> {}, pending |-> <<>>]))

MidRunAttach ==
  Case(Started(1) \o <<Delta(1), Delta(1), Response("e5", 1)>>,
       (3 :> [asOf |-> 3, messages |-> 1, open |-> [turn |-> 1, chunks |-> 1]]))

ApprovalWait ==
  Case(Started(1) \o <<Request("ap9", 1, 1), BatchReply("e4", "ap9", <<"approved">>)>>,
       (3 :> [pending |-> <<Pending("ap9", -1, <<"none">>)>>]) @@ (4 :> [pending |-> <<>>]))

\* The first decision of a position stands, whoever answers it again.
PartialApproval ==
  LET waiting(ds) == [pending |-> <<Pending("ap", -1, ds)>>, settled |-> <<>>] IN
  Case(<<StartRun("e1", Seeded), Request("ap", 1, 3), CallReply("e3", "ap", 2, "rejected"),
         CallReply("e4", "ap", 3, "approved"), CallReply("e5", "ap", 2, "approved"),
         CallReply("e6", "ap", 1, "approved"), CallReply("e7", "ap", 1, "approved"),
         CallReply("e8", "ap", 1, "rejected")>>,
       (3 :> waiting(<<"none", "rejected", "none">>))
         @@ (5 :> waiting(<<"none", "rejected", "approved">>))
         @@ (8 :> [asOf |-> 8, pending |-> <<>>,
                   settled |-> <<Pending("ap", -1, <<"approved", "rejected", "approved">>)>>]))

SettledReplays ==
  Case(Started(1) \o <<Request("ap9", 1, 1), BatchReply("e4", "ap9", <<"approved">>)>>,
       (4 :> [pending |-> <<>>, settled |-> <<Pending("ap9", -1, <<"approved">>)>>]))

\* Two turns over a seeded history, the same call in both.
AnchorsFollowHistory ==
  LET decided == <<Pending("ap-1", 3, <<"approved">>), Pending("ap-2", 7, <<"approved">>)>> IN
  Case(<<StartRun("e1", Seeded \o <<Message("assistant", 0), Message("tool", "old")>>),
         Response("e3", 1), Request("ap-1", 1, 1), BatchReply("e5", "ap-1", <<"approved">>),
         Appending("e6", "inject", "AGENTS.md"), Called("e7", "repeated-id"),
         Result("e8", "s8", "repeated-id"), Appending("e9", "steer", "again"),
         Response("e11", 2), Request("ap-2", 2, 1), CallReply("e13", "ap-2", 1, "approved")>>,
       (3 :> [messages |-> 4, pending |-> <<Pending("ap-1", 3, <<"none">>)>>])
         @@ (10 :> [messages |-> 8, pending |-> <<Pending("ap-2", 7, <<"none">>)>>])
         @@ (11 :> [pending |-> <<>>, settled |-> Remembered(decided)]))

\* An outcome retires with the result of its own span.
CompletionsReconcile ==
  Case(<<StartRun("e1", Seeded), Response("e2", 1), Completed("later", 1), Completed("failed", 1),
         Completed("later", 1), Result("e6", "first", "c"), Result("e7", "later", "c"),
         Result("e8", "failed", "c")>>,
       (4 :> [asOf |-> 4, messages |-> 2, done |-> {"later", "failed"}])
         @@ (6 :> [messages |-> 3, done |-> {"later", "failed"}])
         @@ (7 :> [messages |-> 4, done |-> {"failed"}])
         @@ (8 :> [messages |-> 5, done |-> {}]))

LaggingSubscriber ==
  LET total == QueueCapacity + 2 IN
  Case([i \in 1..total |-> Delta(1)],
       (total :> [asOf |-> total, open |-> [turn |-> 1, chunks |-> total]]))

TurnClose ==
  Case(Started(1) \o <<Delta(1), Delta(1), Response("e5", 1)>>,
       (5 :> [open |-> NoOpenTurn, messages |-> 2]))

\* The script of the serialized baseline (insta snapshot): text, then a call.
FixedSync ==
  Case(Started(1) \o <<Delta(1), Delta(1), Delta(1)>>,
       (5 :> [asOf |-> 5, messages |-> 1, open |-> [turn |-> 1, chunks |-> 3], done |-> {},
              pending |-> <<>>]))

Suite ==
  {AttachAtZero, MidRunAttach, ApprovalWait, PartialApproval, SettledReplays,
   AnchorsFollowHistory, CompletionsReconcile, LaggingSubscriber, TurnClose,
   FixedSync}

\* The next item of a case.
Play(case) ==
  /\ Len(published) < Len(case.script)
  /\ PublishItem(case.script[Len(published) + 1])

\* The baseline at the positions the case looks at.
Meets(case) ==
  Len(published) \in DOMAIN case.wants =>
    LET want == case.wants[Len(published)] IN \A f \in DOMAIN want : Shown[f] = want[f]
=============================================================================
