--------------------------- MODULE MCBroadcaster ---------------------------
(***************************************************************************)
(* The hub under three publishers: one that only streams, for two clients; *)
(* a run with approvals, for whoever might attach; and each case of the    *)
(* client-protocol suite, for one client.                                  *)
(***************************************************************************)
EXTENDS HubSuite

Finished(id) == Event([id |-> id, type |-> "finished", turns |-> 1, error |-> "ok"])

\* Two turns that stream and answer over a seeded history, an instruction
\* file, and a request in each: answers per call and per batch, past the
\* batch and short, then the end of the run.
RunItems ==
  {StartRun("e1", Seeded), Delta(1), Response("e2", 1), Request("a", 1, 2),
   CallReply("e3", "a", 2, "approved"), CallReply("e4", "a", 3, "approved"),
   BatchReply("e5", "a", <<"approved">>),
   Appending("e6", "inject", "AGENTS.md"),
   Delta(2), Response("e7", 2), Request("b", 2, 1),
   BatchReply("e8", "b", <<"approved", "approved">>), Finished("e9")}

ASSUME RunsAreWellFormed == WellFormedOffers

CONSTANT MaxChunks   \* bound: items of the publisher that only streams

VARIABLE publisher

Streams == [kind |-> "streams"]
Runs == [kind |-> "runs"]

Clients ==
  CASE publisher = Streams -> Attachments
    [] publisher = Runs -> {}
    [] OTHER -> {CHOOSE c \in Attachments : TRUE}

HubInit == Init /\ publisher \in {Streams, Runs} \cup Suite

HubNext ==
  /\ \/ publisher = Streams /\ Len(published) < MaxChunks /\ Publish(Delta(1))
     \/ publisher = Runs /\ \E o \in Offered : Publish(o)
     \/ publisher \in Suite /\ Play(publisher)
     \/ Close \/ Quiet
     \/ \E c \in Clients : Attach(c) \/ Read(c) \/ HangUp(c)
  /\ UNCHANGED publisher

HubSpec == HubInit /\ [][HubNext]_<<vars, publisher>>

---------------------------------------------------------------------------
(* Properties.                                                             *)

\* The baseline is what the suite asks of every endpoint, at every position
\* it asks about and however many clients came and went before
\* (cadmus-contract testing.rs 439-955).
SuiteIsMet == publisher \in Suite /\ ~closed => Meets(publisher)
=============================================================================
