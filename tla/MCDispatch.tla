----------------------------- MODULE MCDispatch -----------------------------
(***************************************************************************)
(* Client vocabularies for a batch.                                        *)
(***************************************************************************)
EXTENDS DispatchLive

Batch1(id, ds) == [kind |-> "batch", id |-> id, req |-> "ap1", decisions |-> ds]
Call1(id, i, d) == [kind |-> "call", id |-> id, req |-> "ap1", index |-> i, decision |-> d]
Interrupt1(id) == [kind |-> "interrupt", id |-> id]

\* A short batch reply, per-call answers that contradict it, an interrupt.
Contradicting ==
  {Batch1("b", <<"approved">>), Call1("d1", 1, "rejected"), Call1("c2", 2, "approved"),
   Interrupt1("i")}

\* Answers in either order, and what may arrive late or malformed: an index
\* past the batch, another request's id, a long and an empty reply, a steer,
\* two interrupts.
Stray ==
  {Call1("c1", 1, "approved"), Call1("c2", 2, "rejected"), Call1("c3", 3, "approved"),
   [Call1("s1", 1, "approved") EXCEPT !.req = "ap0"],
   Batch1("l", <<"approved", "rejected", "approved">>), Batch1("e", <<>>),
   [kind |-> "steer", id |-> "s"], Interrupt1("i"), Interrupt1("j")}

AnswerOnly == {Call1("c1", 1, "approved"), Call1("c2", 2, "approved")}
=============================================================================
