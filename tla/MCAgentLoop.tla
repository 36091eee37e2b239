---------------------------- MODULE MCAgentLoop -----------------------------
(***************************************************************************)
(* Client vocabularies for AgentLoop.                                      *)
(***************************************************************************)
EXTENDS AgentLoop

Steer(id, m) == [kind |-> "steer", id |-> id, mode |-> m]
Interrupt(id) == [kind |-> "interrupt", id |-> id]

SteersAndInterrupt ==
  {Steer("s1", "inject"), Steer("s2", "queue"), Steer("s3", "inject"), Interrupt("i")}

OneInject == {Steer("s1", "inject")}
=============================================================================
