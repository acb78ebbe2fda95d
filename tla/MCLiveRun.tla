------------------------------ MODULE MCLiveRun ------------------------------
(***************************************************************************)
(* A small instance of LiveRun for TLC.                                    *)
(***************************************************************************)
EXTENDS LiveRun

CONSTANTS agent_a, nonsense

\* agents.json missing or garbled, empty, with one agent, with one whose config
\* lies elsewhere, and with two.
MCRegistries ==
  LET a == [id |-> agent_a, config_safe |-> TRUE]
      elsewhere == [id |-> agent_a, config_safe |-> FALSE]
  IN [kind : {"missing", "garbled"}, entries : {<< >>}]
       \cup [kind : {"agents"}, entries : {<< >>, <<a>>, <<elsewhere>>, <<a, a>>}]
=============================================================================
