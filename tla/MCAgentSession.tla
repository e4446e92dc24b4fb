---- MODULE MCAgentSession ----
(* AgentSession with its session ids as model values. *)
EXTENDS AgentSession
CONSTANTS s1, s2
====
