--------------------------- MODULE MCChatStream ---------------------------
(* Instances of ChatStream and of ContextWindow for TLC. The stream does not *)
(* depend on the messages, so it runs before there are any.                 *)
EXTENDS ChatStream, MCContextWindow

TwoThenOne == [a \in Attempts |-> 2 - a]

NotBegun == hpc = "call" /\ attempt = 0 /\ now = 0 /\ ~gone

MCInit == Init /\ WindowInit
MCNext == \/ history = << >> /\ Next /\ UNCHANGED history
          \/ NotBegun /\ WindowNext /\ UNCHANGED vars
MCSpec == MCInit /\ [][MCNext]_<<vars, history>> /\ Fairness
=============================================================================
