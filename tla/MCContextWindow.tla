-------------------------- MODULE MCContextWindow --------------------------
(* Messages of a conversation for TLC. *)
EXTENDS ContextWindow

Says(role, n) == [role |-> role, content |-> n, parts |-> << >>]
Shows(parts)  == [role |-> "user", content |-> 0, parts |-> parts]

\* With 1586 a question and a word are 1600 tokens together, all that 2000 leave. The last
\* one has a text beside its parts, which are what is counted.
Conversation ==
  {Says("user", 1), Says("assistant", 1), Says("user", 1586), Says("assistant", 1586),
   Shows(<<Text(1), Image("low")>>), Shows(<<Text(1), Image("high")>>),
   [Shows(<<Image("low")>>) EXCEPT !.content = 1586]}
=============================================================================
