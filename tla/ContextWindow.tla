--------------------------- MODULE ContextWindow ---------------------------
(***************************************************************************)
(* The part of a conversation that is sent to a model: its messages are    *)
(* counted in tokens, the oldest are dropped until the rest fits, and each *)
(* of the rest is converted to what the model takes: parts, or a text.     *)
(* What the tokenizer makes of a text is its length here.                  *)
(***************************************************************************)
EXTENDS Naturals, Sequences, SequencesExt

CONSTANTS
  Models,     \* model ids
  Vision,     \* those with the capability "vision"
  Contexts,   \* the values of max_context in the configuration
  Pairs,      \* the values of maxCount
  Messages,   \* what a conversation is made of
  MaxHistory  \* its length

VARIABLE history  \* the messages so far

Text(n)    == [type |-> "text", size |-> n]
Image(d)   == [type |-> "image_url", detail |-> d]

Content == [type : {"text"}, size : Nat] \cup [type : {"image_url"}, detail : STRING]

ASSUME WindowConstants ==
  /\ Vision \subseteq Models
  /\ MaxHistory \in Nat /\ Contexts \subseteq Nat /\ Pairs \subseteq Nat
  /\ Messages \subseteq [role : {"user", "assistant"}, content : Nat, parts : Seq(Content)]

\* Config.Init: a model without the setting has 4000.
Configured(ctx) == IF ctx = 0 THEN 4000 ELSE ctx

\* 80 per cent. Config.Init leaves no model with 0.
MaxContextForInput(ctx) == ((IF ctx = 0 THEN 2000 ELSE ctx) * 4) \div 5

InputLimit(ctx) == MaxContextForInput(Configured(ctx))

PartTokens(part, model) ==
  IF part.type = "text" THEN part.size
  ELSE IF model = "glm-4v" THEN 1047
  ELSE IF part.detail = "low" THEN 65 ELSE 129 * 16

\* Models that are not known are counted as gpt-3.5-turbo. A role is one token.
MessageTokens(m, model) ==
  (IF model = "gpt-4" THEN 3 ELSE 4) + 1 +
  (IF m.parts = << >> THEN m.content
                      ELSE SumFunction([i \in DOMAIN m.parts |-> PartTokens(m.parts[i], model)]))

MessageTokenCount(ms, model) ==
  3 + SumFunction([i \in DOMAIN ms |-> MessageTokens(ms[i], model)])

From(ms, i) == SubSeq(ms, i, Len(ms))

ReduceContextByCount(ms, maxCount) ==
  IF Len(ms) > maxCount * 2 + 1 THEN From(ms, Len(ms) - maxCount * 2) ELSE ms

\* An answer at the head of what fits is dropped, if it is not all there is.
WithoutAnswer(ms) ==
  IF Len(ms) > 1 /\ Head(ms).role = "assistant" THEN Tail(ms) ELSE ms

\* Mutant: a question is dropped together with its answer.
ReduceByPairs(ms, model, maxTokens) ==
  LET reduce[i \in 1..(Len(ms) + 2)] ==
        LET num == MessageTokenCount(From(ms, i), model) IN
        IF num <= maxTokens THEN [messages |-> WithoutAnswer(From(ms, i)), err |-> FALSE]
        ELSE IF i >= Len(ms) THEN [messages |-> << >>, err |-> TRUE]
        ELSE reduce[i + 2]
  IN reduce[1]

\* reduce[i] is the call for the messages from the i-th on.
ReduceContextByTokens(ms, model, maxTokens) ==
  LET reduce[i \in 1..(Len(ms) + 1)] ==
        LET num == MessageTokenCount(From(ms, i), model) IN
        IF num <= maxTokens THEN [messages |-> WithoutAnswer(From(ms, i)), err |-> FALSE]
        ELSE IF i >= Len(ms) THEN [messages |-> << >>, err |-> TRUE]
        ELSE reduce[i + 1]
  IN reduce[1]

\* Mutant: every model is sent the parts.
ConvertedAlways(m, model) == [m EXCEPT !.content = 0]

\* A model with vision is sent the parts of a message without its text, others its text
\* without its parts, whichever of the two was counted.
Converted(m, model) ==
  IF model \in Vision THEN [m EXCEPT !.content = 0] ELSE [m EXCEPT !.parts = << >>]

\* What Chatter.ChatStream keeps, counts again and bills, and what it sends.
Prompt(ms, model, ctx) ==
  LET reduced == ReduceContextByTokens(ms, model, InputLimit(ctx))
  IN [err |-> reduced.err, messages |-> reduced.messages,
      promptTokens |-> MessageTokenCount(reduced.messages, model),
      sent |-> [i \in DOMAIN reduced.messages |-> Converted(reduced.messages[i], model)]]

-----------------------------------------------------------------------------
\* The client keeps the conversation and sends all of it with each request.
WindowInit == history = << >>

Say(m) == Len(history) < MaxHistory /\ history' = Append(history, m)

WindowNext == \E m \in Messages : Say(m)

WindowSpec == WindowInit /\ [][WindowNext]_history

\* What is kept is the longest end of the conversation that fits, the question always
\* included, less an answer it would begin with; it begins with an answer only where two
\* stood in a row. There is an error exactly if the question alone does not fit.
KeepsLongestFit(ms, model, ctx) ==
  LET p    == Prompt(ms, model, ctx)
      fits == {i \in 1..Len(ms) : MessageTokenCount(From(ms, i), model) <= InputLimit(ctx)}
  IN /\ p.err <=> Len(ms) \notin fits
     /\ ~p.err =>
          /\ IsSuffix(p.messages, ms) /\ p.messages # << >>
          /\ p.promptTokens <= InputLimit(ctx)
          /\ \A i \in fits : \/ Len(From(ms, i)) <= Len(p.messages)
                             \/ /\ ms[i].role = "assistant"
                                /\ Len(From(ms, i)) = Len(p.messages) + 1
          /\ Head(p.messages).role = "assistant" =>
               ms[Len(ms) - Len(p.messages)].role = "assistant"

\* The form in which the model takes a message is the one that was counted.
Suits(m, model) == model \in Vision <=> m.parts # << >>

\* What is sent are the kept messages in order, each with just the tokens counted for it if
\* it suits the model. So what is sent is what is billed, and fits, if all of them suit. It is
\* more, and may not fit, only for a model without vision that would be shown parts.
SendsWhatItCounted(ms, model, ctx) ==
  LET p == Prompt(ms, model, ctx) IN
  ~p.err =>
    /\ DOMAIN p.sent = DOMAIN p.messages
    /\ \A i \in DOMAIN p.sent :
         /\ p.sent[i].role = p.messages[i].role
         /\ Suits(p.messages[i], model) =>
              MessageTokens(p.sent[i], model) = MessageTokens(p.messages[i], model)
    /\ (\A i \in DOMAIN p.sent : Suits(p.messages[i], model)) =>
         MessageTokenCount(p.sent, model) = p.promptTokens
    /\ MessageTokenCount(p.sent, model) > p.promptTokens =>
         model \notin Vision /\ \E i \in DOMAIN p.sent : p.messages[i].parts # << >>

\* A question's prompt is the longest end that fits, and is sent as it was counted. By count,
\* what is left is the last pairs and the question. (token.go, chat.go:56-98)
ContextIsLongestFit ==
  LET ms == history IN
  ms # << >> /\ ms[Len(ms)].role = "user" =>
    /\ \A model \in Models, ctx \in Contexts :
         KeepsLongestFit(ms, model, ctx) /\ SendsWhatItCounted(ms, model, ctx)
    /\ \A n \in Pairs : LET left == ReduceContextByCount(ms, n) IN
         IsSuffix(left, ms) /\ (Len(left) = 2 * n + 1 \/ (left = ms /\ Len(ms) < 2 * n + 1))

\* The comment at chat.go:73: for a model with vision the content of a message is converted
\* into the corresponding format. So no message that has a content is sent with nothing.
ContentIsConverted ==
  \A model \in Vision, ctx \in Contexts : LET p == Prompt(history, model, ctx) IN
    \A i \in DOMAIN p.sent :
      p.messages[i].content > 0 => p.sent[i].content > 0 \/ p.sent[i].parts # << >>
=============================================================================
