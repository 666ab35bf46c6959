---------------------------- MODULE ChatStream ----------------------------
(***************************************************************************)
(* One chat request.  Each attempt of the handler starts two goroutines:   *)
(* OpenAIClient.ChatStream reads the model's stream, Chatter.ChatStream    *)
(* forwards it and keeps the usage, and both channels are unbuffered.  The *)
(* handler selects between a timer, its context and the responses, writes  *)
(* what it receives to the client, and tries once more if nothing came.    *)
(*                                                                         *)
(* The chunks of an attempt are numbered; said holds what each one is.     *)
(***************************************************************************)
EXTENDS Naturals, Sequences, SequencesExt

CONSTANTS
  MaxChunks,   \* chunks of the model's stream in each attempt, errors included
  FirstWait,   \* the timer until the first response, 60 seconds
  Gap,         \* and between two, 30 seconds
  Deadline,    \* of the context of an attempt, 180 seconds
  RetryWindow, \* a second attempt begins within 60 seconds
  MaxTime,     \* the clock stops here
  Off          \* a timer that is not running

Attempts == 0..1
Kinds    == {"text", "blank", "empty", "error"}

ASSUME ChatConstants ==
  /\ MaxTime \in Nat /\ MaxChunks \in [Attempts -> Nat]
  /\ {FirstWait, Gap, Deadline, RetryWindow} \subseteq Nat \ {0}
  /\ RetryWindow <= FirstWait /\ RetryWindow <= Deadline /\ Off \notin Nat

VARIABLES
  now,
  attempt,     \* retryTimes
  hpc,         \* the handler: call, wait, write, judge, finish, done
  outcome,     \* what handleChatRequest returned: none, ok, gap, sent
  deadline,    \* of the attempts' contexts, 0 before they begin
  cancelled,   \* attempts that are over
  parentDone,  \* the request's own context is done
  gone,        \* the client has closed the connection
  due, tick,   \* the timer, and the tick waiting in its channel
  since,       \* history: when the timer was last set
  slow,        \* history: a response was handled after its timer had run out
  ppc, offered,  \* the reading goroutine: off, recv, offer, done; its chunk
  fpc, held,     \* the forwarding goroutine
  said,        \* what the model said
  tokens,      \* usage.CompletionTokens, in chunks
  got,         \* chunks the handler received
  out,         \* what was written to the client
  bill         \* the usage of the summary

time    == <<now, deadline>>
control == <<attempt, hpc, outcome, cancelled>>
client  == <<parentDone, gone>>
timer   == <<due, tick, since, slow>>
reader  == <<ppc, offered, said>>
forward == <<fpc, held, tokens>>
vars == <<time, control, client, timer, reader, forward, got, out, bill>>

Steps == {"off", "recv", "offer", "done"}

TypeOK ==
  /\ now \in 0..MaxTime /\ attempt \in Attempts
  /\ hpc \in {"call", "wait", "write", "judge", "finish", "done"}
  /\ outcome \in {"none", "ok", "gap", "sent"}
  /\ deadline \in [Attempts -> 0..(MaxTime + Deadline)]
  /\ cancelled \subseteq Attempts /\ parentDone \in BOOLEAN /\ gone \in BOOLEAN
  /\ due \in Nat \cup {Off} /\ (due # Off => due > now) /\ tick \in BOOLEAN
  /\ since \in 0..MaxTime /\ slow \in BOOLEAN
  /\ ppc \in [Attempts -> Steps] /\ fpc \in [Attempts -> Steps]
  /\ offered \in [Attempts -> Nat] /\ held \in [Attempts -> Nat]
  /\ said \in [Attempts -> Seq(Kinds)] /\ tokens \in [Attempts -> Nat]
  /\ got \in [Attempts -> Seq(Nat)]
  /\ out \in Seq(Attempts \X Nat) /\ bill \in Nat

ForEach(x) == [a \in Attempts |-> x]

Init ==
  /\ now = 0 /\ attempt = 0 /\ hpc = "call" /\ outcome = "none"
  /\ deadline = [a \in Attempts |-> IF a = 0 THEN Deadline ELSE 0]
  /\ cancelled = {} /\ parentDone = FALSE /\ gone = FALSE
  /\ due = Off /\ tick = FALSE /\ since = 0 /\ slow = FALSE
  /\ ppc = ForEach("off") /\ offered = ForEach(0)
  /\ fpc = ForEach("off") /\ held = ForEach(0)
  /\ said = ForEach(<< >>) /\ tokens = ForEach(0)
  /\ got = ForEach(<< >>) /\ out = << >> /\ bill = 0

CtxDone(a) == parentDone \/ a \in cancelled \/ now >= deadline[a]
Is(a, n, kinds) == said[a][n] \in kinds
Received(a, kinds) == \E i \in DOMAIN got[a] : Is(a, got[a][i], kinds)

----------------------------------------------------------------------------
\* OpenAIClient.ChatStream

\* stream.Recv returns a chunk, an error, or the end of the stream.
Recv(a) ==
  /\ ppc[a] = "recv"
  /\ \/ /\ ppc' = [ppc EXCEPT ![a] = "done"] /\ UNCHANGED <<offered, said>>
     \/ /\ Len(said[a]) < MaxChunks[a]
        /\ \E k \in Kinds : said' = [said EXCEPT ![a] = Append(@, k)]
        /\ offered' = [offered EXCEPT ![a] = Len(said'[a])]
        /\ ppc' = [ppc EXCEPT ![a] = "offer"]
  /\ UNCHANGED <<time, control, client, timer, forward, got, out, bill>>

\* Mutant: the send looks at the request's context, which outlives the attempt.
DropsForRequest(a) ==
  /\ ppc[a] = "offer" /\ parentDone
  /\ ppc' = [ppc EXCEPT ![a] = "done"]
  /\ UNCHANGED <<time, control, client, timer, offered, said, forward, got, out, bill>>

\* The context is done before the chunk is taken.
DropsChunk(a) ==
  /\ ppc[a] = "offer" /\ CtxDone(a)
  /\ ppc' = [ppc EXCEPT ![a] = "done"]
  /\ UNCHANGED <<time, control, client, timer, offered, said, forward, got, out, bill>>

----------------------------------------------------------------------------
\* Chatter.ChatStream

\* Mutants: an error counts as a chunk; a chunk nobody waits for is skipped.
TakeCounting(a) ==
  /\ ppc[a] = "offer" /\ fpc[a] = "recv"
  /\ held' = [held EXCEPT ![a] = offered[a]]
  /\ fpc' = [fpc EXCEPT ![a] = "offer"]
  /\ ppc' = [ppc EXCEPT ![a] = IF Is(a, offered[a], {"error"}) THEN "done" ELSE "recv"]
  /\ tokens' = [tokens EXCEPT ![a] = @ + 1]
  /\ UNCHANGED <<time, control, client, timer, offered, said, got, out, bill>>
TakeSkipping(a) ==
  /\ ppc[a] = "offer" /\ fpc[a] = "recv"
  /\ held' = [held EXCEPT ![a] = offered[a]]
  /\ fpc' = [fpc EXCEPT ![a] = IF hpc = "wait" THEN "offer" ELSE "recv"]
  /\ ppc' = [ppc EXCEPT ![a] = IF Is(a, offered[a], {"error"}) THEN "done" ELSE "recv"]
  /\ tokens' = [tokens EXCEPT ![a] = @ + (IF Is(a, offered[a], {"error"}) THEN 0 ELSE 1)]
  /\ UNCHANGED <<time, control, client, timer, offered, said, got, out, bill>>

\* The chunk changes hands; the usage, which the handler shares, is updated, and
\* the reader ends after an error.
Take(a) ==
  /\ ppc[a] = "offer" /\ fpc[a] = "recv"
  /\ held' = [held EXCEPT ![a] = offered[a]]
  /\ fpc' = [fpc EXCEPT ![a] = "offer"]
  /\ ppc' = [ppc EXCEPT ![a] = IF Is(a, offered[a], {"error"}) THEN "done" ELSE "recv"]
  /\ tokens' = [tokens EXCEPT ![a] = @ + (IF Is(a, offered[a], {"error"}) THEN 0 ELSE 1)]
  /\ UNCHANGED <<time, control, client, timer, offered, said, got, out, bill>>

\* The context is done, or the reader has closed its channel.  Once it has a
\* chunk the goroutine looks at neither.
Ends(a) ==
  /\ fpc[a] = "recv" /\ (CtxDone(a) \/ ppc[a] = "done")
  /\ fpc' = [fpc EXCEPT ![a] = "done"]
  /\ UNCHANGED <<time, control, client, timer, reader, held, tokens, got, out, bill>>

----------------------------------------------------------------------------
\* handleChat and handleChatRequest

\* The attempt is over: cancel and timer.Stop are deferred.
Returns(a, result, next) ==
  /\ outcome' = result /\ hpc' = next
  /\ cancelled' = cancelled \cup {a}
  /\ due' = Off /\ tick' = FALSE /\ since' = 0 /\ slow' = FALSE
  /\ UNCHANGED attempt

\* The robot, the context's length or the model refuses the request, and the
\* client is told, or the stream begins.
Call(a) ==
  /\ hpc = "call" /\ attempt = a
  /\ \/ /\ Returns(a, "sent", "finish")
        /\ out' = Append(out, <<a, 0>>)
        /\ UNCHANGED <<reader, forward>>
     \/ /\ hpc' = "wait" /\ ppc' = [ppc EXCEPT ![a] = "recv"] /\ fpc' = [fpc EXCEPT ![a] = "recv"]
        /\ due' = now + FirstWait /\ tick' = FALSE /\ since' = now /\ slow' = FALSE
        /\ UNCHANGED <<attempt, outcome, cancelled, offered, said, held, tokens, out>>
  /\ UNCHANGED <<time, client, got, bill>>

\* Mutant: a context that is done counts as a timeout.
GivesUpAsGap(a) ==
  /\ hpc = "wait" /\ attempt = a
  /\ \/ (tick \/ CtxDone(a)) /\ Returns(a, "gap", "judge")
     \/ fpc[a] = "done" /\ Returns(a, "ok", "judge")
  /\ UNCHANGED <<time, client, reader, forward, got, out, bill>>

\* The select ends the attempt: no response in time, the context, or a closed
\* channel.  If several are ready any of them is taken.
GivesUp(a) ==
  /\ hpc = "wait" /\ attempt = a
  /\ \/ tick /\ Returns(a, "gap", "judge")
     \/ (CtxDone(a) \/ fpc[a] = "done") /\ Returns(a, "ok", "judge")
  /\ UNCHANGED <<time, client, reader, forward, got, out, bill>>

\* A response is received; the forwarding goroutine ends after an error.
Receive(a) ==
  /\ hpc = "wait" /\ attempt = a /\ fpc[a] = "offer"
  /\ hpc' = "write" /\ got' = [got EXCEPT ![a] = Append(@, held[a])]
  /\ fpc' = [fpc EXCEPT ![a] = IF Is(a, held[a], {"error"}) THEN "done" ELSE "recv"]
  /\ UNCHANGED <<time, attempt, outcome, cancelled, client, timer, reader, held, tokens, out,
                 bill>>

\* timer.Reset; a tick that is in the channel stays there.
Reset == due' = now + Gap /\ tick' = tick /\ since' = now

Waited(a) == now - since >= (IF Len(got[a]) = 0 THEN FirstWait ELSE Gap)

\* The response is written, and the loop begins again; or the client has gone.
Write(a) ==
  /\ hpc = "write" /\ attempt = a
  /\ \/ /\ hpc' = "wait" /\ Reset
        /\ slow' = (slow \/ now - since >= (IF Len(got[a]) = 1 THEN FirstWait ELSE Gap))
        /\ out' = Append(out, <<a, Last(got[a])>>)
        /\ UNCHANGED <<attempt, outcome, cancelled>>
     \/ gone /\ Returns(a, "ok", "judge") /\ UNCHANGED out
  /\ UNCHANGED <<time, client, reader, forward, got, bill>>

----------------------------------------------------------------------------
\* ChatController.ChatStream

\* Mutants: a text that has begun does not count; the second's end is included.
EmptyIfGap(a) ==
  \/ outcome = "ok" /\ ~Received(a, {"text"})
  \/ outcome = "gap"
InWindowLong == now <= RetryWindow

\* ErrChatResponseEmpty, or ErrChatResponseGapTimeout without any reply.
Empty(a) ==
  \/ outcome = "ok" /\ ~Received(a, {"text"})
  \/ outcome = "gap" /\ ~Received(a, {"text", "blank"})
InWindow == now < RetryWindow

\* One more attempt, under a context of its own.
Judge(a) ==
  /\ hpc = "judge" /\ attempt = a
  /\ IF a = 0 /\ Empty(a) /\ InWindow
     THEN /\ attempt' = 1 /\ hpc' = "call"
          /\ deadline' = [deadline EXCEPT ![1] = now + Deadline]
     ELSE hpc' = "finish" /\ UNCHANGED <<attempt, deadline>>
  /\ UNCHANGED <<now, outcome, cancelled, client, timer, reader, forward, got, out, bill>>

\* handleChatResult sends the summary with the usage as it is now.
Finish(a) ==
  /\ hpc = "finish" /\ attempt = a
  /\ hpc' = "done"
  /\ bill' = IF Received(a, {"text", "blank", "empty"}) THEN tokens[a] ELSE 0
  /\ UNCHANGED <<time, attempt, outcome, cancelled, client, timer, reader, forward, got, out>>

\* The client leaves; its context may be done, too.
Leave ==
  /\ ~gone /\ gone' = TRUE /\ parentDone' \in BOOLEAN
  /\ UNCHANGED <<time, control, timer, reader, forward, got, out, bill>>

Tick ==
  /\ now < MaxTime /\ now' = now + 1
  /\ IF due # Off /\ due <= now + 1 THEN due' = Off /\ tick' = TRUE
                                    ELSE UNCHANGED <<due, tick>>
  /\ UNCHANGED <<deadline, control, client, since, slow, reader, forward, got, out, bill>>

Handle(a)   == Call(a) \/ GivesUp(a) \/ Receive(a) \/ Write(a) \/ Judge(a) \/ Finish(a)
Forward(a)  == DropsChunk(a) \/ Take(a) \/ Ends(a)
Next == Tick \/ Leave \/ \E a \in Attempts : Recv(a) \/ Forward(a) \/ Handle(a)
Spec == Init /\ [][Next]_vars

\* Goroutines that can go on do; calls and writes return; time passes; and the
\* read of the model's stream ends with its context.
Fairness ==
  /\ WF_vars(Tick)
  /\ \A a \in Attempts : /\ WF_vars(Handle(a)) /\ WF_vars(Forward(a))
                         /\ WF_vars(CtxDone(a) /\ Recv(a))

FairSpec == Spec /\ Fairness

----------------------------------------------------------------------------
\* Properties

\* What the client was sent of an attempt: the places in out, and the chunks there.
Replies(a) == {i \in DOMAIN out : out[i][1] = a /\ out[i][2] > 0}
Shown(a)   == {out[i][2] : i \in Replies(a)}

InHand(steps, a) == IF steps[a] = "offer" THEN 1 ELSE 0

\* The client is sent what the model said, in order, nothing twice, nothing left
\* out: what a running attempt has not received is in a goroutine's hands, and
\* only what the handler could not write is missing, at the end.
RepliesArePrefixes == \A a \in Attempts :
  /\ \A i \in DOMAIN got[a] : got[a][i] = i
  /\ \A i, j \in Replies(a) : i < j => out[i][2] < out[j][2]
  /\ Shown(a) = 1..Len(got[a]) \/ Shown(a) = 1..(Len(got[a]) - 1)
  /\ ~CtxDone(a) => Len(said[a]) = Len(got[a]) + InHand(fpc, a) + InHand(ppc, a)
  /\ Shown(a) # 1..Len(got[a]) => gone \/ (hpc = "write" /\ attempt = a)

\* The client never reads two answers: a second attempt begins only if the
\* first brought no text, not even one that could not be written.
OneAttemptAnswers == attempt = 1 => ~Received(0, {"text"})

\* The usage sent at the end counts what was received, and at most one chunk
\* more, which the forwarding goroutine holds.
UsageOneAhead == \A a \in Attempts :
  LET chunks == Cardinality({i \in DOMAIN got[a] : ~Is(a, got[a][i], {"error"})})
  IN /\ tokens[a] \in {chunks, chunks + 1}
     /\ hpc = "done" /\ attempt = a => bill <= chunks + 1
     /\ tokens[a] > chunks => fpc[a] = "offer" /\ ~Is(a, held[a], {"error"})

\* An attempt is cut off for silence only after that silence, or because an
\* earlier response was handled after its timer had run out, whose tick stayed.
SilenceIsReal == [][\A a \in Attempts :
  GivesUp(a) /\ outcome' = "gap" => slow \/ Waited(a)]_vars

\* A model that says nothing at all is not asked again: by the time the first
\* timer runs out the window for a second attempt is over.
SilentNotRetried ==
  attempt = 1 => parentDone \/ ppc[0] = "done" \/ Len(said[0]) > 0

\* The handler returns, and so do both goroutines of each attempt, except for a
\* forwarding goroutine that had a chunk in hand when the handler stopped
\* receiving: it waits for ever.
EverythingEnds == <>[](
  /\ hpc = "done"
  /\ \A a \in Attempts :
       /\ ppc[a] \in {"off", "done"}
       /\ fpc[a] \in {"off", "done"} \/ (fpc[a] = "offer" /\ a \in cancelled))
=============================================================================
