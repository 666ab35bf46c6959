------------------------- MODULE ChatStream_proofs -------------------------
(***************************************************************************)
(* What the client may read, for streams of any length and any times.  The *)
(* chunks of an attempt are in the handler's hands, in the forwarder's, or *)
(* in the reader's, in the order they were said; and the second attempt    *)
(* begins only when the first, whose chunks no one receives any more, has  *)
(* brought no text.                                                        *)
(***************************************************************************)
EXTENDS ChatStream, FiniteSetTheorems, TLAPS

\* The parts of the type invariant, which steps disturb one by one.
ClockOK == /\ now \in 0..MaxTime /\ deadline \in [Attempts -> 0..(MaxTime + Deadline)]
           /\ due \in Nat \cup {Off} /\ (due # Off => due > now) /\ since \in 0..MaxTime
FlagsOK == tick \in BOOLEAN /\ slow \in BOOLEAN /\ parentDone \in BOOLEAN /\ gone \in BOOLEAN
ControlOK == /\ attempt \in Attempts /\ cancelled \subseteq Attempts
             /\ hpc \in {"call", "wait", "write", "judge", "finish", "done"}
             /\ outcome \in {"none", "ok", "gap", "sent"}
StreamsOK == /\ ppc \in [Attempts -> Steps] /\ fpc \in [Attempts -> Steps]
             /\ offered \in [Attempts -> Nat] /\ held \in [Attempts -> Nat]
             /\ said \in [Attempts -> Seq(Kinds)] /\ tokens \in [Attempts -> Nat]
             /\ got \in [Attempts -> Seq(Nat)]
ClientOK == out \in Seq(Attempts \X Nat) /\ bill \in Nat

Flow(a) ==
  /\ \A i \in 1..Len(got[a]) : got[a][i] = i
  /\ fpc[a] = "offer" => held[a] = Len(got[a]) + 1
  /\ ppc[a] = "offer" => offered[a] = Len(said[a])
  /\ Len(got[a]) + InHand(fpc, a) + InHand(ppc, a) <= Len(said[a])
  /\ ppc[a] \in {"recv", "offer"} =>
       Len(said[a]) <= Len(got[a]) + InHand(fpc, a) + InHand(ppc, a)
  /\ ppc[a] = "off" => fpc[a] = "off" /\ Len(said[a]) = 0

FlowInv == \A a \in Attempts : Flow(a)

HandlerInv ==
  /\ hpc = "call" => ppc[attempt] = "off"
  /\ attempt = 0 => ppc[1] = "off"
  /\ hpc = "write" => Len(got[attempt]) > 0

Inv == TypeOK /\ FlowInv /\ HandlerInv /\ OneAttemptAnswers

----------------------------------------------------------------------------
LEMMA Initially == Init => Inv
  <1> SUFFICES ASSUME Init PROVE Inv  OBVIOUS
  <1>0. \A s \in {said, got} : \A a \in Attempts : s[a] = << >>
    BY DEF Init, ForEach
  <1>1. TypeOK
    <2>1. MaxTime \in Nat /\ Deadline \in Nat  BY ChatConstants
    <2>2. ClockOK  BY <2>1 DEF Init, ClockOK, Attempts
    <2>3. FlagsOK /\ ControlOK  BY DEF Init, FlagsOK, ControlOK, Attempts
    <2>4. StreamsOK  BY DEF Init, StreamsOK, ForEach, Steps
    <2>5. ClientOK  BY DEF Init, ClientOK
    <2> QED  BY <2>2, <2>3, <2>4, <2>5 DEF TypeOK, ClockOK, FlagsOK, ControlOK, StreamsOK, ClientOK
  <1>2. FlowInv  BY <1>0 DEF Init, FlowInv, Flow, ForEach, InHand
  <1>3. HandlerInv  BY DEF Init, HandlerInv, ForEach, Attempts
  <1>4. OneAttemptAnswers  BY DEF Init, OneAttemptAnswers
  <1> QED  BY <1>1, <1>2, <1>3, <1>4 DEF Inv

LEMMA TypeParts == TypeOK <=> ClockOK /\ FlagsOK /\ ControlOK /\ StreamsOK /\ ClientOK
  BY DEF TypeOK, ClockOK, FlagsOK, ControlOK, StreamsOK, ClientOK

LEMMA PartsType ==
  ASSUME ClockOK', FlagsOK', ControlOK', StreamsOK', ClientOK' PROVE TypeOK'
  BY DEF TypeOK, ClockOK, FlagsOK, ControlOK, StreamsOK, ClientOK

\* A step that leaves a part alone.
LEMMA ClockKept == ASSUME Inv, UNCHANGED <<time, due, since>> PROVE ClockOK'
  <1>1. ClockOK  BY TypeParts DEF Inv
  <1> QED  BY <1>1 DEF ClockOK, time
LEMMA FlagsKept == ASSUME Inv, UNCHANGED <<client, tick, slow>> PROVE FlagsOK'
  <1>1. FlagsOK  BY TypeParts DEF Inv
  <1> QED  BY <1>1 DEF FlagsOK, client
LEMMA ControlKept == ASSUME Inv, UNCHANGED control PROVE ControlOK'
  <1>1. ControlOK  BY TypeParts DEF Inv
  <1> QED  BY <1>1 DEF ControlOK, control
LEMMA StreamsKept == ASSUME Inv, UNCHANGED <<reader, forward, got>> PROVE StreamsOK'
  <1>1. StreamsOK  BY TypeParts DEF Inv
  <1> QED  BY <1>1 DEF StreamsOK, reader, forward
LEMMA ClientKept == ASSUME Inv, UNCHANGED <<out, bill>> PROVE ClientOK'
  <1>1. ClientOK  BY TypeParts DEF Inv
  <1> QED  BY <1>1 DEF ClientOK

\* The end of an attempt sets the control and the timer.
LEMMA ReturnsTyped ==
  ASSUME Inv, NEW a \in Attempts, UNCHANGED <<time, client>>,
         NEW res \in {"ok", "gap", "sent"}, NEW next \in {"judge", "finish"},
         Returns(a, res, next)
  PROVE  ClockOK' /\ FlagsOK' /\ ControlOK'
  <1>0. ClockOK /\ FlagsOK /\ ControlOK  BY TypeParts DEF Inv
  <1>1. due' = Off /\ since' = 0 /\ now' = now /\ deadline' = deadline
    BY DEF Returns, time
  <1>2. 0 \in 0..MaxTime  BY ChatConstants
  <1>3. ClockOK'  BY <1>0, <1>1, <1>2 DEF ClockOK
  <1>4. FlagsOK'  BY <1>0 DEF FlagsOK, Returns, client
  <1>5. ControlOK'  BY <1>0 DEF ControlOK, Returns
  <1> QED  BY <1>3, <1>4, <1>5

\* A chunk the handler has received is one the model said.
LEMMA ReceivedWasSaid ==
  ASSUME Inv, NEW a \in Attempts, NEW i \in DOMAIN got[a]
  PROVE  got[a][i] = i /\ i \in 1..Len(said[a])
  <1>1. got[a] \in Seq(Nat) /\ said[a] \in Seq(Kinds)  BY DEF Inv, TypeOK
  <1>2. Flow(a)  BY DEF Inv, FlowInv
  <1>3. Len(got[a]) \in Nat /\ Len(said[a]) \in Nat /\ DOMAIN got[a] = 1..Len(got[a])
    BY <1>1
  <1>4. InHand(fpc, a) \in Nat /\ InHand(ppc, a) \in Nat  BY DEF InHand
  <1>5. Len(got[a]) + InHand(fpc, a) + InHand(ppc, a) <= Len(said[a])  BY <1>2 DEF Flow
  <1>6. Len(got[a]) <= Len(said[a])  BY <1>3, <1>4, <1>5
  <1> QED  BY <1>2, <1>3, <1>6 DEF Flow

\* What was received stays what it was while nothing more is received.
LEMMA AnswerKept ==
  ASSUME Inv, got'[0] = got[0], attempt = 1 /\ attempt' = 1,
         \A i \in 1..Len(said[0]) : said'[0][i] = said[0][i]
  PROVE  OneAttemptAnswers'
  <1> SUFFICES ASSUME NEW i \in DOMAIN got'[0], said'[0][got'[0][i]] \in {"text"} PROVE FALSE
    BY DEF OneAttemptAnswers, Received, Is
  <1>1. i \in DOMAIN got[0] /\ 0 \in Attempts  BY DEF Attempts
  <1>2. got[0][i] = i /\ i \in 1..Len(said[0])  BY <1>1, ReceivedWasSaid
  <1>3. Is(0, got[0][i], {"text"})  BY <1>2 DEF Is
  <1> QED  BY <1>1, <1>3 DEF Inv, OneAttemptAnswers, Received

\* A step that leaves the streams alone.
LEMMA StreamsUntouched ==
  ASSUME Inv, UNCHANGED <<reader, forward, got>>
  PROVE  FlowInv' /\ (attempt' = attempt => OneAttemptAnswers')
  <1> USE DEF reader, forward
  <1>1. FlowInv'  BY DEF Inv, FlowInv, Flow, InHand
  <1>2. ASSUME attempt' = attempt PROVE OneAttemptAnswers'
    BY <1>2 DEF Inv, OneAttemptAnswers, Received, Is
  <1> QED  BY <1>1, <1>2

\* The reader ends, its chunk undelivered or none in its hands.
LEMMA ReaderStops ==
  ASSUME Inv, NEW a \in Attempts, ppc[a] \in {"recv", "offer"},
         ppc' = [ppc EXCEPT ![a] = "done"], UNCHANGED <<offered, said, fpc, held, got>>
  PROVE  FlowInv'
  <1> SUFFICES ASSUME NEW b \in Attempts PROVE Flow(b)'  BY DEF FlowInv
  <1>1. Flow(b)  BY DEF Inv, FlowInv
  <1>2. ppc'[b] = ppc[b] \/ (ppc[b] \in {"recv", "offer"} /\ ppc'[b] = "done")
    BY DEF Inv, TypeOK
  <1>3. Len(said[b]) \in Nat /\ Len(got[b]) \in Nat
    <2>1. got[b] \in Seq(Nat) /\ said[b] \in Seq(Kinds)  BY DEF Inv, TypeOK
    <2> QED  BY <2>1
  <1>4. CASE ppc'[b] = ppc[b]  BY <1>1, <1>4 DEF Flow, InHand
  <1>5. CASE ppc[b] \in {"recv", "offer"} /\ ppc'[b] = "done"
    <2>1. InHand(ppc, b)' = 0 /\ InHand(fpc, b)' = InHand(fpc, b)
          /\ InHand(fpc, b) \in Nat /\ InHand(ppc, b) \in Nat
      BY <1>5 DEF InHand
    <2>2. Len(got[b]) + InHand(fpc, b) <= Len(said[b])  BY <1>1, <1>3, <2>1 DEF Flow
    <2> QED  BY <1>1, <1>5, <2>1, <2>2, <1>3 DEF Flow
  <1> QED  BY <1>2, <1>4, <1>5

\* A step of the goroutines disturbs no other part of the type invariant.
LEMMA GoroutineTyped ==
  ASSUME Inv, UNCHANGED <<time, control, client, timer, out, bill>>, StreamsOK'
  PROVE  TypeOK'
  <1>1. ClockOK' /\ FlagsOK'  BY ClockKept, FlagsKept DEF timer
  <1>2. ControlOK' /\ ClientOK'  BY ControlKept, ClientKept
  <1> QED  BY <1>1, <1>2, PartsType

\* Nor does it disturb the handler, if it leaves a reader that is off as it is.
LEMMA GoroutineHandled ==
  ASSUME Inv, UNCHANGED <<control, got>>,
         \A b \in Attempts : ppc[b] = "off" => ppc'[b] = "off"
  PROVE  HandlerInv'
  <1>1. HandlerInv /\ attempt \in Attempts  BY DEF Inv, TypeOK
  <1>2. UNCHANGED <<attempt, hpc, got>>  BY DEF control
  <1>3. 1 \in Attempts  BY DEF Attempts
  <1> QED  BY <1>1, <1>2, <1>3 DEF HandlerInv

LEMMA RecvStep == ASSUME Inv, NEW a \in Attempts, Recv(a) PROVE Inv'
  <1> USE DEF time, control, client, timer, forward
  <1>1. CASE ppc' = [ppc EXCEPT ![a] = "done"] /\ UNCHANGED <<offered, said>>
    <2>1. StreamsOK'
      <3>1. StreamsOK  BY TypeParts DEF Inv
      <3> QED  BY <1>1, <3>1 DEF StreamsOK, Recv, Steps
    <2>2. TypeOK'  BY <2>1, GoroutineTyped DEF Recv
    <2>3. FlowInv'  BY <1>1, ReaderStops DEF Recv
    <2>4. HandlerInv'
      <3>1. \A b \in Attempts : ppc[b] = "off" => ppc'[b] = "off"
        BY <1>1 DEF Inv, TypeOK, Recv
      <3> QED  BY <3>1, GoroutineHandled DEF Recv
    <2>5. OneAttemptAnswers'
      BY <1>1 DEF Inv, OneAttemptAnswers, Received, Is, Recv
    <2> QED  BY <2>2, <2>3, <2>4, <2>5 DEF Inv
  <1>2. CASE /\ \E k \in Kinds : said' = [said EXCEPT ![a] = Append(@, k)]
             /\ offered' = [offered EXCEPT ![a] = Len(said'[a])]
             /\ ppc' = [ppc EXCEPT ![a] = "offer"]
    <2>1. PICK k \in Kinds : said' = [said EXCEPT ![a] = Append(said[a], k)]  BY <1>2
    <2>2. said \in [Attempts -> Seq(Kinds)] /\ got \in [Attempts -> Seq(Nat)]
      BY DEF Inv, TypeOK
    <2>3. /\ said'[a] \in Seq(Kinds) /\ Len(said'[a]) = Len(said[a]) + 1
          /\ \A i \in 1..Len(said[a]) : said'[a][i] = said[a][i]
          /\ \A b \in Attempts : b # a => said'[b] = said[b]
      BY <2>1, <2>2
    <2>4. offered' = [offered EXCEPT ![a] = Len(said[a]) + 1]  BY <1>2, <2>3
    <2>5. ppc' = [ppc EXCEPT ![a] = "offer"] /\ ppc[a] = "recv" /\ UNCHANGED <<fpc, held, got>>
      BY <1>2 DEF Recv
    <2>6. TypeOK'
      <3>1. said' \in [Attempts -> Seq(Kinds)]  BY <2>1, <2>2, <2>3
      <3>2. offered' \in [Attempts -> Nat]  BY <2>4, <2>2 DEF Inv, TypeOK
      <3>3. StreamsOK  BY TypeParts DEF Inv
      <3>4. StreamsOK'  BY <3>1, <3>2, <3>3, <2>5 DEF StreamsOK, Recv, Steps
      <3> QED  BY <3>4, GoroutineTyped DEF Recv
    <2>7. FlowInv'
      <3> SUFFICES ASSUME NEW b \in Attempts PROVE Flow(b)'  BY DEF FlowInv
      <3>1. Flow(b)  BY DEF Inv, FlowInv
      <3>2. CASE b = a
        <4>1. ppc'[b] = "offer" /\ ppc[b] = "recv" /\ offered'[b] = Len(said[b]) + 1
          BY <3>2, <2>4, <2>5 DEF Inv, TypeOK
        <4>2. InHand(ppc, b) = 0 /\ InHand(ppc, b)' = 1 /\ InHand(fpc, b)' = InHand(fpc, b)
              /\ InHand(fpc, b) \in Nat
          BY <4>1, <2>5 DEF InHand
        <4>3. Len(said[b]) \in Nat /\ Len(got[b]) \in Nat /\ Len(said'[b]) = Len(said[b]) + 1
          BY <3>2, <2>2, <2>3
        <4>4. got' = got /\ fpc' = fpc /\ held' = held  BY <2>5
        <4>5. Len(said[b]) = Len(got[b]) + InHand(fpc, b)  BY <3>1, <4>1, <4>2, <4>3 DEF Flow
        <4> QED  BY <3>1, <4>1, <4>2, <4>3, <4>4, <4>5 DEF Flow
      <3>3. CASE b # a
        <4>1. ppc'[b] = ppc[b] /\ offered'[b] = offered[b] /\ said'[b] = said[b]
          BY <3>3, <2>3, <2>4, <2>5 DEF Inv, TypeOK
        <4> QED  BY <4>1, <3>1, <2>5 DEF Flow, InHand
      <3> QED  BY <3>2, <3>3
    <2>8. HandlerInv'
      <3>1. \A b \in Attempts : ppc[b] = "off" => ppc'[b] = "off"  BY <2>5 DEF Inv, TypeOK
      <3> QED  BY <3>1, GoroutineHandled DEF Recv
    <2>9. OneAttemptAnswers'
      <3>1. CASE attempt' = 1
        <4>1. attempt = 1  BY <3>1 DEF Recv
        <4>2. \A i \in 1..Len(said[0]) : said'[0][i] = said[0][i]
          BY <2>3 DEF Attempts
        <4> QED  BY <4>1, <4>2, <3>1, <2>5, AnswerKept
      <3> QED  BY <3>1 DEF OneAttemptAnswers
    <2> QED  BY <2>6, <2>7, <2>8, <2>9 DEF Inv
  <1> QED  BY <1>1, <1>2 DEF Recv

LEMMA DropsChunkStep == ASSUME Inv, NEW a \in Attempts, DropsChunk(a) PROVE Inv'
  <1> USE DEF time, control, client, timer, forward
  <1>1. StreamsOK'
    <2>1. StreamsOK  BY TypeParts DEF Inv
    <2> QED  BY <2>1 DEF StreamsOK, DropsChunk, Steps
  <1>2. TypeOK'  BY <1>1, GoroutineTyped DEF DropsChunk
  <1>3. /\ ppc[a] = "offer" /\ ppc' = [ppc EXCEPT ![a] = "done"]
        /\ UNCHANGED <<offered, said, fpc, held, got>>
    BY DEF DropsChunk
  <1>4. FlowInv'  BY <1>3, ReaderStops
  <1>5. HandlerInv'
    <2>1. \A b \in Attempts : ppc[b] = "off" => ppc'[b] = "off"  BY <1>3 DEF Inv, TypeOK
    <2> QED  BY <2>1, GoroutineHandled DEF DropsChunk
  <1>6. OneAttemptAnswers'  BY DEF Inv, OneAttemptAnswers, Received, Is, DropsChunk
  <1> QED  BY <1>2, <1>4, <1>5, <1>6 DEF Inv

LEMMA TakeStep == ASSUME Inv, NEW a \in Attempts, Take(a) PROVE Inv'
  <1> USE DEF time, control, client, timer
  <1>1. PICK p \in {"done", "recv"} : ppc' = [ppc EXCEPT ![a] = p]
    BY DEF Take
  <1>2. TypeOK'
    <2> DEFINE n == IF Is(a, offered[a], {"error"}) THEN 0 ELSE 1
    <2>1. tokens' = [tokens EXCEPT ![a] = tokens[a] + n]  BY DEF Take
    <2>2. n \in Nat  OBVIOUS
    <2> HIDE DEF n
    <2>3. StreamsOK  BY TypeParts DEF Inv
    <2>4. tokens' \in [Attempts -> Nat]  BY <2>1, <2>2, <2>3 DEF StreamsOK
    <2>5. held' \in [Attempts -> Nat]  BY <2>3 DEF StreamsOK, Take
    <2>6. StreamsOK'  BY <1>1, <2>4, <2>5, <2>3 DEF StreamsOK, Take, Steps
    <2> QED  BY <2>6, GoroutineTyped DEF Take
  <1>3. FlowInv'
    <2> SUFFICES ASSUME NEW b \in Attempts PROVE Flow(b)'  BY DEF FlowInv
    <2>1. Flow(b) /\ Len(got[b]) \in Nat /\ Len(said[b]) \in Nat
      <3>1. Flow(b)  BY DEF Inv, FlowInv
      <3>2. got[b] \in Seq(Nat) /\ said[b] \in Seq(Kinds)  BY DEF Inv, TypeOK
      <3> QED  BY <3>1, <3>2
    <2>2. CASE b = a
      <3>1. /\ ppc[b] = "offer" /\ fpc[b] = "recv" /\ fpc'[b] = "offer"
            /\ ppc'[b] \in {"done", "recv"} /\ held'[b] = offered[b]
            /\ UNCHANGED <<got, said, offered>>
        BY <1>1, <2>2 DEF Take, Inv, TypeOK
      <3>2. InHand(ppc, b) = 1 /\ InHand(fpc, b) = 0 /\ InHand(ppc, b)' = 0 /\ InHand(fpc, b)' = 1
        BY <3>1 DEF InHand
      <3>3. offered[b] = Len(said[b]) /\ Len(said[b]) = Len(got[b]) + 1
        BY <2>1, <3>1, <3>2 DEF Flow
      <3> QED  BY <2>1, <3>1, <3>2, <3>3 DEF Flow
    <2>3. CASE b # a
      <3>1. ppc'[b] = ppc[b] /\ fpc'[b] = fpc[b] /\ held'[b] = held[b]
        BY <1>1, <2>3 DEF Take, Inv, TypeOK
      <3> QED  BY <2>1, <3>1 DEF Flow, InHand, Take
    <2> QED  BY <2>2, <2>3
  <1>4. HandlerInv'
    <2>1. \A b \in Attempts : ppc[b] = "off" => ppc'[b] = "off"
      BY <1>1 DEF Inv, TypeOK, Take
    <2> QED  BY <2>1, GoroutineHandled DEF Take
  <1>5. OneAttemptAnswers'  BY DEF Inv, OneAttemptAnswers, Received, Is, Take
  <1> QED  BY <1>2, <1>3, <1>4, <1>5 DEF Inv

LEMMA EndsStep == ASSUME Inv, NEW a \in Attempts, Ends(a) PROVE Inv'
  <1> USE DEF time, control, client, timer, reader
  <1>1. StreamsOK'
    <2>1. StreamsOK  BY TypeParts DEF Inv
    <2> QED  BY <2>1 DEF StreamsOK, Ends, Steps
  <1>2. TypeOK'  BY <1>1, GoroutineTyped DEF Ends
  <1>3. FlowInv'
    <2> SUFFICES ASSUME NEW b \in Attempts PROVE Flow(b)'  BY DEF FlowInv
    <2>1. Flow(b)  BY DEF Inv, FlowInv
    <2>2. fpc'[b] = fpc[b] \/ (fpc[b] = "recv" /\ fpc'[b] = "done")
      BY DEF Ends, Inv, TypeOK
    <2>3. InHand(fpc, b)' = InHand(fpc, b)  BY <2>2 DEF InHand
    <2> QED  BY <2>1, <2>2, <2>3 DEF Flow, InHand, Ends
  <1>4. HandlerInv'  BY DEF Inv, TypeOK, HandlerInv, Ends
  <1>5. OneAttemptAnswers'  BY DEF Inv, OneAttemptAnswers, Received, Is, Ends
  <1> QED  BY <1>2, <1>3, <1>4, <1>5 DEF Inv

----------------------------------------------------------------------------
\* The handler

LEMMA CallStep == ASSUME Inv, NEW a \in Attempts, Call(a) PROVE Inv'
  <1> USE DEF time, client
  <1>1. CASE Returns(a, "sent", "finish") /\ out' = Append(out, <<a, 0>>)
             /\ UNCHANGED <<reader, forward>>
    <2>1. TypeOK'
      <3>1. out' \in Seq(Attempts \X Nat)
        <4>1. <<a, 0>> \in Attempts \X Nat  OBVIOUS
        <4> QED  BY <4>1, <1>1 DEF Inv, TypeOK
      <3>2. ClientOK'  BY <3>1 DEF ClientOK, Call, Inv, TypeOK
      <3>3. ClockOK' /\ FlagsOK' /\ ControlOK'  BY <1>1, ReturnsTyped DEF Call
      <3>4. StreamsOK'  BY <1>1, StreamsKept DEF Call
      <3> QED  BY <3>2, <3>3, <3>4, PartsType
    <2>2. FlowInv' /\ OneAttemptAnswers'
      BY <1>1, StreamsUntouched DEF Call, Returns
    <2>3. HandlerInv'  BY <1>1 DEF Inv, HandlerInv, Returns, reader
    <2> QED  BY <2>1, <2>2, <2>3 DEF Inv
  <1>2. CASE /\ hpc' = "wait" /\ ppc' = [ppc EXCEPT ![a] = "recv"]
             /\ fpc' = [fpc EXCEPT ![a] = "recv"]
             /\ due' = now + FirstWait /\ tick' = FALSE /\ since' = now /\ slow' = FALSE
             /\ UNCHANGED <<attempt, outcome, cancelled, offered, said, held, tokens, out>>
    <2>1. /\ hpc = "call" /\ attempt = a /\ hpc' = "wait"
          /\ ppc' = [ppc EXCEPT ![a] = "recv"] /\ fpc' = [fpc EXCEPT ![a] = "recv"]
          /\ due' = now + FirstWait /\ tick' = FALSE /\ since' = now /\ slow' = FALSE
          /\ UNCHANGED <<now, deadline, parentDone, gone, got, bill>>
          /\ UNCHANGED <<attempt, outcome, cancelled, offered, said, held, tokens, out>>
      BY <1>2 DEF Call
    <2>2. TypeOK'
      <3>0. ClockOK /\ FlagsOK /\ ControlOK /\ StreamsOK  BY TypeParts DEF Inv
      <3>1. due' \in Nat /\ due' > now' /\ since' = now
        BY <2>1, <3>0, ChatConstants DEF ClockOK
      <3>2. ClockOK'  BY <2>1, <3>0, <3>1 DEF ClockOK
      <3>3. FlagsOK'  BY <2>1, <3>0 DEF FlagsOK
      <3>4. ControlOK'  BY <2>1, <3>0 DEF ControlOK
      <3>5. StreamsOK'  BY <2>1, <3>0 DEF StreamsOK, Steps
      <3>6. ClientOK'  BY <2>1, ClientKept
      <3> QED  BY <3>2, <3>3, <3>4, <3>5, <3>6, PartsType
    <2>3. FlowInv'
      <3> SUFFICES ASSUME NEW b \in Attempts PROVE Flow(b)'  BY DEF FlowInv
      <3>1. Flow(b) /\ Len(got[b]) \in Nat /\ Len(said[b]) \in Nat
        <4>1. Flow(b)  BY DEF Inv, FlowInv
        <4>2. got[b] \in Seq(Nat) /\ said[b] \in Seq(Kinds)  BY DEF Inv, TypeOK
        <4> QED  BY <4>1, <4>2
      <3>2. CASE b = a
        <4>1. ppc[b] = "off"  BY <2>1, <3>2 DEF Inv, HandlerInv
        <4>2. ppc'[b] = "recv" /\ fpc'[b] = "recv"  BY <2>1, <3>2 DEF Inv, TypeOK
        <4>3. fpc[b] = "off" /\ Len(said[b]) = 0  BY <3>1, <4>1 DEF Flow
        <4>4. InHand(ppc, b) = 0 /\ InHand(fpc, b) = 0 /\ InHand(ppc, b)' = 0 /\ InHand(fpc, b)' = 0
          BY <4>1, <4>2, <4>3 DEF InHand
        <4>5. Len(got[b]) = 0  BY <3>1, <4>3, <4>4 DEF Flow
        <4> QED  BY <2>1, <3>1, <4>2, <4>3, <4>4, <4>5 DEF Flow
      <3>3. CASE b # a
        <4>1. ppc'[b] = ppc[b] /\ fpc'[b] = fpc[b]  BY <2>1, <3>3 DEF Inv, TypeOK
        <4> QED  BY <2>1, <3>1, <4>1 DEF Flow, InHand
      <3> QED  BY <3>2, <3>3
    <2>4. HandlerInv'  BY <2>1 DEF Inv, TypeOK, HandlerInv, Attempts
    <2>5. OneAttemptAnswers'
      BY <2>1 DEF Inv, OneAttemptAnswers, Received, Is
    <2> QED  BY <2>2, <2>3, <2>4, <2>5 DEF Inv
  <1> QED  BY <1>1, <1>2 DEF Call

LEMMA GivesUpStep == ASSUME Inv, NEW a \in Attempts, GivesUp(a) PROVE Inv'
  <1> USE DEF time, client
  <1>0. PICK res \in {"gap", "ok"} : Returns(a, res, "judge")  BY DEF GivesUp
  <1>1. TypeOK'
    <2>1. ClockOK' /\ FlagsOK' /\ ControlOK'  BY <1>0, ReturnsTyped DEF GivesUp
    <2>2. StreamsOK' /\ ClientOK'  BY StreamsKept, ClientKept DEF GivesUp
    <2> QED  BY <2>1, <2>2, PartsType
  <1>2. FlowInv' /\ OneAttemptAnswers'
    BY <1>0, StreamsUntouched DEF GivesUp, Returns
  <1>3. HandlerInv'  BY <1>0 DEF Inv, HandlerInv, GivesUp, Returns, reader
  <1> QED  BY <1>1, <1>2, <1>3 DEF Inv

LEMMA ReceiveStep == ASSUME Inv, NEW a \in Attempts, Receive(a) PROVE Inv'
  <1> USE DEF time, client, timer, reader
  <1>1. PICK p \in {"done", "recv"} : fpc' = [fpc EXCEPT ![a] = p]  BY DEF Receive
  <1>2. got' = [got EXCEPT ![a] = Append(got[a], held[a])] /\ attempt = a /\ attempt' = a
    BY DEF Receive
  <1>3. got \in [Attempts -> Seq(Nat)] /\ held[a] \in Nat /\ said \in [Attempts -> Seq(Kinds)]
    BY DEF Inv, TypeOK
  <1>4. /\ got'[a] \in Seq(Nat) /\ Len(got'[a]) = Len(got[a]) + 1
        /\ \A i \in 1..Len(got[a]) : got'[a][i] = got[a][i]
        /\ got'[a][Len(got[a]) + 1] = held[a]
    BY <1>2, <1>3
  <1>5. TypeOK'
    <2>1. got' \in [Attempts -> Seq(Nat)]  BY <1>2, <1>3, <1>4
    <2>2. StreamsOK /\ ControlOK  BY TypeParts DEF Inv
    <2>3. StreamsOK'  BY <1>1, <2>1, <2>2 DEF StreamsOK, Receive, Steps
    <2>4. ControlOK'  BY <2>2 DEF ControlOK, Receive
    <2>5. ClockOK' /\ FlagsOK' /\ ClientOK'
      BY ClockKept, FlagsKept, ClientKept DEF Receive
    <2> QED  BY <2>3, <2>4, <2>5, PartsType
  <1>6. FlowInv'
    <2> SUFFICES ASSUME NEW b \in Attempts PROVE Flow(b)'  BY DEF FlowInv
    <2>1. Flow(b)  BY DEF Inv, FlowInv
    <2>2. CASE b = a
      <3>1. /\ fpc[a] = "offer" /\ fpc'[a] \in {"done", "recv"}
            /\ UNCHANGED <<ppc, said, offered, held>>
        BY <1>1 DEF Receive, Inv, TypeOK
      <3>2. held[a] = Len(got[a]) + 1  BY <2>1, <2>2, <3>1 DEF Flow
      <3>3. \A i \in 1..Len(got'[a]) : got'[a][i] = i
        <4> SUFFICES ASSUME NEW i \in 1..Len(got'[a]) PROVE got'[a][i] = i  OBVIOUS
        <4>1. i \in 1..Len(got[a]) \/ i = Len(got[a]) + 1  BY <1>4, <1>3
        <4> QED  BY <4>1, <1>4, <3>2, <2>1, <2>2 DEF Flow
      <3>4. InHand(fpc, a) = 1 /\ InHand(fpc, a)' = 0 /\ InHand(ppc, a)' = InHand(ppc, a)
            /\ InHand(ppc, a) \in Nat
        BY <3>1 DEF InHand
      <3>5. Len(got[a]) \in Nat /\ Len(said[a]) \in Nat  BY <1>3
      <3>6. ppc[a] # "off"  BY <2>1, <2>2, <3>1 DEF Flow
      <3>7. Len(got'[a]) + InHand(fpc, a)' = Len(got[a]) + InHand(fpc, a)  BY <1>4, <3>4, <3>5
      <3>8. Len(got[a]) + InHand(fpc, a) + InHand(ppc, a) <= Len(said[a])
            /\ (ppc[a] \in {"recv", "offer"} =>
                  Len(said[a]) <= Len(got[a]) + InHand(fpc, a) + InHand(ppc, a))
            /\ (ppc[a] = "offer" => offered[a] = Len(said[a]))
        BY <2>1, <2>2 DEF Flow
      <3>9. fpc'[a] # "offer" /\ ppc'[a] # "off"  BY <3>1, <3>6
      <3> QED  BY <2>2, <3>1, <3>3, <3>4, <3>7, <3>8, <3>9 DEF Flow
    <2>3. CASE b # a
      <3>1. got'[b] = got[b] /\ fpc'[b] = fpc[b]
        BY <1>1, <1>2, <1>3, <2>3 DEF Inv, TypeOK
      <3> QED  BY <2>1, <3>1 DEF Flow, InHand, Receive
    <2> QED  BY <2>2, <2>3
  <1>7. HandlerInv'  BY <1>2, <1>3, <1>4 DEF Inv, HandlerInv, Receive
  <1>8. OneAttemptAnswers'
    <2>1. CASE a = 1
      <3>1. got'[0] = got[0]  BY <1>2, <1>3, <2>1 DEF Attempts
      <3> QED  BY <1>2, <2>1, <3>1, AnswerKept DEF Receive
    <2>2. CASE a # 1  BY <1>2, <2>2 DEF OneAttemptAnswers
    <2> QED  BY <2>1, <2>2
  <1> QED  BY <1>5, <1>6, <1>7, <1>8 DEF Inv

LEMMA WriteStep == ASSUME Inv, NEW a \in Attempts, Write(a) PROVE Inv'
  <1> USE DEF time, client
  <1>0. FlowInv' /\ OneAttemptAnswers'
    BY StreamsUntouched DEF Write, Returns
  <1>1. CASE gone /\ Returns(a, "ok", "judge") /\ UNCHANGED out
    <2>1. TypeOK'
      <3>1. ClockOK' /\ FlagsOK' /\ ControlOK'  BY <1>1, ReturnsTyped DEF Write
      <3>2. StreamsOK' /\ ClientOK'  BY <1>1, StreamsKept, ClientKept DEF Write
      <3> QED  BY <3>1, <3>2, PartsType
    <2>2. HandlerInv'  BY <1>1 DEF Inv, HandlerInv, Write, Returns, reader
    <2> QED  BY <1>0, <2>1, <2>2 DEF Inv
  <1>2. CASE /\ hpc' = "wait" /\ Reset
             /\ slow' = (slow \/ now - since >= (IF Len(got[a]) = 1 THEN FirstWait ELSE Gap))
             /\ out' = Append(out, <<a, Last(got[a])>>)
             /\ UNCHANGED <<attempt, outcome, cancelled>>
    <2>1. TypeOK'
      <3>1. got[a] \in Seq(Nat) /\ Len(got[a]) > 0
        BY DEF Write, Inv, TypeOK, HandlerInv
      <3>2. Last(got[a]) \in Nat  BY <3>1 DEF Last
      <3>3. <<a, Last(got[a])>> \in Attempts \X Nat  BY <3>2
      <3>4. out' \in Seq(Attempts \X Nat)  BY <1>2, <3>3 DEF Inv, TypeOK
      <3>5. due' \in Nat /\ due' > now' /\ tick' = tick /\ since' = now
        <4>1. now \in 0..MaxTime  BY DEF Inv, TypeOK
        <4>2. MaxTime \in Nat /\ Gap \in Nat \ {0}  BY ChatConstants
        <4>3. now' = now /\ due' = now + Gap /\ tick' = tick /\ since' = now
          BY <1>2 DEF Reset, Write
        <4> QED  BY <4>1, <4>2, <4>3
      <3>6. slow' \in BOOLEAN  BY <1>2
      <3>0. ClockOK /\ FlagsOK /\ ControlOK  BY TypeParts DEF Inv
      <3>7. ClockOK'  BY <3>0, <3>5 DEF ClockOK, Write
      <3>8. FlagsOK' /\ ControlOK'  BY <1>2, <3>0, <3>5, <3>6 DEF FlagsOK, ControlOK, Write
      <3>9. StreamsOK' /\ ClientOK'  BY <3>4, StreamsKept DEF Write, ClientOK, Inv, TypeOK
      <3> QED  BY <3>7, <3>8, <3>9, PartsType
    <2>2. HandlerInv'  BY <1>2 DEF Inv, HandlerInv, Write, reader
    <2> QED  BY <1>0, <2>1, <2>2 DEF Inv
  <1> QED  BY <1>1, <1>2 DEF Write

\* The second attempt begins: the first has brought no text.
LEMMA JudgeStep == ASSUME Inv, NEW a \in Attempts, Judge(a) PROVE Inv'
  <1> USE DEF client, timer
  <1>0. FlowInv'  BY StreamsUntouched DEF Judge
  <1>1. CASE a = 0 /\ Empty(a) /\ InWindow
    <2>1. attempt = 0 /\ attempt' = 1 /\ hpc' = "call"
          /\ deadline' = [deadline EXCEPT ![1] = now + Deadline]
      BY <1>1 DEF Judge
    <2>2. TypeOK'
      <3>1. now + Deadline \in 0..(MaxTime + Deadline)
        <4>1. now \in 0..MaxTime  BY DEF Inv, TypeOK
        <4>2. MaxTime \in Nat /\ Deadline \in Nat  BY ChatConstants
        <4> QED  BY <4>1, <4>2
      <3>2. deadline' \in [Attempts -> 0..(MaxTime + Deadline)]
        BY <2>1, <3>1 DEF Inv, TypeOK
      <3>3. ClockOK' /\ ControlOK'
        <4>1. ClockOK /\ ControlOK  BY TypeParts DEF Inv
        <4> QED  BY <2>1, <3>2, <4>1 DEF ClockOK, ControlOK, Judge, Attempts
      <3>4. FlagsOK' /\ StreamsOK' /\ ClientOK'
        BY FlagsKept, StreamsKept, ClientKept DEF Judge
      <3> QED  BY <3>3, <3>4, PartsType
    <2>3. HandlerInv'  BY <2>1 DEF Inv, HandlerInv, Judge, reader
    <2>4. OneAttemptAnswers'
      <3>1. ~Received(0, {"text"})  BY <1>1 DEF Empty, Received, Is
      <3> QED  BY <3>1 DEF OneAttemptAnswers, Received, Is, Judge, reader
    <2> QED  BY <1>0, <2>2, <2>3, <2>4 DEF Inv
  <1>2. CASE ~(a = 0 /\ Empty(a) /\ InWindow)
    <2>1. hpc' = "finish" /\ UNCHANGED <<attempt, deadline>>  BY <1>2 DEF Judge
    <2>2. TypeOK'
      <3>1. ClockOK'  BY <2>1, ClockKept DEF Judge, time
      <3>2. ControlOK'
        <4>1. ControlOK  BY TypeParts DEF Inv
        <4> QED  BY <2>1, <4>1 DEF ControlOK, Judge
      <3>3. FlagsOK' /\ StreamsOK' /\ ClientOK'
        BY FlagsKept, StreamsKept, ClientKept DEF Judge
      <3> QED  BY <3>1, <3>2, <3>3, PartsType
    <2>3. HandlerInv'  BY <2>1 DEF Inv, HandlerInv, Judge, reader
    <2>4. OneAttemptAnswers'  BY <2>1, StreamsUntouched DEF Judge
    <2> QED  BY <1>0, <2>2, <2>3, <2>4 DEF Inv
  <1> QED  BY <1>1, <1>2

LEMMA FinishStep == ASSUME Inv, NEW a \in Attempts, Finish(a) PROVE Inv'
  <1> USE DEF time, client, timer
  <1>1. TypeOK'
    <2>1. bill' \in Nat  BY DEF Inv, TypeOK, Finish
    <2> QED  BY <2>1 DEF Inv, TypeOK, Finish, reader, forward
  <1>2. FlowInv' /\ OneAttemptAnswers'  BY StreamsUntouched DEF Finish
  <1>3. HandlerInv'  BY DEF Inv, HandlerInv, Finish, reader
  <1> QED  BY <1>1, <1>2, <1>3 DEF Inv

LEMMA LeaveStep == ASSUME Inv, Leave PROVE Inv'
  <1> USE DEF time, control, timer
  <1>1. TypeOK'  BY DEF Inv, TypeOK, Leave, reader, forward
  <1>2. FlowInv' /\ OneAttemptAnswers'  BY StreamsUntouched DEF Leave
  <1>3. HandlerInv'  BY DEF Inv, HandlerInv, Leave, reader
  <1> QED  BY <1>1, <1>2, <1>3 DEF Inv

LEMMA TickStep == ASSUME Inv, Tick PROVE Inv'
  <1> USE DEF control, client
  <1>1. TypeOK'
    <2>1. now \in 0..MaxTime /\ now < MaxTime /\ now' = now + 1 /\ MaxTime \in Nat
      BY ChatConstants DEF Inv, TypeOK, Tick
    <2>2. now' \in 0..MaxTime /\ since \in 0..MaxTime  BY <2>1 DEF Inv, TypeOK
    <2>3. due' \in Nat \cup {Off} /\ (due' # Off => due' > now') /\ tick' \in BOOLEAN
      <3>1. due \in Nat \cup {Off} /\ (due # Off => due > now) /\ tick \in BOOLEAN
        BY DEF Inv, TypeOK
      <3>2. CASE due # Off /\ due <= now + 1  BY <3>2 DEF Tick
      <3>3. CASE due # Off /\ ~(due <= now + 1)
        <4>1. due' = due /\ tick' = tick  BY <3>3 DEF Tick
        <4>2. due \in Nat /\ now \in Nat  BY <2>1, <3>1, <3>3
        <4> QED  BY <2>1, <3>1, <3>3, <4>1, <4>2
      <3>4. CASE due = Off  BY <3>1, <3>4 DEF Tick
      <3> QED  BY <3>2, <3>3, <3>4
    <2>4. ClockOK'  BY <2>2, <2>3 DEF ClockOK, Tick, Inv, TypeOK
    <2>5. FlagsOK'  BY <2>3 DEF FlagsOK, Tick, Inv, TypeOK
    <2>6. ControlOK' /\ StreamsOK' /\ ClientOK'
      BY ControlKept, StreamsKept, ClientKept DEF Tick
    <2> QED  BY <2>4, <2>5, <2>6, PartsType
  <1>2. FlowInv' /\ OneAttemptAnswers'  BY StreamsUntouched DEF Tick
  <1>3. HandlerInv'  BY DEF Inv, HandlerInv, Tick, reader
  <1> QED  BY <1>1, <1>2, <1>3 DEF Inv

----------------------------------------------------------------------------
LEMMA Preserved == Inv /\ [Next]_vars => Inv'
  <1> SUFFICES ASSUME Inv, [Next]_vars PROVE Inv'  OBVIOUS
  <1>1. CASE UNCHANGED vars
    <2> USE <1>1 DEF vars, time, control, client, timer, reader, forward
    <2>1. TypeOK'
      BY ClockKept, FlagsKept, ControlKept, StreamsKept, ClientKept, PartsType
    <2>2. FlowInv' /\ OneAttemptAnswers'  BY StreamsUntouched
    <2>3. HandlerInv'  BY DEF Inv, HandlerInv
    <2> QED  BY <2>1, <2>2, <2>3 DEF Inv
  <1>2. CASE Tick  BY <1>2, TickStep
  <1>3. CASE Leave  BY <1>3, LeaveStep
  <1>4. ASSUME NEW a \in Attempts, Recv(a) \/ Forward(a) PROVE Inv'
    BY <1>4, RecvStep, DropsChunkStep, TakeStep, EndsStep DEF Forward
  <1>5. ASSUME NEW a \in Attempts, Handle(a) PROVE Inv'
    BY <1>5, CallStep, GivesUpStep, ReceiveStep, WriteStep, JudgeStep, FinishStep DEF Handle
  <1> QED  BY <1>1, <1>2, <1>3, <1>4, <1>5 DEF Next

LEMMA InvHolds == Spec => []Inv
  BY Initially, Preserved, PTL DEF Spec

\* Every variable keeps its type, for streams of any length and any times; a
\* timer that is running is due in the future.
THEOREM TypeCorrect == Spec => []TypeOK
  BY InvHolds, PTL DEF Inv

\* The client never reads two answers: ChatController.ChatStream makes a second
\* attempt only when the first has brought no text, and none of the first's
\* chunks is received afterwards.
THEOREM OneAnswer == Spec => []OneAttemptAnswers
  BY InvHolds, PTL DEF Inv

\* The two goroutines and their channels hand every chunk of an attempt to the
\* handler in the order the model said it, none twice and none left out.
THEOREM ReceivedInOrder ==
  Spec => [](\A a \in Attempts : \A i \in DOMAIN got[a] :
               got[a][i] = i /\ i \in 1..Len(said[a]))
  <1>1. Inv => \A a \in Attempts : \A i \in DOMAIN got[a] :
                 got[a][i] = i /\ i \in 1..Len(said[a])
    BY ReceivedWasSaid
  <1> QED  BY <1>1, InvHolds, PTL

----------------------------------------------------------------------------
(* When an attempt is cut off, and when a second one is made.              *)

\* The first attempt's end is not for silence alone, or comes too late for a second one.
Excused == parentDone \/ ppc[0] = "done" \/ Len(said[0]) > 0 \/ now >= RetryWindow

SilentInv ==
  /\ (parentDone => gone) /\ deadline[0] = Deadline
  /\ attempt = 0 => 1 \notin cancelled
  /\ hpc \in {"call", "wait", "write"} => attempt \notin cancelled
  /\ attempt = 0 /\ due # Off => due >= RetryWindow \/ Len(said[0]) > 0
  /\ attempt = 0 /\ tick => Excused
  /\ fpc[0] = "done" /\ 0 \notin cancelled => Excused
  /\ attempt = 0 /\ hpc = "judge" => Excused

\* The wait the timer was last set for.
Patience == IF Len(got[attempt]) = (IF hpc = "write" THEN 1 ELSE 0) THEN FirstWait ELSE Gap

TimerInv ==
  hpc \in {"wait", "write"} =>
    /\ due # Off => due = since + Patience
    /\ tick => slow \/ now - since >= Patience

LEMMA StreamFacts ==
  ASSUME Inv, NEW a \in Attempts
  PROVE  /\ got[a] \in Seq(Nat) /\ Len(got[a]) \in Nat /\ DOMAIN got[a] = 1..Len(got[a])
         /\ said[a] \in Seq(Kinds) /\ Len(said[a]) \in Nat
         /\ Len(got[a]) <= Len(said[a])
         /\ now \in Nat /\ since \in Nat /\ attempt \in Attempts
  <1>1. got[a] \in Seq(Nat) /\ said[a] \in Seq(Kinds) /\ now \in Nat /\ since \in Nat
        /\ attempt \in Attempts
    BY DEF Inv, TypeOK
  <1>2. Flow(a)  BY DEF Inv, FlowInv
  <1>3. Len(got[a]) \in Nat /\ Len(said[a]) \in Nat /\ DOMAIN got[a] = 1..Len(got[a])  BY <1>1
  <1>4. InHand(fpc, a) \in Nat /\ InHand(ppc, a) \in Nat  BY DEF InHand
  <1>5. Len(got[a]) <= Len(said[a])  BY <1>2, <1>3, <1>4 DEF Flow
  <1> QED  BY <1>1, <1>3, <1>5

\* What is never undone.
LEMMA Monotone ==
  ASSUME Inv, SilentInv, Next
  PROVE  /\ now' >= now /\ (gone => gone') /\ (parentDone => parentDone')
         /\ cancelled \subseteq cancelled' /\ cancelled' \subseteq cancelled \cup {attempt}
         /\ \A b \in Attempts : (ppc[b] = "done" => ppc'[b] = "done")
                                /\ Len(said'[b]) >= Len(said[b])
  <1>1. /\ now \in Nat /\ ppc \in [Attempts -> Steps]
        /\ said \in [Attempts -> Seq(Kinds)] /\ attempt \in Attempts
    BY DEF Inv, TypeOK
  <1>2. \A b \in Attempts : said[b] \in Seq(Kinds) /\ Len(said[b]) \in Nat  BY <1>1
  <1>3. CASE Tick  BY <1>3, <1>1, <1>2 DEF Tick, reader, control, client
  <1>4. CASE Leave
    <2>1. ~gone /\ gone' = TRUE /\ ~parentDone  BY <1>4 DEF Leave, SilentInv
    <2> QED  BY <1>4, <1>1, <1>2, <2>1 DEF Leave, time, control, reader
  <1>5. ASSUME NEW a \in Attempts, Recv(a)
        PROVE  \A b \in Attempts : (ppc[b] = "done" => ppc'[b] = "done")
                                   /\ Len(said'[b]) >= Len(said[b])
    <2> SUFFICES ASSUME NEW b \in Attempts
                 PROVE  (ppc[b] = "done" => ppc'[b] = "done") /\ Len(said'[b]) >= Len(said[b])
      OBVIOUS
    <2>1. ppc[a] = "recv"  BY <1>5 DEF Recv
    <2>2. CASE ppc' = [ppc EXCEPT ![a] = "done"] /\ UNCHANGED <<offered, said>>
      BY <1>1, <1>2, <2>2
    <2>3. CASE /\ \E k \in Kinds : said' = [said EXCEPT ![a] = Append(@, k)]
               /\ ppc' = [ppc EXCEPT ![a] = "offer"]
      <3>1. PICK k \in Kinds : said' = [said EXCEPT ![a] = Append(said[a], k)]  BY <2>3
      <3>2. said'[b] = said[b] \/ said'[b] = Append(said[b], k)  BY <1>1, <3>1
      <3>3. Len(Append(said[b], k)) = Len(said[b]) + 1  BY <1>2
      <3>4. Len(said'[b]) >= Len(said[b])  BY <1>2, <3>2, <3>3
      <3> QED  BY <1>1, <2>1, <2>3, <3>4
    <2> QED  BY <1>5, <2>2, <2>3 DEF Recv
  <1>6. ASSUME NEW a \in Attempts, Recv(a)
        PROVE  /\ now' = now /\ gone' = gone /\ parentDone' = parentDone /\ cancelled' = cancelled
    BY <1>6 DEF Recv, time, client, control
  <1>7. ASSUME NEW a \in Attempts, Forward(a)
        PROVE  /\ now' = now /\ gone' = gone /\ parentDone' = parentDone /\ cancelled' = cancelled
               /\ said' = said
               /\ \A b \in Attempts : ppc[b] = "done" => ppc'[b] = "done"
    <2>1. /\ now' = now /\ gone' = gone /\ parentDone' = parentDone /\ cancelled' = cancelled
          /\ said' = said
      BY <1>7 DEF Forward, DropsChunk, Take, Ends, time, client, control, reader
    <2>2. CASE DropsChunk(a)  BY <1>1, <2>1, <2>2 DEF DropsChunk
    <2>3. CASE Take(a)  BY <1>1, <2>1, <2>3 DEF Take
    <2>4. CASE Ends(a)  BY <2>1, <2>4 DEF Ends, reader
    <2> QED  BY <1>7, <2>2, <2>3, <2>4 DEF Forward
  <1>8. ASSUME NEW a \in Attempts, Handle(a)
        PROVE  /\ now' = now /\ gone' = gone /\ parentDone' = parentDone
               /\ cancelled \subseteq cancelled' /\ cancelled' \subseteq cancelled \cup {attempt}
               /\ said' = said
               /\ \A b \in Attempts : ppc[b] = "done" => ppc'[b] = "done"
    <2>1. /\ now' = now /\ gone' = gone /\ parentDone' = parentDone /\ said' = said
      BY <1>8 DEF Handle, Call, GivesUp, Receive, Write, Judge, Finish, time, client, reader
    <2>2. cancelled \subseteq cancelled' /\ cancelled' \subseteq cancelled \cup {attempt}
      BY <1>8 DEF Handle, Call, GivesUp, Receive, Write, Judge, Finish, Returns
    <2>3. \A b \in Attempts : ppc[b] = "done" => ppc'[b] = "done"
      <3>1. CASE Call(a)
        <4>1. ppc[a] = "off"  BY <3>1 DEF Inv, HandlerInv, Call
        <4>2. ppc' = ppc \/ ppc' = [ppc EXCEPT ![a] = "recv"]  BY <3>1 DEF Call, reader
        <4> QED  BY <1>1, <4>1, <4>2
      <3>2. CASE ~Call(a)
        <4>1. ppc' = ppc
          BY <1>8, <3>2 DEF Handle, GivesUp, Receive, Write, Judge, Finish, reader
        <4> QED  BY <4>1
      <3> QED  BY <3>1, <3>2
    <2> QED  BY <2>1, <2>2, <2>3
  <1>9. \A b \in Attempts : Len(said[b]) >= Len(said[b])  BY <1>2
  <1>10. ASSUME NEW a \in Attempts, Recv(a) \/ Forward(a) \/ Handle(a)
        PROVE  /\ now' >= now /\ (gone => gone') /\ (parentDone => parentDone')
               /\ cancelled \subseteq cancelled' /\ cancelled' \subseteq cancelled \cup {attempt}
               /\ \A b \in Attempts : (ppc[b] = "done" => ppc'[b] = "done")
                                      /\ Len(said'[b]) >= Len(said[b])
    <2>1. now >= now  BY <1>1
    <2>2. CASE Recv(a)  BY <1>5, <1>6, <2>1, <2>2
    <2>3. CASE Forward(a)  BY <1>7, <1>9, <2>1, <2>3
    <2>4. CASE Handle(a)  BY <1>8, <1>9, <2>1, <2>4
    <2> QED  BY <1>10, <2>2, <2>3, <2>4
  <1> QED  BY <1>3, <1>4, <1>10 DEF Next

LEMMA ExcusedKept ==
  ASSUME Inv, SilentInv, Next, Excused
  PROVE  Excused'
  <1>1. 0 \in Attempts  BY DEF Attempts
  <1>2. now \in Nat /\ now' \in Nat /\ Len(said[0]) \in Nat /\ Len(said'[0]) \in Nat
    <2>1. Inv'  BY Preserved
    <2>2. said'[0] \in Seq(Kinds) /\ now' \in Nat  BY <1>1, <2>1 DEF Inv, TypeOK
    <2> QED  BY <1>1, <2>2, StreamFacts
  <1>3. RetryWindow \in Nat  BY ChatConstants
  <1> QED  BY <1>1, <1>2, <1>3, Monotone DEF Excused

\* The context of the first attempt is done, while it runs, only late or with the request's.
LEMMA FirstCtx ==
  ASSUME Inv, SilentInv, 0 \notin cancelled, CtxDone(0)
  PROVE  Excused
  <1>1. now >= Deadline \/ parentDone  BY DEF CtxDone, SilentInv
  <1>2. now \in Nat  BY DEF Inv, TypeOK
  <1>3. RetryWindow \in Nat /\ Deadline \in Nat /\ RetryWindow <= Deadline  BY ChatConstants
  <1> QED  BY <1>1, <1>2, <1>3 DEF Excused

LEMMA SilentKept ==
  ASSUME Inv, SilentInv, Next
  PROVE  SilentInv'
  <1>1. 0 \in Attempts /\ 1 \in Attempts /\ \A b \in Attempts : b = 0 \/ b = 1
    BY DEF Attempts
  <1>2. /\ now \in Nat /\ due \in Nat \cup {Off} /\ attempt \in Attempts
        /\ fpc \in [Attempts -> Steps] /\ deadline \in [Attempts -> 0..(MaxTime + Deadline)]
        /\ RetryWindow \in Nat /\ FirstWait \in Nat /\ RetryWindow <= FirstWait /\ Gap \in Nat
    BY ChatConstants DEF Inv, TypeOK
  <1>3. Len(said[0]) \in Nat /\ Len(said'[0]) \in Nat /\ Len(said'[0]) >= Len(said[0])
    <2>1. Inv'  BY Preserved
    <2>2. said'[0] \in Seq(Kinds)  BY <1>1, <2>1 DEF Inv, TypeOK
    <2> QED  BY <1>1, <2>2, Monotone, StreamFacts
  <1>4. /\ (gone => gone') /\ (Excused => Excused') /\ cancelled \subseteq cancelled'
        /\ Excused \in BOOLEAN
    BY Monotone, ExcusedKept DEF Excused
  <1>5. /\ (parentDone => gone) /\ deadline[0] = Deadline /\ (attempt = 0 => 1 \notin cancelled)
        /\ (hpc \in {"call", "wait", "write"} => attempt \notin cancelled)
        /\ (attempt = 0 /\ due # Off => due >= RetryWindow \/ Len(said[0]) > 0)
        /\ (attempt = 0 /\ tick => Excused)
        /\ (fpc[0] = "done" /\ 0 \notin cancelled => Excused)
        /\ (attempt = 0 /\ hpc = "judge" => Excused)
    BY DEF SilentInv
  <1>6. Len(said[0]) > 0 => Len(said'[0]) > 0 /\ Excused
    BY <1>3 DEF Excused
  <1>7. CASE Tick
    <2>1. UNCHANGED <<deadline, attempt, hpc, cancelled, parentDone, gone, said, fpc>>
      BY <1>7 DEF Tick, control, client, reader, forward
    <2>2. CASE due # Off /\ due <= now + 1
      <3>1. due' = Off /\ now' = now + 1  BY <1>7, <2>2 DEF Tick
      <3>2. attempt = 0 => Excused'
        <4> SUFFICES ASSUME attempt = 0 PROVE Excused'  OBVIOUS
        <4>1. CASE Len(said[0]) > 0  BY <1>4, <1>6, <4>1
        <4>2. CASE due >= RetryWindow
          <5>1. now' >= RetryWindow  BY <1>2, <2>2, <3>1, <4>2
          <5> QED  BY <5>1 DEF Excused
        <4> QED  BY <1>5, <2>2, <4>1, <4>2
      <3> QED  BY <1>4, <1>5, <2>1, <3>1, <3>2 DEF SilentInv
    <2>3. CASE ~(due # Off /\ due <= now + 1)
      <3>1. due' = due /\ tick' = tick  BY <1>7, <2>3 DEF Tick
      <3> QED  BY <1>4, <1>5, <2>1, <3>1 DEF SilentInv
    <2> QED  BY <2>2, <2>3
  <1>8. CASE Leave
    <2>1. UNCHANGED <<deadline, attempt, hpc, cancelled, said, fpc, due, tick>> /\ gone'
      BY <1>8 DEF Leave, time, control, timer, reader, forward
    <2> QED  BY <1>4, <1>5, <2>1 DEF SilentInv
  <1>9. ASSUME NEW a \in Attempts, Recv(a)
        PROVE  SilentInv'
    <2>1. UNCHANGED <<deadline, attempt, hpc, cancelled, parentDone, gone, fpc, due, tick>>
      BY <1>9 DEF Recv, time, control, client, timer, forward
    <2> QED  BY <1>4, <1>5, <1>6, <2>1 DEF SilentInv
  <1>10. ASSUME NEW a \in Attempts, DropsChunk(a) \/ Take(a)
        PROVE  SilentInv'
    <2>1. UNCHANGED <<deadline, attempt, hpc, cancelled, parentDone, gone, said, due, tick>>
      BY <1>10 DEF DropsChunk, Take, time, control, client, timer
    <2>2. fpc'[0] = "done" => fpc[0] = "done"
      BY <1>1, <1>2, <1>10 DEF DropsChunk, Take, forward
    <2> QED  BY <1>4, <1>5, <2>1, <2>2 DEF SilentInv
  <1>11. ASSUME NEW a \in Attempts, Ends(a)
        PROVE  SilentInv'
    <2>1. UNCHANGED <<deadline, attempt, hpc, cancelled, parentDone, gone, said, due, tick>>
      BY <1>11 DEF Ends, time, control, client, timer, reader
    <2>2. fpc'[0] = "done" /\ 0 \notin cancelled => Excused
      <3>1. CASE a = 0
        <4>1. CtxDone(0) \/ ppc[0] = "done"  BY <1>11, <3>1 DEF Ends
        <4> QED  BY <4>1, FirstCtx DEF Excused
      <3>2. CASE a # 0
        <4>1. fpc'[0] = fpc[0]  BY <1>1, <1>2, <1>11, <3>2 DEF Ends
        <4> QED  BY <1>5, <4>1
      <3> QED  BY <3>1, <3>2
    <2> QED  BY <1>4, <1>5, <2>1, <2>2 DEF SilentInv
  <1>12. ASSUME NEW a \in Attempts, Call(a)
        PROVE  SilentInv'
    <2>1. /\ UNCHANGED <<deadline, attempt, parentDone, gone>> /\ hpc = "call" /\ attempt = a
      BY <1>12 DEF Call, time, client, Returns
    <2>2. CASE Returns(a, "sent", "finish") /\ UNCHANGED <<reader, forward>>
      <3>1. /\ hpc' = "finish" /\ cancelled' = cancelled \cup {a} /\ due' = Off /\ tick' = FALSE
            /\ UNCHANGED <<said, fpc>>
        BY <2>2 DEF Returns, reader, forward
      <3> QED  BY <1>1, <1>4, <1>5, <2>1, <3>1 DEF SilentInv
    <2>3. CASE /\ hpc' = "wait" /\ fpc' = [fpc EXCEPT ![a] = "recv"]
               /\ due' = now + FirstWait /\ tick' = FALSE
               /\ UNCHANGED <<cancelled, said>>
      <3>1. due' >= RetryWindow  BY <1>2, <2>3
      <3>2. fpc'[0] = "done" => fpc[0] = "done"  BY <1>1, <1>2, <2>3
      <3> QED  BY <1>4, <1>5, <2>1, <2>3, <3>1, <3>2 DEF SilentInv
    <2> QED  BY <1>12, <2>2, <2>3 DEF Call
  <1>13. ASSUME NEW a \in Attempts, GivesUp(a)
        PROVE  SilentInv'
    <2>1. /\ UNCHANGED <<deadline, attempt, parentDone, gone, said, fpc>>
          /\ hpc = "wait" /\ attempt = a
          /\ hpc' = "judge" /\ cancelled' = cancelled \cup {a} /\ due' = Off /\ tick' = FALSE
      BY <1>13 DEF GivesUp, time, client, reader, forward, Returns
    <2>2. attempt = 0 => Excused
      <3> SUFFICES ASSUME attempt = 0 PROVE Excused  OBVIOUS
      <3>1. tick \/ CtxDone(0) \/ fpc[0] = "done"  BY <1>13, <2>1 DEF GivesUp
      <3>2. 0 \notin cancelled  BY <1>5, <2>1
      <3> QED  BY <1>5, <3>1, <3>2, FirstCtx
    <2> QED  BY <1>1, <1>4, <1>5, <2>1, <2>2 DEF SilentInv
  <1>14. ASSUME NEW a \in Attempts, Receive(a)
        PROVE  SilentInv'
    <2>1. /\ UNCHANGED <<deadline, attempt, cancelled, parentDone, gone, said, due, tick>>
          /\ hpc = "wait" /\ attempt = a /\ hpc' = "write" /\ fpc[a] = "offer"
      BY <1>14 DEF Receive, time, client, timer, reader
    <2>2. PICK p \in {"done", "recv"} : fpc' = [fpc EXCEPT ![a] = p]  BY <1>14 DEF Receive
    <2>3. fpc'[0] = "done" => fpc[0] = "done" \/ Len(said[0]) > 0
      <3>1. CASE a = 0
        <4>1. Flow(0)  BY <1>1 DEF Inv, FlowInv
        <4>2. InHand(fpc, 0) = 1 /\ InHand(ppc, 0) \in Nat  BY <2>1, <3>1 DEF InHand
        <4>3. Len(got[0]) \in Nat  BY <1>1, StreamFacts
        <4>4. Len(got[0]) + InHand(fpc, 0) + InHand(ppc, 0) <= Len(said[0])  BY <4>1 DEF Flow
        <4> QED  BY <1>3, <4>2, <4>3, <4>4
      <3>2. CASE a # 0  BY <1>1, <1>2, <2>2, <3>2
      <3> QED  BY <3>1, <3>2
    <2> QED  BY <1>4, <1>5, <1>6, <2>1, <2>3 DEF SilentInv
  <1>15. ASSUME NEW a \in Attempts, Write(a)
        PROVE  SilentInv'
    <2>1. /\ UNCHANGED <<deadline, attempt, parentDone, gone, said, fpc>>
          /\ hpc = "write" /\ attempt = a
      BY <1>15 DEF Write, time, client, reader, forward, Returns
    <2>2. attempt = 0 => Len(said[0]) > 0
      <3> SUFFICES ASSUME attempt = 0 PROVE Len(said[0]) > 0  OBVIOUS
      <3>1. Len(got[0]) > 0  BY <2>1 DEF Inv, HandlerInv
      <3>2. Len(got[0]) \in Nat /\ Len(got[0]) <= Len(said[0])  BY <1>1, StreamFacts
      <3> QED  BY <1>3, <3>1, <3>2
    <2>3. CASE hpc' = "wait" /\ Reset /\ UNCHANGED cancelled
      <3>1. tick' = tick  BY <2>3 DEF Reset
      <3> QED  BY <1>4, <1>5, <1>6, <2>1, <2>2, <2>3, <3>1 DEF SilentInv
    <2>4. CASE Returns(a, "ok", "judge")
      <3>1. hpc' = "judge" /\ cancelled' = cancelled \cup {a} /\ due' = Off /\ tick' = FALSE
        BY <2>4 DEF Returns
      <3> QED  BY <1>1, <1>4, <1>5, <1>6, <2>1, <2>2, <3>1 DEF SilentInv
    <2> QED  BY <1>15, <2>3, <2>4 DEF Write
  <1>16. ASSUME NEW a \in Attempts, Judge(a)
        PROVE  SilentInv'
    <2>1. /\ UNCHANGED <<cancelled, parentDone, gone, said, fpc, due, tick>>
          /\ hpc = "judge" /\ attempt = a
      BY <1>16 DEF Judge, client, timer, reader, forward
    <2>2. CASE a = 0 /\ Empty(a) /\ InWindow
      <3>1. attempt' = 1 /\ hpc' = "call" /\ deadline' = [deadline EXCEPT ![1] = now + Deadline]
        BY <1>16, <2>2 DEF Judge
      <3>2. deadline'[0] = Deadline  BY <1>1, <1>2, <1>5, <3>1
      <3> QED  BY <1>4, <1>5, <2>1, <2>2, <3>1, <3>2 DEF SilentInv
    <2>3. CASE ~(a = 0 /\ Empty(a) /\ InWindow)
      <3>1. hpc' = "finish" /\ UNCHANGED <<attempt, deadline>>  BY <1>16, <2>3 DEF Judge
      <3> QED  BY <1>4, <1>5, <2>1, <3>1 DEF SilentInv
    <2> QED  BY <2>2, <2>3
  <1>17. ASSUME NEW a \in Attempts, Finish(a)
        PROVE  SilentInv'
    <2>1. /\ UNCHANGED <<deadline, attempt, cancelled, parentDone, gone, said, fpc, due, tick>>
          /\ hpc' = "done"
      BY <1>17 DEF Finish, time, client, timer, reader, forward
    <2> QED  BY <1>4, <1>5, <2>1 DEF SilentInv
  <1>18. ASSUME NEW a \in Attempts, Recv(a) \/ Forward(a) \/ Handle(a)
         PROVE  SilentInv'
    BY <1>9, <1>10, <1>11, <1>12, <1>13, <1>14, <1>15, <1>16, <1>17, <1>18 DEF Forward, Handle
  <1> QED  BY <1>7, <1>8, <1>18 DEF Next

\* The second attempt begins in time, so the first had more than silence.
LEMMA RetryExcused ==
  ASSUME Inv, SilentInv, SilentNotRetried, Next
  PROVE  SilentNotRetried'
  <1>0. 0 \in Attempts  BY DEF Attempts
  <1> DEFINE Heard == parentDone \/ ppc[0] = "done" \/ Len(said[0]) > 0
  <1>1. Heard => Heard'
    <2>1. Inv'  BY Preserved
    <2>2. said'[0] \in Seq(Kinds) /\ said[0] \in Seq(Kinds)  BY <1>0, <2>1 DEF Inv, TypeOK
    <2>3. Len(said[0]) \in Nat /\ Len(said'[0]) \in Nat  BY <2>2
    <2> QED  BY <1>0, <2>3, Monotone
  <1>2. CASE attempt = 1  BY <1>1, <1>2 DEF SilentNotRetried
  <1>3. CASE attempt # 1 /\ attempt' = 1
    <2>1. PICK a \in Attempts : Judge(a)
      BY <1>3 DEF Next, Tick, Leave, Recv, Forward, DropsChunk, Take, Ends, Handle, Call,
                  GivesUp, Receive, Write, Finish, Returns, control
    <2>2. attempt = 0 /\ hpc = "judge" /\ now < RetryWindow
      BY <1>3, <2>1 DEF Judge, InWindow
    <2>3. Excused  BY <2>2 DEF SilentInv
    <2>4. ~(now >= RetryWindow)
      <3>1. now \in Nat /\ RetryWindow \in Nat  BY ChatConstants DEF Inv, TypeOK
      <3> QED  BY <2>2, <3>1
    <2> QED  BY <1>1, <2>3, <2>4 DEF Excused, SilentNotRetried
  <1>4. CASE attempt' # 1  BY <1>4 DEF SilentNotRetried
  <1> QED  BY <1>2, <1>3, <1>4

LEMMA TimerKept ==
  ASSUME Inv, TimerInv, Next
  PROVE  TimerInv'
  <1>1. /\ now \in Nat /\ since \in Nat /\ due \in Nat \cup {Off} /\ attempt \in Attempts
        /\ FirstWait \in Nat /\ Gap \in Nat /\ Off \notin Nat
        /\ got \in [Attempts -> Seq(Nat)]
    BY ChatConstants DEF Inv, TypeOK
  <1>2. Patience \in Nat  BY <1>1 DEF Patience
  <1>3. ASSUME UNCHANGED <<now, since, due, tick, slow, hpc, attempt, got>> PROVE TimerInv'
    BY <1>3 DEF TimerInv, Patience
  <1>4. ASSUME hpc' \notin {"wait", "write"} PROVE TimerInv'
    BY <1>4 DEF TimerInv
  <1>5. CASE Tick
    <2>1. UNCHANGED <<since, slow, hpc, attempt, got>> /\ now' = now + 1
      BY <1>5 DEF Tick, control
    <2>2. Patience' = Patience  BY <2>1 DEF Patience
    <2> SUFFICES ASSUME hpc' \in {"wait", "write"}
                 PROVE  /\ due' # Off => due' = since' + Patience'
                        /\ tick' => slow' \/ now' - since' >= Patience'
      BY DEF TimerInv
    <2>3. /\ due # Off => due = since + Patience
          /\ tick => slow \/ now - since >= Patience
      BY <2>1 DEF TimerInv
    <2> HIDE DEF Patience
    <2>4. CASE due # Off /\ due <= now + 1
      <3>1. due' = Off  BY <1>5, <2>4 DEF Tick
      <3>2. now + 1 - since >= Patience  BY <1>1, <1>2, <2>3, <2>4
      <3>3. now' - since' >= Patience'  BY <1>1, <1>2, <2>1, <2>2, <3>2
      <3> QED  BY <3>1, <3>3
    <2>5. CASE ~(due # Off /\ due <= now + 1)
      <3>1. due' = due /\ tick' = tick  BY <1>5, <2>5 DEF Tick
      <3>2. now - since >= Patience => now' - since' >= Patience'  BY <1>1, <1>2, <2>1, <2>2
      <3>3. due' # Off => due' = since' + Patience'  BY <2>1, <2>2, <2>3, <3>1
      <3>4. slow' = slow  BY <2>1
      <3> QED  BY <2>3, <3>1, <3>2, <3>3, <3>4
    <2> QED  BY <2>4, <2>5
  <1>6. CASE Leave
    BY <1>3, <1>6 DEF Leave, time, control, timer
  <1>7. ASSUME NEW a \in Attempts, Recv(a) \/ Forward(a) PROVE TimerInv'
    BY <1>3, <1>7 DEF Recv, Forward, DropsChunk, Take, Ends, time, control, timer
  <1>8. ASSUME NEW a \in Attempts, Call(a) PROVE TimerInv'
    <2>1. CASE Returns(a, "sent", "finish")  BY <1>4, <2>1 DEF Returns
    <2>2. CASE /\ hpc' = "wait" /\ due' = now + FirstWait /\ tick' = FALSE /\ since' = now
               /\ UNCHANGED attempt
      <3>1. got' = got /\ hpc = "call" /\ attempt = a  BY <1>8 DEF Call
      <3>2. ppc[a] = "off"  BY <3>1 DEF Inv, HandlerInv
      <3>3. Len(said[a]) = 0 /\ Len(got[a]) \in Nat /\ Len(got[a]) <= Len(said[a])
        <4>1. Flow(a)  BY DEF Inv, FlowInv
        <4> QED  BY <3>2, <4>1, StreamFacts DEF Flow
      <3>4. Patience' = FirstWait  BY <2>2, <3>1, <3>3 DEF Patience
      <3> QED  BY <2>2, <3>4 DEF TimerInv
    <2> QED  BY <1>8, <2>1, <2>2 DEF Call
  <1>9. ASSUME NEW a \in Attempts, GivesUp(a) PROVE TimerInv'
    BY <1>4, <1>9 DEF GivesUp, Returns
  <1>10. ASSUME NEW a \in Attempts, Receive(a) PROVE TimerInv'
    <2>1. /\ UNCHANGED <<now, since, due, tick, slow, attempt>> /\ hpc = "wait" /\ hpc' = "write"
          /\ attempt = a /\ got' = [got EXCEPT ![a] = Append(got[a], held[a])]
      BY <1>10 DEF Receive, time, timer
    <2>2. Len(got'[a]) = Len(got[a]) + 1 /\ Len(got[a]) \in Nat  BY <1>1, <2>1
    <2>3. Patience' = Patience  BY <2>1, <2>2 DEF Patience
    <2> HIDE DEF Patience
    <2> QED  BY <2>1, <2>3 DEF TimerInv
  <1>11. ASSUME NEW a \in Attempts, Write(a) PROVE TimerInv'
    <2>1. CASE Returns(a, "ok", "judge")  BY <1>4, <2>1 DEF Returns
    <2>2. CASE /\ hpc' = "wait" /\ Reset
               /\ slow' = (slow \/ now - since >= (IF Len(got[a]) = 1 THEN FirstWait ELSE Gap))
               /\ UNCHANGED attempt
      <3>1. /\ hpc = "write" /\ attempt = a /\ now' = now /\ got' = got
            /\ due' = now + Gap /\ tick' = tick /\ since' = now
        BY <1>11, <2>2 DEF Write, time, Reset
      <3>2. Len(got[a]) > 0  BY <3>1 DEF Inv, HandlerInv
      <3>3. Patience' = Gap  BY <2>2, <3>1, <3>2 DEF Patience
      <3>4. tick => slow'
        <4>1. tick => slow \/ now - since >= Patience  BY <3>1 DEF TimerInv
        <4>2. Patience = IF Len(got[a]) = 1 THEN FirstWait ELSE Gap  BY <3>1 DEF Patience
        <4> HIDE DEF Patience
        <4> QED  BY <2>2, <4>1, <4>2
      <3> QED  BY <3>1, <3>3, <3>4 DEF TimerInv
    <2> QED  BY <1>11, <2>1, <2>2 DEF Write
  <1>12. ASSUME NEW a \in Attempts, Judge(a) PROVE TimerInv'
    BY <1>4, <1>12 DEF Judge
  <1>13. ASSUME NEW a \in Attempts, Finish(a) PROVE TimerInv'
    BY <1>4, <1>13 DEF Finish
  <1> QED
    BY <1>5, <1>6, <1>7, <1>8, <1>9, <1>10, <1>11, <1>12, <1>13 DEF Next, Handle

LEMMA GapsWaited ==
  ASSUME Inv, TimerInv, NEW a \in Attempts, GivesUp(a), outcome' = "gap"
  PROVE  slow \/ Waited(a)
  <1>1. hpc = "wait" /\ attempt = a /\ tick  BY DEF GivesUp, Returns
  <1> QED  BY <1>1 DEF TimerInv, Patience, Waited

LEMMA FirstMoments == Init => SilentInv /\ TimerInv /\ SilentNotRetried
  <1>1. Init => SilentInv  BY DEF Init, SilentInv, ForEach, Attempts
  <1>2. Init => TimerInv  BY DEF Init, TimerInv
  <1>3. Init => SilentNotRetried  BY DEF Init, SilentNotRetried
  <1> QED  BY <1>1, <1>2, <1>3

Timely == SilentInv /\ TimerInv /\ SilentNotRetried

LEMMA TimelyHolds == Spec => [](Inv /\ Timely)
  <1>1. Init => Inv /\ Timely  BY Initially, FirstMoments DEF Timely
  <1>2. (Inv /\ Timely) /\ [Next]_vars => (Inv /\ Timely)'
    <2>1. ASSUME Inv, Timely, Next PROVE (Inv /\ Timely)'
      <3>1. Inv'  BY <2>1, Preserved
      <3>2. SilentInv' /\ TimerInv' /\ SilentNotRetried'
        BY <2>1, SilentKept, TimerKept, RetryExcused DEF Timely
      <3> QED  BY <3>1, <3>2 DEF Timely
    <2>2. ASSUME Inv, Timely, UNCHANGED vars PROVE (Inv /\ Timely)'
      <3>1. Inv'  BY <2>2, Preserved
      <3> USE <2>2 DEF vars, time, control, client, timer, reader, forward
      <3>2. SilentInv' /\ SilentNotRetried'  BY DEF Timely, SilentInv, Excused, SilentNotRetried
      <3>3. TimerInv'  BY DEF Timely, TimerInv, Patience
      <3> QED  BY <3>1, <3>2, <3>3 DEF Timely
    <2> QED  BY <2>1, <2>2
  <1> QED  BY <1>1, <1>2, PTL DEF Spec

\* A model that says nothing is not asked again, whatever the waits, as long as the first one
\* and the attempt's deadline are no shorter than the window for a second attempt.
THEOREM SilenceEndsIt == Spec => []SilentNotRetried
  BY TimelyHolds, PTL DEF Timely

\* An attempt is cut off for silence only after the silence it was given, or when a response
\* was handled after its timer had run out.
THEOREM CutOffAfterSilence == Spec => SilenceIsReal
  <1>1. Inv /\ Timely =>
          [\A a \in Attempts : GivesUp(a) /\ outcome' = "gap" => slow \/ Waited(a)]_vars
    BY GapsWaited DEF Timely
  <1> QED  BY <1>1, TimelyHolds, PTL DEF SilenceIsReal

----------------------------------------------------------------------------
(* What the client is sent, and what the usage counts.                     *)

\* The reader that has ended kept nothing back, unless its context was done.
Delivered(a) ==
  ppc[a] = "done" /\ ~CtxDone(a) => Len(said[a]) = Len(got[a]) + InHand(fpc, a)

\* The places of an attempt's replies in o, and the chunks there.
Places(o, a) == {i \in DOMAIN o : o[i][1] = a /\ o[i][2] > 0}
Sent(o, a)   == {o[i][2] : i \in Places(o, a)}
Rising(o, a) == \A i, j \in Places(o, a) : i < j => o[i][2] < o[j][2]

\* The client lacks the last chunk at most: while it is written, or when it could not be.
Replied(a) ==
  /\ Rising(out, a)
  /\ \/ Sent(out, a) = 1..Len(got[a])
     \/ Sent(out, a) = 1..(Len(got[a]) - 1) /\ (gone \/ (hpc = "write" /\ attempt = a))
  /\ hpc = "write" /\ attempt = a => Sent(out, a) = 1..(Len(got[a]) - 1)
  /\ hpc = "wait" /\ attempt = a => Sent(out, a) = 1..Len(got[a])

\* The usage counts a chunk when the forwarder takes it, before the handler does.
Counted(g, s) == {i \in DOMAIN g : s[g[i]] # "error"}
Ahead(f, h, s) == IF f = "offer" /\ s[h] # "error" THEN 1 ELSE 0
Used(a) == tokens[a] = Cardinality(Counted(got[a], said[a])) + Ahead(fpc[a], held[a], said[a])
Billed == hpc = "done" => bill <= Cardinality(Counted(got[attempt], said[attempt])) + 1

AnswerInv ==
  /\ \A a \in Attempts : Delivered(a) /\ Replied(a) /\ Used(a)
  /\ Billed

LEMMA CountedFacts ==
  ASSUME Inv, NEW a \in Attempts
  PROVE  /\ IsFiniteSet(Counted(got[a], said[a])) /\ Cardinality(Counted(got[a], said[a])) \in Nat
         /\ Ahead(fpc[a], held[a], said[a]) \in 0..1
  <1>1. Counted(got[a], said[a]) \subseteq 1..Len(got[a]) /\ Len(got[a]) \in Nat
    BY StreamFacts DEF Counted
  <1>2. IsFiniteSet(1..Len(got[a]))  BY <1>1, FS_Interval
  <1> HIDE DEF Counted
  <1>3. IsFiniteSet(Counted(got[a], said[a]))  BY <1>1, <1>2, FS_Subset
  <1>4. Ahead(fpc[a], held[a], said[a]) \in 0..1  BY DEF Ahead
  <1> QED  BY <1>3, <1>4, FS_CardinalityType

\* A chunk that is received, or in the forwarder's hands, keeps what it is.
LEMMA CountedKept ==
  ASSUME Inv, NEW a \in Attempts, got'[a] = got[a], fpc'[a] = fpc[a], held'[a] = held[a],
         \A i \in 1..Len(said[a]) : said'[a][i] = said[a][i]
  PROVE  /\ Counted(got'[a], said'[a]) = Counted(got[a], said[a])
         /\ Ahead(fpc'[a], held'[a], said'[a]) = Ahead(fpc[a], held[a], said[a])
  <1>1. \A i \in DOMAIN got[a] : got[a][i] = i /\ i \in 1..Len(said[a])  BY ReceivedWasSaid
  <1>2. fpc[a] = "offer" => held[a] \in 1..Len(said[a])
    <2> SUFFICES ASSUME fpc[a] = "offer" PROVE held[a] \in 1..Len(said[a])  OBVIOUS
    <2>1. held[a] = Len(got[a]) + 1 /\ Len(got[a]) + InHand(fpc, a) + InHand(ppc, a) <= Len(said[a])
      BY DEF Inv, FlowInv, Flow
    <2>2. InHand(fpc, a) = 1 /\ InHand(ppc, a) \in Nat  BY DEF InHand
    <2>3. Len(got[a]) \in Nat /\ Len(said[a]) \in Nat  BY StreamFacts
    <2> QED  BY <2>1, <2>2, <2>3
  <1>3. Counted(got'[a], said'[a]) = Counted(got[a], said[a])
    <2>1. \A i \in DOMAIN got[a] : said'[a][got'[a][i]] = said[a][got[a][i]]  BY <1>1
    <2> QED  BY <2>1 DEF Counted
  <1>4. Ahead(fpc'[a], held'[a], said'[a]) = Ahead(fpc[a], held[a], said[a])
    BY <1>2 DEF Ahead
  <1> QED  BY <1>3, <1>4

LEMMA UsedKept ==
  ASSUME Inv, AnswerInv, Next, NEW b \in Attempts
  PROVE  Used(b)'
  <1>1. /\ fpc \in [Attempts -> Steps] /\ held \in [Attempts -> Nat] /\ tokens \in [Attempts -> Nat]
        /\ got \in [Attempts -> Seq(Nat)] /\ said \in [Attempts -> Seq(Kinds)]
    BY DEF Inv, TypeOK
  <1>2. Used(b)  BY DEF AnswerInv
  <1>3. Flow(b)  BY DEF Inv, FlowInv
  <1>4. ASSUME got'[b] = got[b], fpc'[b] = fpc[b], held'[b] = held[b], tokens'[b] = tokens[b],
               \A i \in 1..Len(said[b]) : said'[b][i] = said[b][i]
        PROVE  Used(b)'
    BY <1>2, <1>4, CountedKept DEF Used
  <1>5. CASE Tick \/ Leave
    <2>1. UNCHANGED <<got, fpc, held, tokens, said>>
      BY <1>5 DEF Tick, Leave, reader, forward
    <2> QED  BY <1>4, <2>1
  <1>6. ASSUME NEW a \in Attempts, Recv(a) PROVE Used(b)'
    <2>1. UNCHANGED <<got, fpc, held, tokens>>  BY <1>6 DEF Recv, forward
    <2>2. \A i \in 1..Len(said[b]) : said'[b][i] = said[b][i]
      <3>1. CASE UNCHANGED said  BY <3>1
      <3>2. CASE \E k \in Kinds : said' = [said EXCEPT ![a] = Append(@, k)]
        <4>1. PICK k \in Kinds : said' = [said EXCEPT ![a] = Append(said[a], k)]  BY <3>2
        <4>2. said'[b] = said[b] \/ said'[b] = Append(said[b], k)  BY <1>1, <4>1
        <4>3. said[b] \in Seq(Kinds)  BY <1>1
        <4>4. \A i \in 1..Len(said[b]) : Append(said[b], k)[i] = said[b][i]  BY <4>3
        <4> QED  BY <4>2, <4>4
      <3> QED  BY <1>6, <3>1, <3>2 DEF Recv
    <2> QED  BY <1>4, <2>1, <2>2
  <1>7. ASSUME NEW a \in Attempts, DropsChunk(a) PROVE Used(b)'
    <2>1. UNCHANGED <<got, fpc, held, tokens, said>>  BY <1>7 DEF DropsChunk, forward
    <2> QED  BY <1>4, <2>1
  <1>8. ASSUME NEW a \in Attempts, Take(a) PROVE Used(b)'
    <2>1. /\ ppc[a] = "offer" /\ fpc[a] = "recv" /\ UNCHANGED <<got, said>>
          /\ held' = [held EXCEPT ![a] = offered[a]] /\ fpc' = [fpc EXCEPT ![a] = "offer"]
          /\ tokens' = [tokens EXCEPT ![a] = tokens[a] + (IF Is(a, offered[a], {"error"}) THEN 0 ELSE 1)]
      BY <1>8 DEF Take
    <2>2. CASE b = a
      <3> DEFINE n == Cardinality(Counted(got[b], said[b]))
      <3>1. n \in Nat  BY CountedFacts
      <3>2. Ahead(fpc[b], held[b], said[b]) = 0  BY <2>1, <2>2 DEF Ahead
      <3>3. tokens[b] = n + 0  BY <1>2, <3>2 DEF Used
      <3>4. held'[b] = offered[b] /\ fpc'[b] = "offer" /\ got'[b] = got[b] /\ said'[b] = said[b]
        BY <1>1, <2>1, <2>2
      <3>5. tokens'[b] = tokens[b] + (IF said[b][offered[b]] \in {"error"} THEN 0 ELSE 1)
        BY <1>1, <2>1, <2>2 DEF Is
      <3>6. Ahead(fpc'[b], held'[b], said'[b]) = IF said[b][offered[b]] \in {"error"} THEN 0 ELSE 1
        BY <3>4 DEF Ahead
      <3> HIDE DEF n
      <3>7. tokens'[b] = n + Ahead(fpc'[b], held'[b], said'[b])
        BY <3>1, <3>3, <3>5, <3>6
      <3> QED  BY <3>4, <3>7 DEF Used, n
    <2>3. CASE b # a
      <3>1. held'[b] = held[b] /\ fpc'[b] = fpc[b] /\ tokens'[b] = tokens[b]  BY <1>1, <2>1, <2>3
      <3> QED  BY <1>4, <2>1, <3>1
    <2> QED  BY <2>2, <2>3
  <1>9. ASSUME NEW a \in Attempts, Ends(a) PROVE Used(b)'
    <2>1. /\ fpc[a] = "recv" /\ fpc' = [fpc EXCEPT ![a] = "done"]
          /\ UNCHANGED <<got, held, tokens, said>>
      BY <1>9 DEF Ends, reader
    <2>2. Ahead(fpc'[b], held'[b], said'[b]) = Ahead(fpc[b], held[b], said[b])
      BY <1>1, <2>1 DEF Ahead
    <2> QED  BY <1>2, <2>1, <2>2 DEF Used
  <1>10. ASSUME NEW a \in Attempts, Call(a) PROVE Used(b)'
    <2>1. CASE UNCHANGED <<reader, forward>>
      <3>1. UNCHANGED <<got, fpc, held, tokens, said>>  BY <1>10, <2>1 DEF Call, reader, forward
      <3> QED  BY <1>4, <3>1
    <2>2. CASE fpc' = [fpc EXCEPT ![a] = "recv"] /\ UNCHANGED <<said, held, tokens>>
      <3>1. got' = got /\ ppc[a] = "off"  BY <1>10 DEF Call, Inv, HandlerInv
      <3>2. fpc[a] = "off"  BY <3>1 DEF Inv, FlowInv, Flow
      <3>3. Ahead(fpc'[b], held'[b], said'[b]) = Ahead(fpc[b], held[b], said[b])
        BY <1>1, <2>2, <3>2 DEF Ahead
      <3> QED  BY <1>2, <2>2, <3>1, <3>3 DEF Used
    <2> QED  BY <1>10, <2>1, <2>2 DEF Call
  <1>11. ASSUME NEW a \in Attempts, Receive(a) PROVE Used(b)'
    <2>1. /\ fpc[a] = "offer" /\ UNCHANGED <<held, tokens, said>>
          /\ got' = [got EXCEPT ![a] = Append(got[a], held[a])]
          /\ \E p \in {"done", "recv"} : fpc' = [fpc EXCEPT ![a] = p]
      BY <1>11 DEF Receive, reader
    <2>2. CASE b = a
      <3> DEFINE n == Len(got[b]) + 1
                 C == Counted(got[b], said[b])
                 more == IF said[b][n] # "error" THEN {n} ELSE {}
      <3>1. held[b] = n  BY <1>3, <2>1, <2>2 DEF Flow
      <3>2. got[b] \in Seq(Nat) /\ held[b] \in Nat /\ Len(got[b]) \in Nat  BY <1>1
      <3>3. got'[b] = Append(got[b], held[b]) /\ fpc'[b] \in {"done", "recv"} /\ said'[b] = said[b]
        BY <1>1, <2>1, <2>2
      <3>4. Counted(got'[b], said'[b]) = C \cup more
        <4>1. DOMAIN got'[b] = (DOMAIN got[b]) \cup {n} /\ n \notin DOMAIN got[b]
          BY <3>2, <3>3
        <4>2. got'[b][n] = n /\ \A i \in DOMAIN got[b] : got'[b][i] = got[b][i]
          BY <3>1, <3>2, <3>3
        <4> HIDE DEF n
        <4> QED  BY <3>3, <4>1, <4>2 DEF Counted
      <3>5. IsFiniteSet(C) /\ Cardinality(C) \in Nat /\ n \notin C
        <4>1. n \notin C  BY <3>2 DEF Counted
        <4> QED  BY <4>1, CountedFacts
      <3>6. Ahead(fpc[b], held[b], said[b]) = IF said[b][n] # "error" THEN 1 ELSE 0
        BY <2>1, <2>2, <3>1 DEF Ahead
      <3>7. Ahead(fpc'[b], held'[b], said'[b]) = 0  BY <3>3 DEF Ahead
      <3>8. tokens'[b] = Cardinality(C) + Ahead(fpc[b], held[b], said[b])
        BY <1>2, <2>1 DEF Used
      <3> HIDE DEF n, C
      <3>9. Cardinality(C \cup more) = Cardinality(C) + (IF said[b][n] # "error" THEN 1 ELSE 0)
        <4>1. CASE said[b][n] # "error"
          <5>1. Cardinality(C \cup {n}) = Cardinality(C) + 1  BY <3>5, FS_AddElement
          <5> QED  BY <4>1, <5>1
        <4>2. CASE said[b][n] = "error"
          <5>1. C \cup more = C  BY <4>2
          <5> QED  BY <3>5, <4>2, <5>1
        <4> QED  BY <4>1, <4>2
      <3>10. Cardinality(C \cup more) \in Nat  BY <3>5, <3>9
      <3> QED  BY <3>4, <3>6, <3>7, <3>8, <3>9, <3>10 DEF Used
    <2>3. CASE b # a
      <3>1. got'[b] = got[b] /\ fpc'[b] = fpc[b]  BY <1>1, <2>1, <2>3
      <3> QED  BY <1>4, <2>1, <3>1
    <2> QED  BY <2>2, <2>3
  <1>12. ASSUME NEW a \in Attempts, GivesUp(a) \/ Write(a) \/ Judge(a) \/ Finish(a) PROVE Used(b)'
    <2>1. UNCHANGED <<got, fpc, held, tokens, said>>
      BY <1>12 DEF GivesUp, Write, Judge, Finish, reader, forward
    <2> QED  BY <1>4, <2>1
  <1>13. ASSUME NEW a \in Attempts, Recv(a) \/ Forward(a) \/ Handle(a) PROVE Used(b)'
    BY <1>6, <1>7, <1>8, <1>9, <1>10, <1>11, <1>12, <1>13 DEF Forward, Handle
  <1> QED  BY <1>5, <1>13 DEF Next

LEMMA BilledKept ==
  ASSUME Inv, AnswerInv, Next
  PROVE  Billed'
  <1>1. attempt \in Attempts /\ tokens \in [Attempts -> Nat]  BY DEF Inv, TypeOK
  <1> DEFINE n == Cardinality(Counted(got[attempt], said[attempt]))
  <1>2. n \in Nat /\ Ahead(fpc[attempt], held[attempt], said[attempt]) \in 0..1
    BY <1>1, CountedFacts
  <1>3. tokens[attempt] = n + Ahead(fpc[attempt], held[attempt], said[attempt])
    BY <1>1 DEF AnswerInv, Used
  <1>4. hpc = "done" => bill <= n + 1  BY DEF AnswerInv, Billed
  <1> HIDE DEF n
  <1>5. CASE \E a \in Attempts : Finish(a)
    <2>1. PICK a \in Attempts : Finish(a)  BY <1>5
    <2>2. /\ attempt = a /\ attempt' = a /\ UNCHANGED <<got, said>>
          /\ bill' \in {tokens[a], 0}
      BY <2>1 DEF Finish, reader
    <2>3. bill' <= n + 1  BY <1>1, <1>2, <1>3, <2>2
    <2> QED  BY <2>2, <2>3 DEF Billed, n
  <1>6. CASE ~\E a \in Attempts : Finish(a)
    <2>1. hpc' = "done" => hpc = "done" /\ UNCHANGED <<bill, attempt>>
      BY <1>6 DEF Next, Tick, Leave, Recv, Forward, DropsChunk, Take, Ends, Handle, Call,
                  GivesUp, Receive, Write, Judge, Returns, control
    <2>2. SUFFICES ASSUME hpc = "done", UNCHANGED <<bill, attempt>>
                   PROVE  Billed'
      BY <2>1 DEF Billed
    <2>3. got' = got
      BY <2>2 DEF Next, Tick, Leave, Recv, Forward, DropsChunk, Take, Ends, Handle, Call,
                  GivesUp, Receive, Write, Judge, Finish
    <2>4. \A i \in DOMAIN got[attempt] :
            said'[attempt][got[attempt][i]] = said[attempt][got[attempt][i]]
      <3> SUFFICES ASSUME NEW i \in DOMAIN got[attempt]
                   PROVE  said'[attempt][i] = said[attempt][i] /\ got[attempt][i] = i
        OBVIOUS
      <3>1. got[attempt][i] = i /\ i \in 1..Len(said[attempt])  BY <1>1, ReceivedWasSaid
      <3>2. CASE UNCHANGED said  BY <3>1, <3>2
      <3>3. CASE \E a \in Attempts : \E k \in Kinds : said' = [said EXCEPT ![a] = Append(@, k)]
        <4>1. PICK a \in Attempts, k \in Kinds : said' = [said EXCEPT ![a] = Append(said[a], k)]
          BY <3>3
        <4>2. said \in [Attempts -> Seq(Kinds)]  BY DEF Inv, TypeOK
        <4>3. said'[attempt] = said[attempt] \/ said'[attempt] = Append(said[attempt], k)
          BY <1>1, <4>1, <4>2
        <4>4. said[attempt] \in Seq(Kinds)  BY <1>1, <4>2
        <4>5. Append(said[attempt], k)[i] = said[attempt][i]  BY <3>1, <4>4
        <4> QED  BY <3>1, <4>3, <4>5
      <3>4. UNCHANGED said
            \/ \E a \in Attempts : \E k \in Kinds : said' = [said EXCEPT ![a] = Append(@, k)]
        BY DEF Next, Tick, Leave, Recv, Forward, DropsChunk, Take, Ends, Handle, Call,
               GivesUp, Receive, Write, Judge, Finish, reader
      <3> QED  BY <3>2, <3>3, <3>4
    <2>5. Counted(got'[attempt'], said'[attempt']) = Counted(got[attempt], said[attempt])
      BY <2>2, <2>3, <2>4 DEF Counted
    <2> QED  BY <1>4, <2>2, <2>5 DEF Billed, n
  <1> QED  BY <1>5, <1>6

\* A context that is done stays done, once the attempt has begun.
LEMMA CtxStaysDone ==
  ASSUME Inv, SilentInv, Next, NEW b \in Attempts, ppc[b] # "off", CtxDone(b)
  PROVE  CtxDone(b)'
  <1>1. (parentDone => parentDone') /\ cancelled \subseteq cancelled' /\ now' >= now
    BY Monotone
  <1>2. deadline'[b] = deadline[b]
    <2>1. deadline \in [Attempts -> 0..(MaxTime + Deadline)]  BY DEF Inv, TypeOK
    <2>2. CASE deadline' = deadline  BY <2>2
    <2>3. CASE deadline' # deadline
      <3>1. PICK a \in Attempts : Judge(a)
        BY <2>3 DEF Next, Tick, Leave, Recv, Forward, DropsChunk, Take, Ends, Handle, Call,
                    GivesUp, Receive, Write, Finish, time
      <3>2. attempt = 0 /\ deadline' = [deadline EXCEPT ![1] = now + Deadline]
        BY <2>3, <3>1 DEF Judge
      <3>3. b # 1  BY <3>2 DEF Inv, HandlerInv
      <3> QED  BY <2>1, <3>2, <3>3
    <2> QED  BY <2>2, <2>3
  <1>3. now \in Nat /\ now' \in Nat /\ deadline[b] \in Nat
    <2>1. Inv'  BY Preserved
    <2>2. MaxTime \in Nat /\ Deadline \in Nat  BY ChatConstants
    <2>3. deadline[b] \in 0..(MaxTime + Deadline) /\ now \in 0..MaxTime  BY DEF Inv, TypeOK
    <2>4. now' \in 0..MaxTime  BY <2>1 DEF Inv, TypeOK
    <2> QED  BY <2>2, <2>3, <2>4
  <1>4. now >= deadline[b] => now' >= deadline'[b]  BY <1>1, <1>2, <1>3
  <1> QED  BY <1>1, <1>4 DEF CtxDone

LEMMA DeliveredKept ==
  ASSUME Inv, SilentInv, AnswerInv, Next, NEW b \in Attempts
  PROVE  Delivered(b)'
  <1>1. /\ ppc \in [Attempts -> Steps] /\ fpc \in [Attempts -> Steps]
        /\ got \in [Attempts -> Seq(Nat)] /\ said \in [Attempts -> Seq(Kinds)]
    BY DEF Inv, TypeOK
  <1>2. Flow(b) /\ Delivered(b)  BY DEF Inv, FlowInv, AnswerInv
  <1>3. Len(got[b]) \in Nat /\ Len(said[b]) \in Nat  BY StreamFacts
  <1>4. ASSUME ppc'[b] = ppc[b], got'[b] = got[b], said'[b] = said[b],
               InHand(fpc', b) = InHand(fpc, b)
        PROVE  Delivered(b)'
    <2>1. ppc'[b] = "done" /\ ~CtxDone(b)' => ppc[b] = "done" /\ ~CtxDone(b)
      BY <1>4, CtxStaysDone
    <2> QED  BY <1>2, <1>4, <2>1 DEF Delivered
  <1>5. ASSUME ppc'[b] # "done" PROVE Delivered(b)'
    BY <1>5 DEF Delivered
  <1>6. CASE Tick \/ Leave
    <2>1. UNCHANGED <<ppc, got, said, fpc>>  BY <1>6 DEF Tick, Leave, reader, forward
    <2> QED  BY <1>4, <2>1
  <1>7. ASSUME NEW a \in Attempts, Recv(a) PROVE Delivered(b)'
    <2>1. ppc[a] = "recv" /\ UNCHANGED <<got, fpc>>  BY <1>7 DEF Recv, forward
    <2>2. CASE ppc' = [ppc EXCEPT ![a] = "done"] /\ UNCHANGED said
      <3>1. CASE b = a
        <4>1. InHand(ppc, b) = 0 /\ InHand(fpc, b) \in Nat  BY <2>1, <3>1 DEF InHand
        <4>2. Len(said[b]) = Len(got[b]) + InHand(fpc, b)
          BY <1>2, <1>3, <2>1, <3>1, <4>1 DEF Flow
        <4> QED  BY <2>1, <2>2, <4>2 DEF Delivered
      <3>2. CASE b # a
        <4>1. ppc'[b] = ppc[b]  BY <1>1, <2>2, <3>2
        <4> QED  BY <1>4, <2>1, <2>2, <4>1
      <3> QED  BY <3>1, <3>2
    <2>3. CASE /\ \E k \in Kinds : said' = [said EXCEPT ![a] = Append(@, k)]
               /\ ppc' = [ppc EXCEPT ![a] = "offer"]
      <3>1. CASE b = a
        <4>1. ppc'[b] = "offer"  BY <1>1, <2>3, <3>1
        <4> QED  BY <1>5, <4>1
      <3>2. CASE b # a
        <4>1. ppc'[b] = ppc[b] /\ said'[b] = said[b]  BY <1>1, <2>3, <3>2
        <4> QED  BY <1>4, <2>1, <4>1
      <3> QED  BY <3>1, <3>2
    <2> QED  BY <1>7, <2>2, <2>3 DEF Recv
  <1>8. ASSUME NEW a \in Attempts, DropsChunk(a) PROVE Delivered(b)'
    <2>1. /\ ppc[a] = "offer" /\ CtxDone(a) /\ ppc' = [ppc EXCEPT ![a] = "done"]
          /\ UNCHANGED <<got, said, fpc>>
      BY <1>8 DEF DropsChunk, forward
    <2>2. CASE b = a
      <3>1. CtxDone(b)'  BY <2>1, <2>2, CtxStaysDone
      <3> QED  BY <3>1 DEF Delivered
    <2>3. CASE b # a
      <3>1. ppc'[b] = ppc[b]  BY <1>1, <2>1, <2>3
      <3> QED  BY <1>4, <2>1, <3>1
    <2> QED  BY <2>2, <2>3
  <1>9. ASSUME NEW a \in Attempts, Take(a) PROVE Delivered(b)'
    <2>1. /\ ppc[a] = "offer" /\ fpc[a] = "recv" /\ UNCHANGED <<got, said>>
          /\ fpc' = [fpc EXCEPT ![a] = "offer"]
          /\ \E p \in {"done", "recv"} : ppc' = [ppc EXCEPT ![a] = p]
      BY <1>9 DEF Take
    <2>2. CASE b = a
      <3>1. InHand(ppc, b) = 1 /\ InHand(fpc, b) = 0 /\ InHand(fpc', b) = 1
        BY <1>1, <2>1, <2>2 DEF InHand
      <3>2. Len(said[b]) = Len(got[b]) + InHand(fpc', b)
        BY <1>2, <1>3, <2>1, <2>2, <3>1 DEF Flow
      <3> QED  BY <2>1, <3>2 DEF Delivered
    <2>3. CASE b # a
      <3>1. ppc'[b] = ppc[b] /\ InHand(fpc', b) = InHand(fpc, b)
        BY <1>1, <2>1, <2>3 DEF InHand
      <3> QED  BY <1>4, <2>1, <3>1
    <2> QED  BY <2>2, <2>3
  <1>10. ASSUME NEW a \in Attempts, Ends(a) PROVE Delivered(b)'
    <2>1. fpc[a] = "recv" /\ fpc' = [fpc EXCEPT ![a] = "done"] /\ UNCHANGED <<ppc, got, said>>
      BY <1>10 DEF Ends, reader
    <2>2. InHand(fpc', b) = InHand(fpc, b)  BY <1>1, <2>1 DEF InHand
    <2> QED  BY <1>4, <2>1, <2>2
  <1>11. ASSUME NEW a \in Attempts, Call(a) PROVE Delivered(b)'
    <2>1. CASE UNCHANGED <<reader, forward>>
      <3>1. UNCHANGED <<ppc, got, said, fpc>>  BY <1>11, <2>1 DEF Call, reader, forward
      <3> QED  BY <1>4, <3>1
    <2>2. CASE /\ ppc' = [ppc EXCEPT ![a] = "recv"] /\ fpc' = [fpc EXCEPT ![a] = "recv"]
               /\ UNCHANGED said
      <3>1. CASE b = a
        <4>1. ppc'[b] = "recv"  BY <1>1, <2>2, <3>1
        <4> QED  BY <1>5, <4>1
      <3>2. CASE b # a
        <4>1. ppc'[b] = ppc[b] /\ InHand(fpc', b) = InHand(fpc, b) /\ got' = got
          BY <1>1, <1>11, <2>2, <3>2 DEF InHand, Call
        <4> QED  BY <1>4, <2>2, <4>1
      <3> QED  BY <3>1, <3>2
    <2> QED  BY <1>11, <2>1, <2>2 DEF Call
  <1>12. ASSUME NEW a \in Attempts, Receive(a) PROVE Delivered(b)'
    <2>1. /\ fpc[a] = "offer" /\ UNCHANGED <<ppc, said>>
          /\ got' = [got EXCEPT ![a] = Append(got[a], held[a])]
          /\ \E p \in {"done", "recv"} : fpc' = [fpc EXCEPT ![a] = p]
      BY <1>12 DEF Receive, reader
    <2>2. CASE b = a
      <3>1. InHand(fpc, b) = 1 /\ InHand(fpc', b) = 0  BY <1>1, <2>1, <2>2 DEF InHand
      <3>2. got'[b] = Append(got[b], held[b]) /\ got[b] \in Seq(Nat)  BY <1>1, <2>1, <2>2
      <3>3. Len(got'[b]) = Len(got[b]) + 1  BY <3>2
      <3>4. ppc'[b] = "done" /\ ~CtxDone(b)' => ppc[b] = "done" /\ ~CtxDone(b)
        BY <2>1, CtxStaysDone
      <3> QED  BY <1>2, <1>3, <2>1, <3>1, <3>3, <3>4 DEF Delivered
    <2>3. CASE b # a
      <3>1. got'[b] = got[b] /\ InHand(fpc', b) = InHand(fpc, b)
        BY <1>1, <2>1, <2>3 DEF InHand
      <3> QED  BY <1>4, <2>1, <3>1
    <2> QED  BY <2>2, <2>3
  <1>13. ASSUME NEW a \in Attempts, GivesUp(a) \/ Write(a) \/ Judge(a) \/ Finish(a)
         PROVE  Delivered(b)'
    <2>1. UNCHANGED <<ppc, got, said, fpc>>
      BY <1>13 DEF GivesUp, Write, Judge, Finish, reader, forward
    <2> QED  BY <1>4, <2>1
  <1>14. ASSUME NEW a \in Attempts, Recv(a) \/ Forward(a) \/ Handle(a) PROVE Delivered(b)'
    BY <1>7, <1>8, <1>9, <1>10, <1>11, <1>12, <1>13, <1>14 DEF Forward, Handle
  <1> QED  BY <1>6, <1>14 DEF Next

\* One more thing is written to the client.
Wrote(o, p, b, n) == /\ o \in Seq(Attempts \X Nat) /\ b \in Attempts /\ n \in Nat
                     /\ p = Append(o, <<b, n>>)

\* It is another attempt's, or no chunk.
LEMMA OthersWritten ==
  ASSUME NEW o, NEW p, NEW b, NEW n, Wrote(o, p, b, n), NEW a \in Attempts, ~(b = a /\ n > 0)
  PROVE  Sent(p, a) = Sent(o, a) /\ (Rising(o, a) => Rising(p, a))
  <1> USE DEF Wrote
  <1> DEFINE l == Len(o) + 1
  <1>1. Len(o) \in Nat /\ DOMAIN o = 1..Len(o) /\ DOMAIN p = (DOMAIN o) \cup {l}  OBVIOUS
  <1>2. p[l] = <<b, n>> /\ p[l][1] = b /\ p[l][2] = n  OBVIOUS
  <1>3. \A i \in DOMAIN o : p[i] = o[i]  OBVIOUS
  <1> HIDE DEF l
  <1>4. Places(p, a) = Places(o, a)  BY <1>1, <1>2, <1>3 DEF Places
  <1>5. \A i \in Places(o, a) : p[i] = o[i]  BY <1>3 DEF Places
  <1>6. Sent(p, a) = Sent(o, a)  BY <1>4, <1>5 DEF Sent
  <1>7. Rising(o, a) => Rising(p, a)  BY <1>4, <1>5 DEF Rising
  <1> QED  BY <1>6, <1>7

\* It is a chunk that comes after all those of its attempt.
LEMMA ChunkWritten ==
  ASSUME NEW o, NEW p, NEW a, NEW n, Wrote(o, p, a, n), n > 0,
         Rising(o, a), \A m \in Sent(o, a) : m < n
  PROVE  Sent(p, a) = Sent(o, a) \cup {n} /\ Rising(p, a)
  <1> USE DEF Wrote
  <1> DEFINE l == Len(o) + 1
  <1>1. Len(o) \in Nat /\ DOMAIN o = 1..Len(o) /\ DOMAIN p = (DOMAIN o) \cup {l}  OBVIOUS
  <1>2. p[l] = <<a, n>> /\ p[l][1] = a /\ p[l][2] = n  OBVIOUS
  <1>3. \A i \in DOMAIN o : p[i] = o[i] /\ i < l  OBVIOUS
  <1> HIDE DEF l
  <1>4. Places(p, a) = Places(o, a) \cup {l}  BY <1>1, <1>2, <1>3 DEF Places
  <1>5. \A i \in Places(o, a) : p[i] = o[i] /\ i < l /\ i \in Nat  BY <1>1, <1>3 DEF Places
  <1>6. Sent(p, a) = Sent(o, a) \cup {n}
    <2>1. Sent(p, a) = {p[i][2] : i \in Places(o, a)} \cup {p[l][2]}  BY <1>4 DEF Sent
    <2>2. {p[i][2] : i \in Places(o, a)} = Sent(o, a)  BY <1>5 DEF Sent
    <2> QED  BY <1>2, <2>1, <2>2
  <1>7. Rising(p, a)
    <2> SUFFICES ASSUME NEW i \in Places(p, a), NEW j \in Places(p, a), i < j
                 PROVE  p[i][2] < p[j][2]
      BY DEF Rising
    <2>1. i # l
      <3>1. l \in Nat  BY <1>1 DEF l
      <3>2. j = l \/ j \in Places(o, a)  BY <1>4
      <3>3. j \in Nat /\ j <= l  BY <1>5, <3>1, <3>2
      <3> QED  BY <3>1, <3>3
    <2>2. i \in Places(o, a)  BY <1>4, <2>1
    <2>3. CASE j = l
      <3>1. p[i][2] \in Sent(o, a)  BY <1>5, <2>2 DEF Sent
      <3> QED  BY <1>2, <2>3, <3>1
    <2>4. CASE j \in Places(o, a)  BY <1>5, <2>2, <2>4 DEF Rising
    <2> QED  BY <1>4, <2>3, <2>4
  <1> QED  BY <1>6, <1>7

LEMMA RepliedKept ==
  ASSUME Inv, SilentInv, AnswerInv, Next, NEW b \in Attempts
  PROVE  Replied(b)'
  <1>1. /\ ppc \in [Attempts -> Steps] /\ got \in [Attempts -> Seq(Nat)]
        /\ out \in Seq(Attempts \X Nat) /\ attempt \in Attempts
    BY DEF Inv, TypeOK
  <1>2. Flow(b) /\ Replied(b)  BY DEF Inv, FlowInv, AnswerInv
  <1>3. Len(got[b]) \in Nat  BY StreamFacts
  <1>4. gone => gone'  BY Monotone
  <1> DEFINE now1(k) == hpc = k /\ attempt = b
             next1(k) == hpc' = k /\ attempt' = b
  \* Nothing is received or written for this attempt.
  <1>5. ASSUME got'[b] = got[b], Sent(out', b) = Sent(out, b), Rising(out', b),
               next1("write") => now1("write"), next1("wait") => now1("wait"),
               now1("write") => next1("write") \/ gone'
        PROVE  Replied(b)'
    <2>1. \/ Sent(out', b) = 1..Len(got'[b])
          \/ Sent(out', b) = 1..(Len(got'[b]) - 1) /\ (gone' \/ next1("write"))
      BY <1>2, <1>4, <1>5 DEF Replied
    <2>2. next1("write") => Sent(out', b) = 1..(Len(got'[b]) - 1)  BY <1>2, <1>5 DEF Replied
    <2>3. next1("wait") => Sent(out', b) = 1..Len(got'[b])  BY <1>2, <1>5 DEF Replied
    <2> QED  BY <1>5, <2>1, <2>2, <2>3 DEF Replied
  <1>6. Rising(out, b)  BY <1>2 DEF Replied
  <1>7. CASE Tick \/ Leave
    <2>1. UNCHANGED <<got, out, hpc, attempt>>  BY <1>7 DEF Tick, Leave, control
    <2> QED  BY <1>5, <1>6, <2>1
  <1>8. ASSUME NEW a \in Attempts, Recv(a) \/ Forward(a) PROVE Replied(b)'
    <2>1. UNCHANGED <<got, out, hpc, attempt>>
      BY <1>8 DEF Recv, Forward, DropsChunk, Take, Ends, control
    <2> QED  BY <1>5, <1>6, <2>1
  <1>9. ASSUME NEW a \in Attempts, Call(a) PROVE Replied(b)'
    <2>1. hpc = "call" /\ attempt = a /\ got' = got  BY <1>9 DEF Call
    <2>2. CASE hpc' = "finish" /\ out' = Append(out, <<a, 0>>)
      <3>1. Sent(out', b) = Sent(out, b) /\ Rising(out', b)
        <4>1. Wrote(out, out', a, 0)  BY <1>1, <1>9, <2>2 DEF Wrote
        <4> QED  BY <1>6, <4>1, OthersWritten
      <3> QED  BY <1>5, <2>1, <2>2, <3>1
    <2>3. CASE hpc' = "wait" /\ UNCHANGED <<attempt, out>>
      <3>1. CASE b = a
        <4>1. Len(got[b]) = 0
          <5>1. Len(said[b]) = 0  BY <1>2, <2>1, <3>1 DEF Inv, HandlerInv, Flow
          <5> QED  BY <1>3, <5>1, StreamFacts
        <4>2. 1..Len(got[b]) = {} /\ 1..(Len(got[b]) - 1) = {}  BY <4>1
        <4>3. Sent(out, b) = 1..Len(got[b])  BY <1>2, <4>2 DEF Replied
        <4> QED  BY <1>6, <2>1, <2>3, <4>3 DEF Replied
      <3>2. CASE b # a  BY <1>5, <1>6, <2>1, <2>3, <3>2
      <3> QED  BY <3>1, <3>2
    <2> QED  BY <1>9, <2>2, <2>3 DEF Call, Returns
  <1>10. ASSUME NEW a \in Attempts, Receive(a) PROVE Replied(b)'
    <2>1. /\ hpc = "wait" /\ attempt = a /\ hpc' = "write" /\ UNCHANGED <<attempt, out>>
          /\ got' = [got EXCEPT ![a] = Append(got[a], held[a])]
      BY <1>10 DEF Receive
    <2>2. CASE b = a
      <3>1. got'[b] = Append(got[b], held[b]) /\ got[b] \in Seq(Nat)  BY <1>1, <2>1, <2>2
      <3>2. Len(got'[b]) - 1 = Len(got[b])  BY <1>3, <3>1
      <3>3. Sent(out, b) = 1..Len(got[b])  BY <1>2, <2>1, <2>2 DEF Replied
      <3> QED  BY <1>6, <2>1, <2>2, <3>2, <3>3 DEF Replied
    <2>3. CASE b # a
      <3>1. got'[b] = got[b]  BY <1>1, <2>1, <2>3
      <3> QED  BY <1>5, <1>6, <2>1, <2>3, <3>1
    <2> QED  BY <2>2, <2>3
  <1>11. ASSUME NEW a \in Attempts, Write(a) PROVE Replied(b)'
    <2>1. hpc = "write" /\ attempt = a /\ UNCHANGED <<got, attempt>>
      BY <1>11 DEF Write, Returns
    <2>2. CASE gone /\ hpc' = "judge" /\ UNCHANGED out
      BY <1>4, <1>5, <1>6, <2>1, <2>2
    <2>3. CASE hpc' = "wait" /\ out' = Append(out, <<a, Last(got[a])>>)
      <3>1. Flow(a) /\ got[a] \in Seq(Nat) /\ Len(got[a]) \in Nat /\ Len(got[a]) > 0
        BY <1>1, <2>1, StreamFacts DEF Inv, FlowInv, HandlerInv
      <3>2. Last(got[a]) = Len(got[a])  BY <3>1 DEF Flow, Last
      <3>3. CASE b = a
        <4>1. Sent(out, b) = 1..(Len(got[b]) - 1)  BY <1>2, <2>1, <3>3 DEF Replied
        <4>2. (1..(Len(got[b]) - 1)) \cup {Len(got[b])} = 1..Len(got[b])  BY <3>1, <3>3
        <4>3. \A m \in Sent(out, b) : m < Len(got[b])  BY <3>1, <3>3, <4>1
        <4>4. Wrote(out, out', b, Len(got[b]))  BY <1>1, <2>3, <3>1, <3>2, <3>3 DEF Wrote
        <4>5. Sent(out', b) = 1..Len(got[b]) /\ Rising(out', b)
          <5>1. Len(got[b]) > 0  BY <3>1, <3>3
          <5>2. Sent(out', b) = Sent(out, b) \cup {Len(got[b])} /\ Rising(out', b)
            BY <1>6, <4>3, <4>4, <5>1, ChunkWritten
          <5> QED  BY <4>1, <4>2, <5>2
        <4> QED  BY <2>1, <2>3, <3>3, <4>5 DEF Replied
      <3>4. CASE b # a
        <4>1. Sent(out', b) = Sent(out, b) /\ Rising(out', b)
          <5>1. Wrote(out, out', a, Last(got[a]))  BY <1>1, <1>11, <2>3, <3>1, <3>2 DEF Wrote
          <5> QED  BY <1>6, <3>4, <5>1, OthersWritten
        <4> QED  BY <1>5, <2>1, <2>3, <3>4, <4>1
      <3> QED  BY <3>3, <3>4
    <2> QED  BY <1>11, <2>2, <2>3 DEF Write, Returns
  <1>12. ASSUME NEW a \in Attempts, GivesUp(a) \/ Judge(a) \/ Finish(a) PROVE Replied(b)'
    <2>1. UNCHANGED <<got, out>> /\ hpc # "write" /\ hpc' \notin {"write", "wait"}
      BY <1>12 DEF GivesUp, Judge, Finish, Returns
    <2> QED  BY <1>5, <1>6, <2>1
  <1>13. ASSUME NEW a \in Attempts, Recv(a) \/ Forward(a) \/ Handle(a) PROVE Replied(b)'
    BY <1>8, <1>9, <1>10, <1>11, <1>12, <1>13 DEF Handle
  <1> QED  BY <1>7, <1>13 DEF Next

LEMMA NothingAnswered == Init => AnswerInv
  <1> SUFFICES ASSUME Init PROVE AnswerInv  OBVIOUS
  <1>1. /\ hpc = "call" /\ out = << >>
        /\ \A a \in Attempts : /\ got[a] = << >> /\ said[a] = << >> /\ tokens[a] = 0
                               /\ ppc[a] = "off" /\ fpc[a] = "off"
    BY DEF Init, ForEach
  <1>2. ASSUME NEW a \in Attempts PROVE Delivered(a) /\ Replied(a) /\ Used(a)
    <2>1. Delivered(a)  BY <1>1 DEF Delivered
    <2>2. Places(out, a) = {}  BY <1>1 DEF Places
    <2>3. Sent(out, a) = {} /\ Rising(out, a)  BY <2>2 DEF Sent, Rising
    <2>4. 1..Len(got[a]) = {}  BY <1>1
    <2>5. Replied(a)  BY <1>1, <2>3, <2>4 DEF Replied
    <2>6. Counted(got[a], said[a]) = {}  BY <1>1 DEF Counted
    <2>7. Ahead(fpc[a], held[a], said[a]) = 0  BY <1>1 DEF Ahead
    <2>8. Used(a)  BY <1>1, <2>6, <2>7, FS_EmptySet DEF Used
    <2> QED  BY <2>1, <2>5, <2>8
  <1>3. Billed  BY <1>1 DEF Billed
  <1> QED  BY <1>2, <1>3 DEF AnswerInv

LEMMA AnswerHolds == Spec => [](Inv /\ AnswerInv)
  <1>1. Init => AnswerInv  BY NothingAnswered
  <1>2. (Inv /\ Timely) /\ AnswerInv /\ [Next]_vars => AnswerInv'
    <2>1. ASSUME Inv, SilentInv, AnswerInv, Next PROVE AnswerInv'
      <3>1. \A b \in Attempts : Delivered(b)'  BY <2>1, DeliveredKept
      <3>2. \A b \in Attempts : Replied(b)'  BY <2>1, RepliedKept
      <3>3. \A b \in Attempts : Used(b)'  BY <2>1, UsedKept
      <3> QED  BY <2>1, <3>1, <3>2, <3>3, BilledKept DEF AnswerInv
    <2>2. ASSUME AnswerInv, UNCHANGED vars PROVE AnswerInv'
      BY <2>2 DEF vars, time, control, client, timer, reader, forward, AnswerInv, Delivered,
                  CtxDone, InHand, Replied, Sent, Rising, Places, Used, Counted, Ahead, Billed
    <2> QED  BY <2>1, <2>2 DEF Timely
  <1> QED  BY <1>1, <1>2, TimelyHolds, PTL DEF Spec

\* However the goroutines, the handler and the client take turns, the usage sent at the end
\* counts the chunks received, and at most the one in the forwarder's hands besides.
THEOREM UsageIsHonest == Spec => []UsageOneAhead
  <1>1. Inv /\ AnswerInv => UsageOneAhead
    <2> SUFFICES ASSUME Inv, AnswerInv, NEW a \in Attempts
                 PROVE  LET chunks == Cardinality({i \in DOMAIN got[a] : ~Is(a, got[a][i], {"error"})})
                        IN /\ tokens[a] \in {chunks, chunks + 1}
                           /\ hpc = "done" /\ attempt = a => bill <= chunks + 1
                           /\ tokens[a] > chunks => fpc[a] = "offer" /\ ~Is(a, held[a], {"error"})
      BY DEF UsageOneAhead
    <2> DEFINE chunks == Cardinality({i \in DOMAIN got[a] : ~Is(a, got[a][i], {"error"})})
               ahead == Ahead(fpc[a], held[a], said[a])
    <2>1. {i \in DOMAIN got[a] : ~Is(a, got[a][i], {"error"})} = Counted(got[a], said[a])
      BY DEF Is, Counted
    <2>2. chunks \in Nat /\ ahead \in 0..1  BY <2>1, CountedFacts
    <2>3. tokens[a] = chunks + ahead  BY <2>1 DEF AnswerInv, Used
    <2>4. ahead > 0 => fpc[a] = "offer" /\ ~Is(a, held[a], {"error"})  BY DEF Ahead, Is
    <2>5. hpc = "done" /\ attempt = a => bill <= chunks + 1  BY <2>1 DEF AnswerInv, Billed
    <2> HIDE DEF chunks, ahead
    <2>6. tokens[a] \in {chunks, chunks + 1}  BY <2>2, <2>3
    <2>7. tokens[a] > chunks => ahead > 0  BY <2>2, <2>3
    <2> QED  BY <2>4, <2>5, <2>6, <2>7 DEF chunks
  <1> QED  BY <1>1, AnswerHolds, PTL

\* The client is sent what the model said, in order, nothing twice and nothing left out but
\* the last chunk, while it is written or when the client has gone.
THEOREM ClientSeesThePrefix == Spec => []RepliesArePrefixes
  <1>1. Inv /\ AnswerInv => RepliesArePrefixes
    <2> SUFFICES ASSUME Inv, AnswerInv, NEW a \in Attempts
                 PROVE  /\ \A i \in DOMAIN got[a] : got[a][i] = i
                        /\ \A i, j \in Replies(a) : i < j => out[i][2] < out[j][2]
                        /\ Shown(a) = 1..Len(got[a]) \/ Shown(a) = 1..(Len(got[a]) - 1)
                        /\ ~CtxDone(a) => Len(said[a]) = Len(got[a]) + InHand(fpc, a) + InHand(ppc, a)
                        /\ Shown(a) # 1..Len(got[a]) => gone \/ (hpc = "write" /\ attempt = a)
      BY DEF RepliesArePrefixes
    <2>1. Flow(a) /\ Delivered(a) /\ Replied(a)  BY DEF Inv, FlowInv, AnswerInv
    <2>2. Replies(a) = Places(out, a) /\ Shown(a) = Sent(out, a)
      BY DEF Replies, Shown, Places, Sent
    <2>3. \A i \in DOMAIN got[a] : got[a][i] = i  BY ReceivedWasSaid
    <2>4. \A i, j \in Replies(a) : i < j => out[i][2] < out[j][2]
      BY <2>1, <2>2 DEF Replied, Rising
    <2>5. Len(got[a]) \in Nat /\ Len(said[a]) \in Nat  BY StreamFacts
    <2>6. ppc[a] \in Steps  BY DEF Inv, TypeOK
    <2>7. ASSUME ~CtxDone(a)
          PROVE  Len(said[a]) = Len(got[a]) + InHand(fpc, a) + InHand(ppc, a)
      <3>1. InHand(fpc, a) \in Nat /\ InHand(ppc, a) \in Nat  BY DEF InHand
      <3>2. CASE ppc[a] = "done"
        <4>1. InHand(ppc, a) = 0  BY <3>2 DEF InHand
        <4> QED  BY <2>1, <2>5, <2>7, <3>1, <3>2, <4>1 DEF Delivered
      <3>3. CASE ppc[a] \in {"recv", "offer"}
        <4> DEFINE l == Len(said[a])
                   sum == Len(got[a]) + InHand(fpc, a) + InHand(ppc, a)
        <4>1. sum \in Nat /\ l \in Nat  BY <2>5, <3>1
        <4>2. sum <= l /\ l <= sum  BY <2>1, <3>3 DEF Flow
        <4> HIDE DEF l, sum
        <4>3. l = sum  BY <4>1, <4>2
        <4> QED  BY <4>3 DEF l, sum
      <3>4. CASE ppc[a] = "off"  BY <2>1, <2>5, <3>1, <3>4 DEF Flow
      <3> QED  BY <2>6, <3>2, <3>3, <3>4 DEF Steps
    <2>8. /\ Shown(a) = 1..Len(got[a]) \/ Shown(a) = 1..(Len(got[a]) - 1)
          /\ Shown(a) # 1..Len(got[a]) => gone \/ (hpc = "write" /\ attempt = a)
      BY <2>1, <2>2 DEF Replied
    <2> QED  BY <2>3, <2>4, <2>7, <2>8
  <1> QED  BY <1>1, AnswerHolds, PTL
=============================================================================
