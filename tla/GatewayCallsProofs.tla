-------------------------- MODULE GatewayCallsProofs --------------------------
(***************************************************************************)
(* GatewayClient implements GatewayCalls: for every step of the client,    *)
(* each call of sendChat and waitForTerminal takes a step of the contract  *)
(* or stays where it is.                                                   *)
(*                                                                         *)
(* The contract speaks of three fields of a call, so the proof is about    *)
(* pairs of call records (Step) first.  What it needs of the state is in   *)
(* IInv: a call under way has no result yet, one that is over has left     *)
(* nothing behind, and a terminal chat event tells of an ended run.        *)
(***************************************************************************)
EXTENDS GatewayClientProofs

\* The refinement mapping, for one call.
Stage(x) == IF x.phase = "idle" THEN "idle" ELSE IF x.phase = "waiting" THEN "waiting" ELSE "sending"

\* sendChat has begun to wait, or has failed before it did.
Entered(y) ==
    \/ Stage(y) = "sending" /\ y.run = "none" /\ y.result = "none"
    \/ Stage(y) = "idle" /\ y.run = "none" /\ y.result = "failed"

\* The actions of GatewayCalls on the record of one call, before and after the step.
Step(x, y) ==
    \/ Stage(x) = "idle" /\ x.result = "none" /\ Entered(y)
    \/ Stage(x) = "idle" /\ Stage(y) = "idle" /\ y.run = "none" /\ y.result = "none"
    \/ /\ Stage(x) # "idle" /\ Stage(y) = Stage(x) /\ y.result = x.result
       /\ <<x.run, y.run>> \in {<<"none", "refused">>, <<"none", "started">>,
                                <<"started", "ended">>, <<"refused", "none">>}
    \/ /\ Stage(x) = "sending" /\ Stage(y) = "waiting"
       /\ x.run \in {"started", "ended"} /\ y.run = x.run /\ y.result = x.result
    \/ /\ Stage(x) # "idle" /\ Stage(y) = "idle" /\ y.run = "none"
       /\ \/ y.result = "final" /\ x.run = "ended"
          \/ y.result = "error" /\ Stage(x) = "waiting"
          \/ y.result = "timeout"
          \/ y.result = "failed" /\ Stage(x) = "sending"
    \/ Stage(y) = Stage(x) /\ y.run = x.run /\ y.result = x.result

\* A step of every record is a step of the contract.
LEMMA StepMaps ==
  ASSUME \A c \in Calls : Step(call[c], call'[c])
  PROVE  Contract!Next
<1> DEFINE stage == [c \in Calls |-> CASE call[c].phase = "idle"    -> "idle"
                                       [] call[c].phase = "waiting" -> "waiting"
                                       [] OTHER                     -> "sending"]
<1>1. \A c \in Calls : stage[c] = Stage(call[c]) /\ stage'[c] = Stage(call'[c])
  BY DEF Stage
<1> HIDE DEF stage
<1> SUFFICES ASSUME NEW c \in Calls
             PROVE  \/ Contract!Begins(c) \/ Contract!BeginsInVain(c) \/ Contract!GatewayActs(c)
                    \/ Contract!Accepted(c) \/ Contract!Settled(c) \/ Contract!Taken(c) \/ Contract!Same(c)
  BY DEF Contract!Next
<1>2. Step(call[c], call'[c])
  OBVIOUS
<1> QED BY <1>1, <1>2 DEF Step, Entered, stage, Contract!Begins, Contract!BeginsInVain,
           Contract!GatewayActs, Contract!Accepted, Contract!Settled, Contract!Taken, Contract!Same

\* What a call is after its end, and what stays of one that sends its request or its POST.
LEMMA EndedStage ==
  \A result \in Results : /\ Stage(Ended(result)) = "idle" /\ Ended(result).run = "none"
                          /\ Ended(result).result = result
  BY DEF Stage, Ended, NoCall

\* A call at its POST is still in sendChat.
LEMMA PostingStage ==
  ASSUME NEW x \in Call, x.phase \in {"connecting", "stage", "requested", "posting"}
  PROVE  /\ Stage(Posting(x)) = "sending" /\ Posting(x).run = x.run /\ Posting(x).result = x.result
  BY DEF Stage, Posting, Call

\* A call that has tried to send its request is in sendChat, or over without an answer.
LEMMA RequestStage ==
  ASSUME NEW x \in Call, NEW y, y = Request(x)
  PROVE  \/ Stage(y) = "sending" /\ y.run = x.run /\ y.result = x.result
         \/ Stage(y) = "idle" /\ y.run = "none" /\ y.result = "failed"
<1>1. CASE Open(ws)
  <2>1. y = [x EXCEPT !.phase = "requested", !.on = ws]
    BY <1>1 DEF Request
  <2> QED BY <2>1 DEF Stage, Call
<1>2. CASE ~Open(ws)
  BY <1>2, EndedStage DEF Request, Results
<1> QED BY <1>1, <1>2

\* A call whose attempt is over goes on where the contract has it, or its sendChat throws.
LEMMA ResumedStep ==
  ASSUME NEW c \in Calls, call[c] \in Call, call[c].phase \in {"connecting", "stage"},
         NEW ok \in BOOLEAN, NEW y, y = Resumed(c, ok)
  PROVE  Step(call[c], y)
<1>1. Stage(call[c]) = "sending"
  BY DEF Stage
<1>2. CASE call[c].phase = "stage"
  BY <1>1, <1>2, PostingStage DEF Resumed, Step
<1>3. CASE call[c].phase # "stage" /\ ok
  BY <1>1, <1>3, RequestStage DEF Resumed, Step
<1>4. CASE call[c].phase # "stage" /\ ~ok
  BY <1>1, <1>4, EndedStage DEF Resumed, Step, Results
<1> QED BY <1>2, <1>3, <1>4

\* A flush settles the calls it rejects.
LEMMA FlushedStep ==
  ASSUME NEW c \in Calls, call[c] \in Call, NEW lost, NEW y, y = FlushedCall(c, lost)
  PROVE  Step(call[c], y)
<1>1. CASE call[c].phase = "requested"
  <2>1. y = Ended("failed") /\ Stage(call[c]) = "sending"
    BY <1>1 DEF FlushedCall, Stage
  <2> QED BY <2>1, EndedStage DEF Step, Results
<1>2. CASE call[c].phase # "requested" /\ \E a \in lost : Awaits(c, a)
  <2>1. y = Resumed(c, FALSE) /\ call[c].phase \in {"connecting", "stage"}
    BY <1>2 DEF FlushedCall, Awaits
  <2> QED BY <2>1, ResumedStep
<1>3. CASE call[c].phase # "requested" /\ ~\E a \in lost : Awaits(c, a)
  BY <1>3 DEF FlushedCall, Step
<1> QED BY <1>1, <1>2, <1>3

\* ensureConnected is entered by one call, which waits or fails.
LEMMA EnsureConnectedEnters ==
  ASSUME TypeOK, NEW c \in Calls, NEW phase \in {"connecting", "stage"}, NEW command \in BOOLEAN,
         EnsureConnected(c, phase, command)
  PROVE  Entered(call'[c]) /\ \A d \in Calls \ {c} : call'[d] = call[d]
<1> DEFINE at(a) == [NoCall EXCEPT !.phase = phase, !.on = a, !.command = command]
<1>1. \A a \in Slots \cup {None} : /\ at(a) \in Call /\ at(a).phase = phase
                                   /\ at(a).run = "none" /\ at(a).result = "none"
  BY DEF NoCall, Call, CallPhases
<1> HIDE DEF at
<1>2. \A a \in Slots : Entered(at(a))
  BY <1>1 DEF Entered, Stage
<1>3. Entered(Posting(at(None))) /\ Entered(Ended("failed"))
  BY <1>1, PostingStage, EndedStage DEF Entered, Results
<1>4. PICK y : y = Request(at(None))
  OBVIOUS
<1>5. Entered(y)
  BY <1>1, <1>4, RequestStage DEF Entered
<1>6. PICK x : call' = [call EXCEPT ![c] = x] /\ Entered(x)
  <2>1. CASE call' = [call EXCEPT ![c] = IF phase = "stage" THEN Posting(at(None)) ELSE Request(at(None))]
    BY <1>3, <1>4, <1>5, <2>1
  <2>2. CASE call' = [call EXCEPT ![c] = IF phase = "stage" THEN Posting(at(None)) ELSE Ended("failed")]
    BY <1>3, <2>2
  <2>3. CASE \E a \in Slots : call' = [call EXCEPT ![c] = at(a)]
    BY <1>2, <2>3
  <2> QED BY <2>1, <2>2, <2>3 DEF EnsureConnected, at
<1> QED BY <1>6 DEF TypeOK

\* So is sendChatViaHttpResponses.
LEMMA BeginHttpEnters ==
  ASSUME TypeOK, NEW c \in Calls, NEW command \in BOOLEAN, BeginHttp(c, command)
  PROVE  Entered(call'[c]) /\ \A d \in Calls \ {c} : call'[d] = call[d]
<1>1. CASE EnsureConnected(c, "stage", command)
  BY <1>1, EnsureConnectedEnters
<1>2. CASE call' = [call EXCEPT ![c] = Ended("failed")]
  BY <1>2, EndedStage DEF Entered, Results, TypeOK
<1>3. CASE call' = [call EXCEPT ![c] = Posting([NoCall EXCEPT !.command = command])]
  <2> DEFINE x == [NoCall EXCEPT !.command = command]
             y == [x EXCEPT !.phase = "posting", !.on = None]
  <2>1. y.phase = "posting" /\ y.run = "none" /\ y.result = "none"
    BY DEF NoCall
  <2>2. Entered(y) /\ call' = [call EXCEPT ![c] = y]
    BY <1>3, <2>1 DEF Entered, Stage, Posting
  <2> HIDE DEF y
  <2> QED BY <2>2 DEF TypeOK
<1> QED BY <1>1, <1>2, <1>3 DEF BeginHttp

\* The handshake settles the calls that await it.
LEMMA HandshakeSteps ==
  ASSUME IInv, NEW s \in Slots, Handshake(s), NEW c \in Calls
  PROVE  Step(call[c], call'[c])
<1>1. call[c] \in Call
  BY DEF IInv, TypeOK
<1>2. CASE call' = call
  BY <1>2 DEF Step
<1>3. ASSUME NEW a \in Slots, AttemptFails(a) \/ AttemptSucceeds(a) PROVE Step(call[c], call'[c])
  <2>1. PICK ok \in BOOLEAN : call'[c] = IF Awaits(c, a) THEN Resumed(c, ok) ELSE call[c]
    BY <1>3 DEF AttemptFails, AttemptSucceeds
  <2>2. CASE Awaits(c, a)
    BY <1>1, <2>1, <2>2, ResumedStep DEF Awaits
  <2>3. CASE ~Awaits(c, a)
    BY <2>1, <2>3 DEF Step
  <2> QED BY <2>2, <2>3
<1>4. CASE Challenged(s)
  <2>1. CASE challengers # <<>> /\ AttemptFails(Head(challengers))
    <3>1. Head(challengers) \in Slots
      BY <2>1 DEF IInv, TypeOK
    <3> QED BY <1>3, <2>1, <3>1
  <2>2. CASE ~(challengers # <<>> /\ AttemptFails(Head(challengers)))
    BY <1>2, <1>4, <2>2 DEF Challenged
  <2> QED BY <2>1, <2>2
<1>5. CASE ~Challenged(s)
  BY <1>2, <1>3, <1>5 DEF Handshake, Opened, OpenedWithChallenge, Greets, HelloOk, HelloRefused,
     HandshakeTimeout, ChallengeOverdue, client
<1> QED BY <1>4, <1>5

\* The end of a socket, and close(), settle the calls that hang on it.
LEMMA SocketSteps ==
  ASSUME IInv, NEW c \in Calls, Close \/ \E s \in Slots : GatewayCloses(s) \/ Closed(s)
  PROVE  Step(call[c], call'[c])
<1>1. call[c] \in Call
  BY DEF IInv, TypeOK
<1>2. CASE \E s \in Slots : GatewayCloses(s)
  BY <1>2 DEF GatewayCloses, Step
<1>3. ASSUME NEW s \in Slots, Closed(s) PROVE Step(call[c], call'[c])
  <2> DEFINE lost == Flushed \cup {a \in {s} : attempt[a].phase = "opening"}
  <2>1. call'[c] = [FlushedCall(c, lost) EXCEPT !.news = @ \ {s}]
    BY <1>3 DEF Closed
  <2> HIDE DEF lost
  <2>2. PICK x : x = FlushedCall(c, lost)
    OBVIOUS
  <2>3. x \in Call /\ Step(call[c], x)
    BY <1>1, <2>2, FlushedType, FlushedStep DEF IInv
  <2>4. PICK y : y = [x EXCEPT !.news = @ \ {s}]
    OBVIOUS
  <2>5. y.phase = x.phase /\ y.run = x.run /\ y.result = x.result
    BY <2>3, <2>4 DEF Call
  <2>6. Step(call[c], y)
    BY <2>3, <2>5 DEF Step, Entered, Stage
  <2> QED BY <2>1, <2>2, <2>4, <2>6
<1>4. CASE Close
  <2>1. CASE call[c].phase = "waiting"
    <3>1. call'[c] = Ended("error") /\ Stage(call[c]) = "waiting"
      BY <1>4, <2>1 DEF Close, Stage
    <3> QED BY <3>1, EndedStage DEF Step, Results
  <2>2. CASE call[c].phase # "waiting"
    BY <1>1, <1>4, <2>2, FlushedStep DEF Close
  <2> QED BY <2>1, <2>2
<1> QED BY <1>2, <1>3, <1>4

\* The step of one call, and of no other.
LEMMA CallSteps ==
  ASSUME IInv, NEW c \in Calls,
         \/ \E command \in BOOLEAN : SendChat(c, command)
         \/ Taken(c) \/ WebSocketCall(c) \/ HttpCall(c) \/ Run(c)
  PROVE  \A d \in Calls : Step(call[d], call'[d])
<1>1. /\ TypeOK /\ call \in [Calls -> Call] /\ call[c] \in Call
      /\ UnderWay(c) => call[c].result = "none"
      /\ call[c].news # {} => call[c].run = "ended"
  BY DEF IInv, TypeOK, CallInv
<1>2. SUFFICES Step(call[c], call'[c]) /\ \A d \in Calls \ {c} : call'[d] = call[d]
  BY DEF Step
<1>3. ASSUME NEW result \in Results, Ends(c, result), Step(call[c], Ended(result))
      PROVE  Step(call[c], call'[c]) /\ \A d \in Calls \ {c} : call'[d] = call[d]
  BY <1>1, <1>3 DEF Ends
<1>4. CASE \E command \in BOOLEAN : SendChat(c, command)
  <2>1. Entered(call'[c]) /\ \A d \in Calls \ {c} : call'[d] = call[d]
    BY <1>1, <1>4, BeginHttpEnters, EnsureConnectedEnters DEF SendChat
  <2>2. Stage(call[c]) = "idle" /\ call[c].result = "none"
    BY <1>4 DEF SendChat, Stage, NoCall
  <2> QED BY <2>1, <2>2 DEF Step
<1>5. CASE Taken(c)
  <2>1. call'[c] = NoCall /\ \A d \in Calls \ {c} : call'[d] = call[d]
    BY <1>1, <1>5 DEF Taken
  <2>2. Stage(call[c]) = "idle"
    BY <1>5 DEF Taken, UnderWay, Stage
  <2> QED BY <2>1, <2>2 DEF Step, Stage, NoCall
<1>6. CASE Run(c)
  <2>1. PICK run, news : /\ call' = [call EXCEPT ![c].run = run, ![c].news = news]
                         /\ \/ call[c].run = "none" /\ run \in {"started", "refused"}
                            \/ call[c].run = "started" /\ run = "ended"
    <3>1. CASE RunStarts(c) \/ RequestRefused(c)
      <4>1. \A run : [call EXCEPT ![c].run = run, ![c].news = call[c].news] = [call EXCEPT ![c].run = run]
        BY <1>1 DEF Call
      <4> QED BY <3>1, <4>1 DEF RunStarts, RequestRefused
    <3>2. CASE RunEnds(c)
      BY <3>2 DEF RunEnds
    <3> QED BY <1>6, <3>1, <3>2 DEF Run
  <2> DEFINE x == [call[c] EXCEPT !.run = run, !.news = news]
  <2>2. call'[c] = x /\ \A d \in Calls \ {c} : call'[d] = call[d]
    BY <1>1, <2>1
  <2>3. x.phase = call[c].phase /\ x.run = run /\ x.result = call[c].result
    BY <1>1 DEF Call
  <2>4. call[c].phase # "idle"
    <3>1. ASSUME call[c].phase = "idle" PROVE call[c].run = "none"
      BY <3>1 DEF IInv, CallInv, UnderWay, Ended, NoCall
    <3> QED BY <1>6, <3>1 DEF Run, RunStarts, RequestRefused, RunEnds, Asked
  <2> HIDE DEF x
  <2> QED BY <2>1, <2>2, <2>3, <2>4 DEF Step, Stage
<1>7. CASE HttpCall(c)
  BY <1>3, <1>7, EndedStage DEF HttpCall, PostReplied, PostAborted, PostFails, Step, Stage, Results
<1>8. CASE ChatSendOk(c)
  <2> DEFINE x == [call[c] EXCEPT !.phase = "waiting", !.on = None]
             y == [call[c] EXCEPT !.phase = "waiting", !.on = None, !.news = @ \ {call[c].on}]
  <2>1. call' = [call EXCEPT ![c] = x] \/ call' = [call EXCEPT ![c] = y]
    BY <1>1, <1>8 DEF ChatSendOk
  <2>2. /\ x.phase = "waiting" /\ x.run = call[c].run /\ x.result = call[c].result
        /\ y.phase = "waiting" /\ y.run = call[c].run /\ y.result = call[c].result
    BY <1>1 DEF Call
  <2>3. call[c].phase = "requested" /\ call[c].run \in {"started", "ended"}
    BY <1>1, <1>8 DEF ChatSendOk, OkReply, Replied, Call
  <2> HIDE DEF x, y
  <2> QED BY <1>1, <2>1, <2>2, <2>3 DEF Step, Stage
<1>9. CASE ChatSendRefused(c)
  <2>1. /\ call[c].phase = "requested" /\ call[c].run = "refused" /\ call[c].result = "none"
        /\ Stage(call[c]) = "sending"
    BY <1>1, <1>9 DEF ChatSendRefused, Replied, UnderWay, Stage
  <2>2. CASE Ends(c, "failed")
    BY <1>3, <2>1, <2>2, EndedStage DEF Step, Results
  <2>3. CASE BeginHttp(c, FALSE)
    <3>1. Entered(call'[c]) /\ \A d \in Calls \ {c} : call'[d] = call[d]
      BY <1>1, <2>3, BeginHttpEnters
    <3> QED BY <2>1, <3>1 DEF Entered, Step
  <2> QED BY <1>9, <2>2, <2>3 DEF ChatSendRefused
<1>10. CASE RequestTimeout(c) \/ TerminalTimeout(c)
  BY <1>3, <1>10, EndedStage DEF RequestTimeout, TerminalTimeout, Step, Stage, Results
<1>11. ASSUME NEW s \in Slots, NEW result \in {"final", "error"}, ChatEvent(c, s, result)
       PROVE  Step(call[c], call'[c]) /\ \A d \in Calls \ {c} : call'[d] = call[d]
  <2>1. CASE call[c].phase = "waiting"
    <3>1. call[c].run = "ended" /\ Stage(call[c]) = "waiting"
      BY <1>1, <1>11, <2>1 DEF ChatEvent, Stage
    <3> QED BY <1>3, <1>11, <2>1, <3>1, EndedStage DEF ChatEvent, Ends, Step, Results
  <2>2. CASE call[c].phase # "waiting"
    <3> DEFINE x == [call[c] EXCEPT !.news = @ \ {s}]
    <3>1. call' = [call EXCEPT ![c] = x]
      BY <1>1, <1>11, <2>2 DEF ChatEvent
    <3>2. x.phase = call[c].phase /\ x.run = call[c].run /\ x.result = call[c].result
      BY <1>1 DEF Call
    <3> HIDE DEF x
    <3> QED BY <1>1, <3>1, <3>2 DEF Step, Stage
  <2> QED BY <2>1, <2>2
<1> QED BY <1>4, <1>5, <1>6, <1>7, <1>8, <1>9, <1>10, <1>11 DEF WebSocketCall

\* A step of the client is a step of the contract, or none.
LEMMA NextMaps == IInv /\ [Next]_vars => [Contract!Next]_(Contract!vars)
<1>1. ASSUME IInv, Next PROVE Contract!Next
  <2>1. \A c \in Calls : Step(call[c], call'[c])
    BY <1>1, HandshakeSteps, SocketSteps, CallSteps DEF Next
  <2> QED BY <2>1, StepMaps
<1>2. ASSUME UNCHANGED vars PROVE UNCHANGED Contract!vars
  BY <1>2 DEF vars, Contract!vars
<1> QED BY <1>1, <1>2

\* The initial states of the client are initial states of the contract.
LEMMA InitMaps == Init => Contract!Init
  BY DEF Init, Contract!Init, NoCall

\* Whatever sockets and attempts do, process() sees a client that keeps its contract: sendChat
\* resolves only if the run exists, the agent's text comes from a run that has ended, and an
\* error reaches a waiter only.
THEOREM ContractKept == Spec => CallsKept
<1>1. Spec => Init /\ [][Next]_vars /\ []IInv
  BY InvariantHolds DEF Spec
<1>2. Init /\ [][Next]_vars /\ []IInv => CallsKept
  BY InitMaps, NextMaps, PTL DEF CallsKept, Contract!Spec
<1> QED BY <1>1, <1>2
=============================================================================
