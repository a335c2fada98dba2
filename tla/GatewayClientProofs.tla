------------------------- MODULE GatewayClientProofs -------------------------
(***************************************************************************)
(* Theorems about GatewayClient, for every number of calls and sockets,    *)
(* every deployment and every number of mishaps.                           *)
(*                                                                         *)
(* They rest on IInv of GatewayClient: TypeOK first (TypeInductive), then  *)
(* the other parts, which are about different pairs of variables.  The     *)
(* steps of the client go through few helpers (AttemptFails, Flush,        *)
(* EnsureConnected ...), so each helper has its lemma.                     *)
(***************************************************************************)
EXTENDS GatewayClient, SequenceTheorems, TLAPS

-----------------------------------------------------------------------------
(* Type correctness.                                                       *)

Results == {"none", "final", "error", "timeout", "failed"}

\* A call that is over, or not begun, is a call.
LEMMA EndedType ==
  /\ NoCall \in Call
  /\ \A result \in Results : Ended(result) \in Call
  BY DEF NoCall, Ended, Call, CallPhases, Results

\* So is a call that stands at its POST, or that has tried to send its request on this.ws.
LEMMA RequestType ==
  ASSUME TypeOK, NEW call_ \in Call
  PROVE  Posting(call_) \in Call /\ Request(call_) \in Call
<1>1. Posting(call_) \in Call
  BY DEF Posting, Call, CallPhases
<1>2. CASE Open(ws)
  <2>1. ws \in Slots \cup {None}
    BY DEF TypeOK
  <2>2. [call_ EXCEPT !.phase = "requested"] \in Call
    BY DEF Call, CallPhases
  <2>3. [call_ EXCEPT !.phase = "requested", !.on = ws] \in Call
    BY <2>1, <2>2 DEF Call
  <2> QED BY <1>1, <1>2, <2>3 DEF Request
<1>3. CASE ~Open(ws)
  BY <1>1, <1>3, EndedType DEF Request, Results
<1> QED BY <1>1, <1>2, <1>3

\* What the end of an attempt makes of a call is a call.
LEMMA ResumedType ==
  ASSUME TypeOK, NEW c \in Calls, NEW ok \in BOOLEAN
  PROVE  Resumed(c, ok) \in Call
<1>1. call[c] \in Call
  BY DEF TypeOK
<1> QED BY <1>1, RequestType, EndedType DEF Resumed, Results

\* What a flush makes of a call is a call.
LEMMA FlushedType ==
  ASSUME TypeOK, NEW c \in Calls, NEW lost
  PROVE  FlushedCall(c, lost) \in Call
<1>1. call[c] \in Call /\ Resumed(c, FALSE) \in Call /\ Ended("failed") \in Call
  BY ResumedType, EndedType DEF Results, TypeOK
<1> QED BY <1>1 DEF FlushedCall

\* An attempt that is none is an attempt.
LEMMA NoAttemptType == NoAttempt \in Attempt
  BY DEF NoAttempt, Attempt

\* The end of an attempt keeps the types of the client's fields: one that failed,
LEMMA AttemptFailsType ==
  ASSUME TypeOK, NEW a \in Slots, AttemptFails(a)
  PROVE  /\ attempt' \in [Slots -> Attempt] /\ call' \in [Calls -> Call]
         /\ connectPromise' \in Slots \cup {None, Settled}
         /\ UNCHANGED <<config, ws, connected>>
<1>1. attempt' \in [Slots -> Attempt]
  BY NoAttemptType DEF TypeOK, AttemptFails
<1>2. \A c \in Calls : call[c] \in Call /\ Resumed(c, FALSE) \in Call
  BY ResumedType DEF TypeOK
<1>3. call' \in [Calls -> Call]
  BY <1>2 DEF AttemptFails
<1>4. connectPromise' \in Slots \cup {None, Settled}
  BY DEF TypeOK, AttemptFails
<1> QED BY <1>1, <1>3, <1>4 DEF AttemptFails

\* and one that succeeded.
LEMMA AttemptSucceedsType ==
  ASSUME TypeOK, NEW a \in Slots, AttemptSucceeds(a)
  PROVE  /\ attempt' \in [Slots -> Attempt] /\ call' \in [Calls -> Call]
         /\ connectPromise' \in Slots \cup {None, Settled} /\ connected' \in BOOLEAN
         /\ UNCHANGED <<config, ws, challengers>>
<1>1. attempt' \in [Slots -> Attempt]
  BY NoAttemptType DEF TypeOK, AttemptSucceeds
<1>2. \A c \in Calls : call[c] \in Call /\ Resumed(c, TRUE) \in Call
  BY ResumedType DEF TypeOK
<1>3. call' \in [Calls -> Call]
  BY <1>2 DEF AttemptSucceeds
<1>4. connectPromise' \in Slots \cup {None, Settled} /\ connected' \in BOOLEAN
  BY DEF TypeOK, AttemptSucceeds
<1> QED BY <1>1, <1>3, <1>4 DEF AttemptSucceeds

\* A flush, as of a close event, keeps them too.
LEMMA FlushType ==
  ASSUME TypeOK, NEW lost, Flush(lost)
  PROVE  /\ attempt' \in [Slots -> Attempt] /\ connected' \in BOOLEAN
         /\ connectPromise' \in Slots \cup {None, Settled} /\ challengers' \in Seq(Slots)
<1>1. \A a \in Slots : attempt[a] \in Attempt
  BY DEF TypeOK
<1>2. attempt' \in [Slots -> Attempt]
  BY <1>1, NoAttemptType DEF Flush
<1>3. <<>> \in Seq(Slots)
  OBVIOUS
<1> QED BY <1>2, <1>3 DEF Flush

\* pending without one entry is still a sequence of slots.
LEMMA UnregisteredType ==
  ASSUME TypeOK, NEW a \in Slots
  PROVE  Unregistered(a) \in Seq(Slots)
<1>1. challengers \in Seq(Slots)
  BY DEF TypeOK
<1>2. CASE \E i \in 1..Len(challengers) : challengers[i] = a
  <2> DEFINE i == CHOOSE j \in 1..Len(challengers) : challengers[j] = a
  <2>1. i \in 1..Len(challengers)
    BY <1>2
  <2> HIDE DEF i
  <2>2. /\ SubSeq(challengers, 1, i - 1) \in Seq(Slots)
        /\ SubSeq(challengers, i + 1, Len(challengers)) \in Seq(Slots)
    BY <1>1, <2>1
  <2>3. SubSeq(challengers, 1, i - 1) \o SubSeq(challengers, i + 1, Len(challengers)) \in Seq(Slots)
    BY <2>2
  <2> QED BY <1>2, <2>3 DEF Unregistered, i
<1>3. CASE ~\E i \in 1..Len(challengers) : challengers[i] = a
  BY <1>1, <1>3 DEF Unregistered
<1> QED BY <1>2, <1>3

\* sendChat up to its first await keeps the types, whichever way it goes.
LEMMA EnsureConnectedType ==
  ASSUME TypeOK, NEW c \in Calls, NEW phase \in {"connecting", "stage"}, NEW command \in BOOLEAN,
         EnsureConnected(c, phase, command)
  PROVE  /\ ws' \in Slots \cup {None} /\ connectPromise' \in Slots \cup {None, Settled}
         /\ attempt' \in [Slots -> Attempt] /\ call' \in [Calls -> Call]
         /\ sock' \in [Slots -> {"none", "connecting", "open", "closing", "terminated"}]
         /\ UNCHANGED <<config, connected, challengers>>
<1> DEFINE at(a) == [NoCall EXCEPT !.phase = phase, !.on = a, !.command = command]
<1>1. \A a \in Slots \cup {None} : at(a) \in Call
  BY DEF NoCall, Call, CallPhases
<1>2. /\ Posting(at(None)) \in Call /\ Request(at(None)) \in Call /\ Ended("failed") \in Call
  BY <1>1, RequestType, EndedType DEF Results
<1> HIDE DEF at
<1>3. ASSUME NEW a \in Slots, Connect(a)
      PROVE  /\ ws' \in Slots \cup {None} /\ connectPromise' \in Slots \cup {None, Settled}
             /\ attempt' \in [Slots -> Attempt]
             /\ sock' \in [Slots -> {"none", "connecting", "open", "closing", "terminated"}]
  <2>1. /\ attempt[a] \in Attempt /\ attempt \in [Slots -> Attempt]
        /\ sock \in [Slots -> {"none", "connecting", "open", "closing", "terminated"}]
    BY DEF TypeOK
  <2>2. [attempt[a] EXCEPT !.phase = "opening"] \in Attempt
    BY <2>1 DEF Attempt
  <2> QED BY <1>3, <2>1, <2>2 DEF Connect
<1>4. /\ ws \in Slots \cup {None} /\ connectPromise \in Slots \cup {None, Settled}
      /\ attempt \in [Slots -> Attempt] /\ call \in [Calls -> Call]
      /\ sock \in [Slots -> {"none", "connecting", "open", "closing", "terminated"}]
  BY DEF TypeOK
<1>5. CASE UNCHANGED <<client, sock>>
  <2>1. \E x \in Call : call' = [call EXCEPT ![c] = x]
    <3>1. /\ Posting([NoCall EXCEPT !.phase = phase, !.on = None, !.command = command]) \in Call
          /\ Request([NoCall EXCEPT !.phase = phase, !.on = None, !.command = command]) \in Call
      BY <1>2 DEF at
    <3>2. \A a \in Slots : [NoCall EXCEPT !.phase = phase, !.on = a, !.command = command] \in Call
      BY <1>1 DEF at
    <3> QED BY <1>2, <3>1, <3>2 DEF EnsureConnected
  <2> QED BY <1>4, <1>5, <2>1 DEF client
<1>6. CASE \E a \in Slots : Connect(a) /\ call' = [call EXCEPT ![c] = at(a)] /\ UNCHANGED <<config, connected, challengers>>
  BY <1>1, <1>3, <1>4, <1>6
<1> QED BY <1>5, <1>6 DEF EnsureConnected, at

\* So does sendChatViaHttpResponses up to its first await.
LEMMA BeginHttpType ==
  ASSUME TypeOK, NEW c \in Calls, NEW command \in BOOLEAN, BeginHttp(c, command)
  PROVE  /\ ws' \in Slots \cup {None} /\ connectPromise' \in Slots \cup {None, Settled}
         /\ attempt' \in [Slots -> Attempt] /\ call' \in [Calls -> Call]
         /\ sock' \in [Slots -> {"none", "connecting", "open", "closing", "terminated"}]
         /\ UNCHANGED <<config, connected, challengers>>
<1>1. [NoCall EXCEPT !.command = command] \in Call
  BY DEF NoCall, Call, CallPhases
<1>2. Posting([NoCall EXCEPT !.command = command]) \in Call /\ Ended("failed") \in Call
  BY <1>1, RequestType, EndedType DEF Results
<1> QED BY <1>2, EnsureConnectedType DEF BeginHttp, TypeOK, client

\* Mishaps are counted at most.
LEMMA MishapType ==
  ASSUME TypeOK, Mishap \/ UNCHANGED mishaps
  PROVE  mishaps' \in Nat
  BY DEF TypeOK, Mishap

\* The initial states are well typed.
LEMMA TypeInitial == Init => TypeOK
<1> SUFFICES ASSUME Init PROVE TypeOK
  OBVIOUS
<1>1. challengers \in Seq(Slots)
  BY DEF Init
<1> QED BY <1>1, NoAttemptType, EndedType DEF Init, TypeOK

\* The steps of the handshake keep the types.
LEMMA HandshakeType ==
  ASSUME TypeOK, NEW s \in Slots, Handshake(s)
  PROVE  TypeOK'
<1> USE DEF client, sockets
<1>1. attempt \in [Slots -> Attempt] /\ attempt[s] \in Attempt /\ challengers \in Seq(Slots)
  BY DEF TypeOK
<1>2. [attempt EXCEPT ![s].phase = "challenge"] \in [Slots -> Attempt]
  BY <1>1 DEF Attempt
<1>3. CASE Opened(s)
  <2>1. challengers' \in Seq(Slots) /\ attempt' \in [Slots -> Attempt]
    <3>1. Append(challengers, s) \in Seq(Slots)
      BY <1>1
    <3> QED BY <1>1, <1>2, <1>3, <3>1 DEF Opened
  <2> QED BY <1>3, <2>1 DEF Opened, TypeOK
<1>4. CASE OpenedWithChallenge(s)
  <2>1. challengers' \in Seq(Slots) /\ attempt' \in [Slots -> Attempt]
    BY <1>2, <1>4 DEF OpenedWithChallenge
  <2> QED BY <1>4, <2>1, MishapType DEF OpenedWithChallenge, TypeOK
<1>5. CASE Challenged(s)
  <2>1. CASE challengers = <<>>
    BY <1>5, <2>1 DEF Challenged, TypeOK
  <2>2. CASE challengers # <<>>
    <3> DEFINE a == Head(challengers)
    <3>1. a \in Slots /\ Tail(challengers) \in Seq(Slots)
      BY <1>1, <2>2
    <3>2. challengers' \in Seq(Slots) /\ nonce' \in [Slots -> BOOLEAN] /\ UNCHANGED <<sock, greeted>>
      BY <1>5, <2>2, <3>1 DEF Challenged, TypeOK
    <3>3. CASE MishapIf(Open(ws)) /\ AttemptFails(a)
      BY <3>1, <3>2, <3>3, AttemptFailsType, MishapType DEF MishapIf, TypeOK
    <3>4. CASE /\ attempt' = [attempt EXCEPT ![a] = [phase |-> "hello", via |-> ws, answers |-> s]]
               /\ UNCHANGED <<config, ws, connected, connectPromise, call, mishaps>>
      <4>1. [phase |-> "hello", via |-> ws, answers |-> s] \in Attempt
        BY DEF TypeOK, Attempt
      <4>2. attempt' \in [Slots -> Attempt]
        BY <1>1, <3>4, <4>1
      <4> QED BY <3>2, <3>4, <4>2 DEF TypeOK
    <3> QED BY <1>5, <2>2, <3>3, <3>4 DEF Challenged
  <2> QED BY <2>1, <2>2
<1>6. CASE Greets(s)
  <2>1. greeted' \in [Slots -> BOOLEAN]
    BY <1>6 DEF Greets, TypeOK
  <2> QED BY <1>6, <2>1 DEF Greets, TypeOK
<1>7. CASE HelloOk(s)
  BY <1>7, AttemptSucceedsType DEF HelloOk, TypeOK
<1>8. CASE HelloRefused(s)
  <2>1. mishaps' \in Nat
    BY <1>8, MishapType DEF HelloRefused, MishapIf
  <2> QED BY <1>8, <2>1, AttemptFailsType DEF HelloRefused, TypeOK
<1>9. CASE HandshakeTimeout(s) \/ ChallengeOverdue(s)
  <2>1. mishaps' \in Nat /\ challengers' \in Seq(Slots)
    BY <1>9, MishapType, UnregisteredType DEF HandshakeTimeout, ChallengeOverdue
  <2> QED BY <1>9, <2>1, AttemptFailsType DEF HandshakeTimeout, ChallengeOverdue, TypeOK
<1> QED BY <1>3, <1>4, <1>5, <1>6, <1>7, <1>8, <1>9 DEF Handshake

\* So do the ends of sockets.
LEMMA SocketType ==
  ASSUME TypeOK, NEW s \in Slots, GatewayCloses(s) \/ Closed(s)
  PROVE  TypeOK'
<1>1. CASE GatewayCloses(s)
  <2>1. sock' \in [Slots -> {"none", "connecting", "open", "closing", "terminated"}]
    BY <1>1 DEF GatewayCloses, TypeOK
  <2>2. mishaps' \in Nat
    BY <1>1, MishapType DEF GatewayCloses, MishapIf
  <2> QED BY <1>1, <2>1, <2>2 DEF GatewayCloses, TypeOK, client
<1>2. CASE Closed(s)
  <2> DEFINE lost == Flushed \cup {a \in {s} : attempt[a].phase = "opening"}
  <2>1. Flush(lost) /\ call' = [c \in Calls |-> [FlushedCall(c, lost) EXCEPT !.news = @ \ {s}]]
    BY <1>2 DEF Closed
  <2> HIDE DEF lost
  <2>2. ASSUME NEW c \in Calls PROVE [FlushedCall(c, lost) EXCEPT !.news = @ \ {s}] \in Call
    <3>1. FlushedCall(c, lost) \in Call
      BY FlushedType
    <3> QED BY <3>1 DEF Call
  <2>3. call' \in [Calls -> Call]
    BY <2>1, <2>2
  <2>4. /\ sock' \in [Slots -> {"none", "connecting", "open", "closing", "terminated"}]
        /\ nonce' \in [Slots -> BOOLEAN] /\ greeted' \in [Slots -> BOOLEAN]
    BY <1>2 DEF Closed, TypeOK
  <2> QED BY <1>2, <2>1, <2>3, <2>4, FlushType DEF Closed, TypeOK
<1> QED BY <1>1, <1>2

\* So does close().
LEMMA CloseType ==
  ASSUME TypeOK, Close
  PROVE  TypeOK'
<1>1. Flush(Flushed) /\ mishaps' \in Nat
  BY MishapType DEF Close
<1>2. \A c \in Calls : FlushedCall(c, Flushed) \in Call /\ Ended("error") \in Call
  BY FlushedType, EndedType DEF Results
<1>3. call' \in [Calls -> Call]
  BY <1>2 DEF Close
<1>4. sock' \in [Slots -> {"none", "connecting", "open", "closing", "terminated"}]
  BY DEF Close, TypeOK
<1> QED BY <1>1, <1>3, <1>4, FlushType DEF Close, TypeOK

\* So do the steps of a call.
LEMMA CallType ==
  ASSUME TypeOK, NEW c \in Calls
  PROVE  /\ \A command \in BOOLEAN : SendChat(c, command) => TypeOK'
         /\ Taken(c) \/ WebSocketCall(c) \/ HttpCall(c) \/ Run(c) => TypeOK'
<1> USE DEF client, sockets
<1>1. call[c] \in Call /\ call \in [Calls -> Call]
  BY DEF TypeOK
<1>2. ASSUME call' \in [Calls -> Call], UNCHANGED <<client, sockets>>, Mishap \/ UNCHANGED mishaps
      PROVE  TypeOK'
  BY <1>2, MishapType DEF TypeOK
<1>3. ASSUME NEW result \in Results, Ends(c, result), Mishap \/ UNCHANGED mishaps
      PROVE  TypeOK'
  <2>1. call' \in [Calls -> Call]
    BY <1>1, <1>3, EndedType DEF Ends
  <2> QED BY <1>2, <1>3, <2>1 DEF Ends
<1>4. ASSUME NEW command \in BOOLEAN, SendChat(c, command) PROVE TypeOK'
  BY <1>4, BeginHttpType, EnsureConnectedType DEF SendChat, TypeOK
<1>5. CASE Taken(c)
  <2>1. call' \in [Calls -> Call]
    BY <1>1, <1>5, EndedType DEF Taken
  <2> QED BY <1>2, <1>5, <2>1 DEF Taken
<1>6. CASE Run(c)
  <2>1. /\ [call[c] EXCEPT !.run = "started"] \in Call
        /\ [call[c] EXCEPT !.run = "refused"] \in Call
    BY <1>1 DEF Call
  <2>2. ASSUME NEW news \in SUBSET Slots
        PROVE  [call[c] EXCEPT !.run = "ended", !.news = news] \in Call
    <3>1. [call[c] EXCEPT !.run = "ended"] \in Call
      BY <1>1 DEF Call
    <3> QED BY <1>1, <3>1 DEF Call
  <2>3. CASE RunStarts(c) \/ RequestRefused(c)
    <3>1. call' \in [Calls -> Call]
      BY <1>1, <2>1, <2>3 DEF RunStarts, RequestRefused
    <3> QED BY <1>2, <2>3, <3>1 DEF RunStarts, RequestRefused
  <2>4. CASE RunEnds(c)
    <3>1. PICK news \in SUBSET Slots : call' = [call EXCEPT ![c].run = "ended", ![c].news = news]
      BY <2>4 DEF RunEnds
    <3>2. call' = [call EXCEPT ![c] = [call[c] EXCEPT !.run = "ended", !.news = news]]
      BY <1>1, <3>1
    <3>3. call' \in [Calls -> Call]
      BY <1>1, <2>2, <3>2
    <3> QED BY <1>2, <2>4, <3>3 DEF RunEnds
  <2> QED BY <1>6, <2>3, <2>4 DEF Run
<1>7. CASE HttpCall(c)
  BY <1>3, <1>7 DEF HttpCall, PostReplied, PostAborted, PostFails, MishapIf, Results
<1>8. CASE WebSocketCall(c)
  <2>1. CASE ChatSendOk(c)
    <3>1. /\ [call[c] EXCEPT !.phase = "waiting", !.on = None] \in Call
          /\ [call[c] EXCEPT !.phase = "waiting", !.on = None, !.news = @ \ {call[c].on}] \in Call
      <4>1. [call[c] EXCEPT !.phase = "waiting"] \in Call
        BY <1>1 DEF Call, CallPhases
      <4>2. [call[c] EXCEPT !.phase = "waiting", !.on = None] \in Call
        BY <4>1 DEF Call
      <4> QED BY <4>2 DEF Call
    <3>2. \/ call' = [call EXCEPT ![c] = [call[c] EXCEPT !.phase = "waiting", !.on = None]]
          \/ call' = [call EXCEPT ![c] = [call[c] EXCEPT !.phase = "waiting", !.on = None,
                                                         !.news = @ \ {call[c].on}]]
      BY <1>1, <2>1 DEF ChatSendOk
    <3>3. call' \in [Calls -> Call]
      BY <1>1, <3>1, <3>2
    <3> QED BY <1>2, <2>1, <3>3 DEF ChatSendOk
  <2>2. CASE ChatSendRefused(c)
    <3>1. CASE Ends(c, "failed")
      BY <1>3, <2>2, <3>1 DEF ChatSendRefused, Results
    <3>2. CASE BeginHttp(c, FALSE)
      <4>1. nonce' = nonce /\ greeted' = greeted /\ mishaps' = mishaps
        BY <2>2, <3>2 DEF ChatSendRefused, Ends
      <4> QED BY <3>2, <4>1, BeginHttpType DEF TypeOK
    <3> QED BY <2>2, <3>1, <3>2 DEF ChatSendRefused
  <2>3. CASE RequestTimeout(c) \/ TerminalTimeout(c)
    BY <1>3, <2>3 DEF RequestTimeout, TerminalTimeout, Results
  <2>4. ASSUME NEW s \in Slots, NEW result \in {"final", "error"}, ChatEvent(c, s, result)
        PROVE  TypeOK'
    <3>1. [call[c] EXCEPT !.news = @ \ {s}] \in Call /\ Ended(result) \in Call
      BY <1>1, EndedType DEF Call, Results
    <3>2. call' \in [Calls -> Call]
      BY <1>1, <2>4, <3>1 DEF ChatEvent
    <3> QED BY <1>2, <2>4, <3>2 DEF ChatEvent
  <2> QED BY <1>8, <2>1, <2>2, <2>3, <2>4 DEF WebSocketCall
<1> QED BY <1>4, <1>5, <1>6, <1>7, <1>8

\* Every step of the client and of the gateway keeps the types.
LEMMA TypeInductive == TypeOK /\ [Next]_vars => TypeOK'
<1>1. TypeOK /\ UNCHANGED vars => TypeOK'
  BY DEF TypeOK, vars, client, sockets
<1> QED BY <1>1, HandshakeType, SocketType, CloseType, CallType DEF Next

\* Every variable keeps its type: in particular connectPromise and the sockets that attempts
\* and calls refer to are slots, however often slots are used again.
THEOREM TypeCorrect == Spec => []TypeOK
  BY TypeInitial, TypeInductive, PTL DEF Spec

-----------------------------------------------------------------------------
(* The parts of IInv that are about calls, as a predicate on one call.     *)

Live == {"open", "closing", "terminated"}

Sound(x) ==
    /\ x.phase = "requested" => x.on \in Slots /\ sock[x.on] \in Live /\ (Open(x.on) => greeted[x.on])
    /\ x.phase \in {"connecting", "stage"} => x.on \in Slots /\ attempt[x.on].phase # "none"
    /\ IF x.phase # "idle" THEN x.result = "none" ELSE x = Ended(x.result)
    /\ x.news # {} => x.run = "ended"

CallsSound == \A c \in Calls : Sound(call[c])

\* CallInv, NoForgottenCall and SentAfterHello together say that each call is sound.
LEMMA SoundMeans == CallInv /\ NoForgottenCall /\ SentAfterHello <=> CallsSound
  BY DEF CallInv, NoForgottenCall, SentAfterHello, CallsSound, Sound, UnderWay, Live

\* And in the next state.
LEMMA SoundMeansNext == (CallInv /\ NoForgottenCall /\ SentAfterHello)' <=> CallsSound'
  BY SoundMeans, PTL

\* The invariant in terms of sound calls.
LEMMA InvMeans ==
  ASSUME IInv
  PROVE  TypeOK /\ ChallengersInv /\ AttemptInv /\ ConnectedInv /\ PromiseInv /\ CallsSound
  BY SoundMeans DEF IInv

\* The invariant follows from its parts in those terms, in the next state.
LEMMA InvNext ==
  ASSUME TypeOK', ChallengersInv', AttemptInv', ConnectedInv', PromiseInv', CallsSound'
  PROVE  IInv'
  BY SoundMeansNext DEF IInv

\* A call under way without a result, at the POST, is sound wherever the sockets are.
Fresh(x) == x \in Call /\ x.phase # "idle" /\ x.result = "none" /\ (x.news # {} => x.run = "ended")

\* A call that has not begun is one that has left no result.
LEMMA NoCallEnded == NoCall = Ended("none")
<1>1. \A x \in Call : x = [x EXCEPT !.result = x.result]
  BY DEF Call
<1>2. NoCall.result = "none"
  BY DEF NoCall
<1> QED BY <1>1, <1>2, EndedType DEF Ended

\* A call that is over is sound, also in the next state.
LEMMA EndedSound == \A result \in Results : Sound(Ended(result)) /\ Sound(Ended(result))'
  BY DEF Sound, Ended, NoCall

\* A call that goes on to its POST is sound, wherever it came from.
LEMMA PostingSound ==
  ASSUME NEW x, Fresh(x)
  PROVE  Sound(Posting(x))'
  BY DEF Sound, Posting, Fresh, Call

\* A request goes out on a socket that is open and greeted, or ends at once.
LEMMA RequestSound ==
  ASSUME NEW x, Fresh(x), TypeOK, Open(ws) => greeted[ws], UNCHANGED <<sock, greeted>>,
         NEW y, y = Request(x)
  PROVE  Sound(y)'
<1>1. CASE Open(ws)
  <2>1. y = [x EXCEPT !.phase = "requested", !.on = ws]
    BY <1>1 DEF Request
  <2>2. /\ y.phase = "requested" /\ y.on = ws /\ y.result = "none"
        /\ (y.news # {} => y.run = "ended")
    BY <2>1 DEF Fresh, Call
  <2>3. ws \in Slots /\ sock[ws] = "open" /\ greeted[ws]
    BY <1>1 DEF Open, TypeOK
  <2> QED BY <2>2, <2>3 DEF Sound, Live, Open
<1>2. CASE ~Open(ws)
  BY <1>2, EndedSound DEF Request, Results
<1> QED BY <1>1, <1>2

\* What no step does to a socket but its close event.
SocketsKept ==
    \A s \in Slots : /\ sock[s] \in Live => sock'[s] \in Live /\ (sock'[s] = "open" => sock[s] = "open")
                     /\ greeted[s] => greeted'[s]

\* A call that does not change stays sound, if the attempt it awaits is still under way.
LEMMA StaysSound ==
  ASSUME NEW x, Sound(x), SocketsKept,
         x.phase \in {"connecting", "stage"} => attempt'[x.on].phase # "none"
  PROVE  Sound(x)'
  BY DEF Sound, SocketsKept, Open, Live

\* Nor does it matter which chat events are on their way, once its run has ended.
LEMMA NewsSound ==
  ASSUME NEW x \in Call, NEW s
  PROVE  /\ Sound(x) => Sound([x EXCEPT !.news = @ \ {s}])
         /\ Sound(x)' => Sound([x EXCEPT !.news = @ \ {s}])'
<1> DEFINE y == [x EXCEPT !.news = @ \ {s}]
<1>1. /\ y.phase = x.phase /\ y.on = x.on /\ y.run = x.run /\ y.result = x.result
      /\ y.news = x.news \ {s}
  BY DEF Call
<1>2. ASSUME x = Ended(x.result) PROVE y = Ended(x.result)
  <2>1. x.news = {}
    BY <1>2 DEF Ended, NoCall
  <2> QED BY <1>2, <2>1 DEF Call
<1> HIDE DEF y
<1>3. Sound(x) => Sound(y)
  BY <1>1, <1>2 DEF Sound
<1>4. Sound(x)' => Sound(y)'
  BY <1>1, <1>2 DEF Sound
<1> QED BY <1>3, <1>4 DEF y

-----------------------------------------------------------------------------
(* What the helpers do to the invariant.                                   *)

\* The end of an attempt that failed, wherever it was: sockets stay as they are.
LEMMA AttemptFailsKeeps ==
  ASSUME IInv, NEW a \in Slots, AttemptFails(a), UNCHANGED <<sock, greeted>>
  PROVE  AttemptInv' /\ ConnectedInv' /\ PromiseInv' /\ CallsSound'
<1> USE InvMeans
<1>1. /\ attempt'[a].phase = "none" /\ \A b \in Slots \ {a} : attempt'[b] = attempt[b]
      /\ UNCHANGED <<ws, connected>>
  BY DEF AttemptFails, NoAttempt, TypeOK
<1>2. AttemptInv'
  BY <1>1 DEF AttemptInv, Open
<1>3. ConnectedInv'
  BY <1>1 DEF ConnectedInv, Open
<1>4. PromiseInv'
  <2>1. CASE ~connected
    BY <2>1, SlotNumbers DEF AttemptFails, PromiseInv, None, Settled
  <2>2. CASE connected
    BY <1>1, <2>2, SlotNumbers DEF AttemptFails, PromiseInv
  <2> QED BY <2>1, <2>2
<1>5. ASSUME NEW c \in Calls PROVE Sound(call[c])'
  <2>1. call[c] \in Call /\ Sound(call[c])
    BY DEF TypeOK, CallsSound
  <2>2. CASE Awaits(c, a)
    <3>1. call'[c] = Resumed(c, FALSE) /\ Fresh(call[c])
      BY <2>1, <2>2 DEF AttemptFails, Awaits, Sound, Fresh
    <3>2. \/ call'[c] = Posting(call[c])
          \/ call'[c] = Ended("failed")
      BY <3>1 DEF Resumed
    <3> QED BY <3>1, <3>2, PostingSound, EndedSound DEF Results
  <2>3. CASE ~Awaits(c, a)
    <3>1. call'[c] = call[c]
      BY <2>3 DEF AttemptFails
    <3>2. call[c].phase \in {"connecting", "stage"} => attempt'[call[c].on].phase # "none"
      BY <1>1, <2>1, <2>3 DEF Awaits, Sound
    <3>3. SocketsKept
      BY DEF SocketsKept
    <3> QED BY <2>1, <3>1, <3>2, <3>3, StaysSound
  <2> QED BY <2>2, <2>3
<1> QED BY <1>2, <1>3, <1>4, <1>5 DEF CallsSound

\* connect() returned: hello-ok arrived on a greeted socket, which is this.ws.
LEMMA HelloOkKeeps ==
  ASSUME IInv, TypeOK', NEW a \in Slots, HelloOk(a)
  PROVE  IInv'
<1> USE InvMeans DEF sockets
<1>1. /\ attempt[a].phase = "hello" /\ attempt'[a].phase = "none" /\ connected'
      /\ \A b \in Slots \ {a} : attempt'[b] = attempt[b]
      /\ UNCHANGED <<ws, challengers, sock, greeted>>
  BY DEF HelloOk, AttemptSucceeds, NoAttempt, TypeOK
<1>2. ws \in Slots /\ sock[ws] = "open" /\ greeted[ws]
  BY DEF HelloOk, AttemptInv, Open
<1>3. ChallengersInv'
  BY <1>1 DEF ChallengersInv
<1>4. AttemptInv'
  BY <1>1 DEF AttemptInv, Open
<1>5. ConnectedInv'
  BY <1>1, <1>2, SlotNumbers DEF ConnectedInv, Open
<1>6. PromiseInv'
  BY <1>1, SlotNumbers DEF PromiseInv, HelloOk, AttemptSucceeds
<1>7. ASSUME NEW c \in Calls PROVE Sound(call[c])'
  <2>1. call[c] \in Call /\ Sound(call[c])
    BY DEF TypeOK, CallsSound
  <2>2. CASE Awaits(c, a)
    <3>1. call'[c] = Resumed(c, TRUE) /\ Fresh(call[c])
      BY <2>1, <2>2 DEF HelloOk, AttemptSucceeds, Awaits, Sound, Fresh
    <3>2. CASE call[c].phase = "stage"
      BY <3>1, <3>2, PostingSound DEF Resumed
    <3>3. CASE call[c].phase # "stage"
      BY <1>1, <1>2, <3>1, <3>3, RequestSound DEF Resumed
    <3> QED BY <3>2, <3>3
  <2>3. CASE ~Awaits(c, a)
    <3>1. call'[c] = call[c]
      BY <2>3 DEF HelloOk, AttemptSucceeds
    <3>2. call[c].phase \in {"connecting", "stage"} => attempt'[call[c].on].phase # "none"
      BY <1>1, <2>1, <2>3 DEF Awaits, Sound
    <3>3. SocketsKept
      BY <1>1 DEF SocketsKept
    <3> QED BY <2>1, <3>1, <3>2, <3>3, StaysSound
  <2> QED BY <2>2, <2>3
<1>8. CallsSound'
  BY <1>7 DEF CallsSound
<1> QED BY <1>3, <1>4, <1>5, <1>6, <1>8, InvNext

\* The entry of a timer that has fired leaves pending, and no other.
LEMMA UnregisteredKeeps ==
  ASSUME TypeOK, ChallengersInv, NEW a \in Slots,
         challengers' = Unregistered(a), attempt'[a].phase # "challenge",
         \A b \in Slots \ {a} : attempt'[b] = attempt[b]
  PROVE  ChallengersInv'
<1>1. challengers \in Seq(Slots)
  BY DEF TypeOK
<1>2. CASE \E i \in 1..Len(challengers) : challengers[i] = a
  <2> DEFINE k == CHOOSE j \in 1..Len(challengers) : challengers[j] = a
             n == Len(challengers)
  <2>1. k \in 1..n /\ challengers[k] = a
    BY <1>2
  <2>2. challengers' = SubSeq(challengers, 1, k - 1) \o SubSeq(challengers, k + 1, n)
    BY <1>2 DEF Unregistered
  <2> HIDE DEF k
  <2> DEFINE before == SubSeq(challengers, 1, k - 1)
             after  == SubSeq(challengers, k + 1, n)
  <2>3. /\ before \in Seq(Slots) /\ Len(before) = k - 1
        /\ after \in Seq(Slots) /\ Len(after) = n - k
        /\ \A i \in 1..(k - 1) : before[i] = challengers[i]
        /\ \A i \in 1..(n - k) : after[i] = challengers[i + k]
    BY <1>1, <2>1
  <2>4. /\ Len(challengers') = n - 1
        /\ \A i \in 1..(n - 1) : challengers'[i] = IF i < k THEN challengers[i] ELSE challengers[i + 1]
    <3> challengers' = before \o after
      BY <2>2
    <3> HIDE DEF before, after
    <3>1. /\ Len(challengers') = n - 1
          /\ \A i \in 1..(n - 1) : challengers'[i] = IF i <= k - 1 THEN before[i] ELSE after[i - (k - 1)]
      BY <1>1, <2>1, <2>3, ConcatProperties
    <3>2. ASSUME NEW i \in 1..(n - 1), ~(i < k) PROVE after[i - (k - 1)] = challengers[i + 1]
      <4>1. i - (k - 1) \in 1..(n - k) /\ (i - (k - 1)) + k = i + 1
        BY <1>1, <2>1, <3>2
      <4> QED BY <2>3, <4>1
    <3> QED BY <1>1, <2>1, <2>3, <3>1, <3>2
  <2>5. \A i, j \in 1..n : challengers[i] = challengers[j] => i = j
    BY DEF ChallengersInv
  <2>6. \A i, j \in 1..Len(challengers') : challengers'[i] = challengers'[j] => i = j
    BY <1>1, <2>1, <2>4, <2>5
  <2>7. ASSUME NEW b \in Slots
        PROVE  (\E i \in 1..Len(challengers') : challengers'[i] = b)
                  <=> b # a /\ \E i \in 1..n : challengers[i] = b
    <3>1. ASSUME NEW i \in 1..n, challengers[i] = b, b # a
          PROVE  \E j \in 1..(n - 1) : challengers'[j] = b
      <4>1. CASE i < k
        BY <1>1, <2>1, <2>4, <3>1, <4>1
      <4>2. CASE i > k
        <5>1. i - 1 \in 1..(n - 1) /\ ~(i - 1 < k) /\ (i - 1) + 1 = i
          BY <1>1, <2>1, <4>2
        <5> QED BY <2>4, <3>1, <5>1
      <4> QED BY <1>1, <2>1, <3>1, <4>1, <4>2
    <3>2. ASSUME NEW i \in 1..(n - 1), challengers'[i] = b
          PROVE  b # a /\ \E j \in 1..n : challengers[j] = b
      <4>1. CASE i < k
        BY <1>1, <2>1, <2>4, <2>5, <3>2, <4>1
      <4>2. CASE ~(i < k)
        <5>1. i + 1 \in 1..n /\ i + 1 # k
          BY <1>1, <2>1, <4>2
        <5> QED BY <2>1, <2>4, <2>5, <3>2, <4>2, <5>1
      <4> QED BY <4>1, <4>2
    <3> QED BY <2>4, <3>1, <3>2
  <2> QED BY <2>6, <2>7 DEF ChallengersInv
<1>3. CASE ~\E i \in 1..Len(challengers) : challengers[i] = a
  BY <1>3 DEF Unregistered, ChallengersInv
<1> QED BY <1>2, <1>3

\* connect() takes a slot that nothing refers to: no field, no attempt, no call.
LEMMA ConnectKeeps ==
  ASSUME IInv, NEW a \in Slots, Connect(a), UNCHANGED <<connected, challengers, greeted>>
  PROVE  /\ ChallengersInv' /\ AttemptInv' /\ ConnectedInv' /\ PromiseInv'
         /\ SocketsKept /\ attempt'[a].phase = "opening"
         /\ \A b \in Slots \ {a} : attempt'[b] = attempt[b]
<1> USE InvMeans
<1>1. /\ attempt[a].phase = "none" /\ attempt'[a].phase = "opening" /\ a # ws /\ ws' = a
      /\ \A b \in Slots \ {a} : attempt'[b] = attempt[b]
  <2>1. attempt \in [Slots -> Attempt] /\ attempt[a] = NoAttempt /\ sock[a] = "none"
    BY DEF Connect, FreeSlot, TypeOK
  <2>2. a # ws
    BY <2>1, SlotNumbers DEF ConnectedInv
  <2> QED BY <2>1, <2>2 DEF Connect, NoAttempt, Attempt
<1>2. /\ sock[a] = "none" /\ sock'[a] = "connecting"
      /\ ws \in Slots => sock'[ws] = "terminated"
      /\ \A s \in Slots \ {a, ws} : sock'[s] = sock[s]
  BY <1>1 DEF Connect, FreeSlot, TypeOK
<1>3. ChallengersInv'
  BY <1>1 DEF ChallengersInv
<1>4. AttemptInv'
  <2> SUFFICES ASSUME NEW b \in Slots
               PROVE  /\ attempt'[b].phase = "opening" => sock'[b] \in {"connecting", "closing", "terminated"}
                      /\ attempt'[b].phase = "hello" => /\ attempt'[b].via \in Slots
                                                        /\ sock'[attempt'[b].via] \in {"closing", "terminated"}
    BY DEF AttemptInv, Open
  <2>1. CASE b = a
    BY <1>1, <1>2, <2>1
  <2>2. CASE b # a
    <3>1. attempt'[b] = attempt[b]
      BY <1>1, <2>2
    <3>2. CASE attempt[b].phase = "hello"
      <4>1. /\ attempt[b].via \in Slots /\ sock[attempt[b].via] \in {"open", "closing", "terminated"}
            /\ sock[attempt[b].via] = "open" => attempt[b].via = ws
        BY <3>2, SlotNumbers DEF AttemptInv, Open
      <4>2. sock'[attempt[b].via] \in {"closing", "terminated"}
        BY <1>2, <4>1
      <4> QED BY <3>1, <3>2, <4>1, <4>2
    <3>3. CASE attempt[b].phase = "opening"
      BY <1>2, <2>2, <3>1, <3>3 DEF AttemptInv
    <3> QED BY <3>1, <3>2, <3>3
  <2> QED BY <2>1, <2>2
<1>5. ConnectedInv'
  <2>1. ws' # None /\ sock'[ws'] = "connecting"
    BY <1>1, <1>2, SlotNumbers
  <2>2. connected => ws \in Slots
    BY DEF ConnectedInv, TypeOK
  <2>3. connected' => \E s \in Slots : sock'[s] = "terminated"
    BY <1>2, <2>2
  <2> QED BY <2>1, <2>3 DEF ConnectedInv, Open
<1>6. PromiseInv'
  BY <1>1, SlotNumbers DEF PromiseInv, Connect
<1>7. SocketsKept
  <2> SUFFICES ASSUME NEW s \in Slots, sock[s] \in Live
               PROVE  sock'[s] \in Live /\ (sock'[s] = "open" => sock[s] = "open")
    BY DEF SocketsKept
  <2> QED BY <1>1, <1>2 DEF Live
<1> QED BY <1>1, <1>3, <1>4, <1>5, <1>6, <1>7

\* The other calls stay sound when one slot gets a new attempt, or none at all.
LEMMA OthersSound ==
  ASSUME IInv, SocketsKept,
         \A b \in Slots : attempt[b].phase # "none" => attempt'[b].phase # "none",
         NEW c \in Calls, \A d \in Calls \ {c} : call'[d] = call[d], Sound(call[c])'
  PROVE  CallsSound'
<1> SUFFICES ASSUME NEW d \in Calls PROVE Sound(call[d])'
  BY DEF CallsSound
<1>1. CASE d = c
  BY <1>1
<1>2. CASE d # c
  <2>1. call'[d] = call[d] /\ Sound(call[d])
    BY <1>2, InvMeans DEF CallsSound
  <2>2. call[d].phase \in {"connecting", "stage"} => attempt'[call[d].on].phase # "none"
    BY <2>1 DEF Sound
  <2> QED BY <2>1, <2>2, StaysSound
<1> QED BY <1>1, <1>2

\* No call changes.
LEMMA AllSound ==
  ASSUME IInv, SocketsKept, UNCHANGED call,
         \A b \in Slots : attempt[b].phase # "none" => attempt'[b].phase # "none"
  PROVE  CallsSound'
<1> SUFFICES ASSUME NEW d \in Calls PROVE Sound(call[d])'
  BY DEF CallsSound
<1>1. call'[d] = call[d] /\ Sound(call[d])
  BY InvMeans DEF CallsSound
<1>2. call[d].phase \in {"connecting", "stage"} => attempt'[call[d].on].phase # "none"
  BY <1>1 DEF Sound
<1> QED BY <1>1, <1>2, StaysSound

\* Where a call of ensureConnected can stand afterwards: it awaits an attempt that is under
\* way, it has gone on, or it has thrown.
LEMMA EnsureConnectedKeeps ==
  ASSUME IInv, NEW c \in Calls, NEW phase \in {"connecting", "stage"}, NEW command \in BOOLEAN,
         EnsureConnected(c, phase, command), UNCHANGED greeted
  PROVE  ChallengersInv' /\ AttemptInv' /\ ConnectedInv' /\ PromiseInv' /\ CallsSound'
<1> USE InvMeans
<1> DEFINE at(a) == [NoCall EXCEPT !.phase = phase, !.on = a, !.command = command]
<1>1. \A a \in Slots \cup {None} : /\ at(a).phase = phase /\ at(a).on = a /\ at(a).result = "none"
                                   /\ at(a).news = {} /\ Fresh(at(a))
  BY DEF NoCall, Fresh, Call, CallPhases
<1>2. call \in [Calls -> Call]
  BY DEF TypeOK
<1> HIDE DEF at
<1>3. CASE UNCHANGED <<client, sock>>
  <2>1. ChallengersInv' /\ AttemptInv' /\ ConnectedInv' /\ PromiseInv'
    BY <1>3 DEF client, ChallengersInv, AttemptInv, ConnectedInv, PromiseInv, Open
  <2>2. SocketsKept /\ \A b \in Slots : attempt[b].phase # "none" => attempt'[b].phase # "none"
    BY <1>3 DEF SocketsKept, client
  <2>3. PICK x : call' = [call EXCEPT ![c] = x] /\ Sound(x)'
    <3>1. CASE connected /\ Open(ws) /\ call' = [call EXCEPT ![c] = IF phase = "stage" THEN Posting(at(None)) ELSE Request(at(None))]
      <4>1. Open(ws) => greeted[ws]
        BY <3>1 DEF ConnectedInv
      <4>2. PICK y : y = Request(at(None))
        OBVIOUS
      <4>3. Sound(y)' /\ Sound(Posting(at(None)))'
        BY <1>1, <1>3, <4>1, <4>2, RequestSound, PostingSound DEF client
      <4> QED BY <3>1, <4>2, <4>3
    <3>2. CASE connectPromise \in Slots /\ call' = [call EXCEPT ![c] = at(connectPromise)]
      <4>1. attempt'[connectPromise].phase # "none"
        BY <1>3, <3>2 DEF client, PromiseInv
      <4>2. \A a \in Slots : attempt'[a].phase # "none" => Sound(at(a))'
        BY <1>1 DEF Sound
      <4> QED BY <3>2, <4>1, <4>2
    <3>3. CASE call' = [call EXCEPT ![c] = IF phase = "stage" THEN Posting(at(None)) ELSE Ended("failed")]
      BY <1>1, <3>3, PostingSound, EndedSound DEF Results
    <3>4. ~\E a \in Slots : Connect(a)
      BY <1>3 DEF Connect, client, FreeSlot, NoAttempt, TypeOK, Attempt
    <3> QED BY <3>1, <3>2, <3>3, <3>4 DEF EnsureConnected, at
  <2>4. Sound(call[c])' /\ \A d \in Calls \ {c} : call'[d] = call[d]
    BY <1>2, <2>3
  <2>5. CallsSound'
    BY <2>2, <2>4, OthersSound
  <2> QED BY <2>1, <2>5
<1>4. CASE \E a \in Slots : Connect(a) /\ call' = [call EXCEPT ![c] = at(a)] /\ UNCHANGED <<config, connected, challengers>>
  <2> PICK a \in Slots : Connect(a) /\ call' = [call EXCEPT ![c] = at(a)] /\ UNCHANGED <<config, connected, challengers>>
    BY <1>4
  <2>1. /\ ChallengersInv' /\ AttemptInv' /\ ConnectedInv' /\ PromiseInv'
        /\ SocketsKept /\ attempt'[a].phase = "opening"
        /\ \A b \in Slots \ {a} : attempt'[b] = attempt[b]
    BY ConnectKeeps
  <2>2. Sound(at(a))'
    BY <1>1, <2>1 DEF Sound
  <2>3. Sound(call[c])' /\ \A d \in Calls \ {c} : call'[d] = call[d]
    BY <1>2, <2>2
  <2>4. CallsSound'
    BY <2>1, <2>3, OthersSound
  <2> QED BY <2>1, <2>4
<1> QED BY <1>3, <1>4 DEF EnsureConnected, at

\* sendChatViaHttpResponses up to its first await, as a first choice or as a fallback.
LEMMA BeginHttpKeeps ==
  ASSUME IInv, NEW c \in Calls, NEW command \in BOOLEAN, BeginHttp(c, command), UNCHANGED greeted
  PROVE  ChallengersInv' /\ AttemptInv' /\ ConnectedInv' /\ PromiseInv' /\ CallsSound'
<1> USE InvMeans
<1>1. CASE EnsureConnected(c, "stage", command)
  BY <1>1, EnsureConnectedKeeps
<1>2. CASE UNCHANGED <<client, sock>>
  <2>1. ChallengersInv' /\ AttemptInv' /\ ConnectedInv' /\ PromiseInv'
    BY <1>2 DEF client, ChallengersInv, AttemptInv, ConnectedInv, PromiseInv, Open
  <2>2. SocketsKept /\ \A b \in Slots : attempt[b].phase # "none" => attempt'[b].phase # "none"
    BY <1>2 DEF SocketsKept, client
  <2>3. CASE EnsureConnected(c, "stage", command)
    BY <2>3, EnsureConnectedKeeps
  <2>4. CASE ~EnsureConnected(c, "stage", command)
    <3> DEFINE x == [NoCall EXCEPT !.command = command]
               y == [x EXCEPT !.phase = "posting", !.on = None]
    <3>1. /\ y.phase = "posting" /\ y.news = {} /\ y.result = "none"
      BY DEF NoCall
    <3>2. Sound(y)' /\ Sound(Ended("failed"))'
      BY <3>1, EndedSound DEF Sound, Results
    <3>3. call' = [call EXCEPT ![c] = y] \/ call' = [call EXCEPT ![c] = Ended("failed")]
      BY <2>4 DEF BeginHttp, Posting
    <3>4. Sound(call[c])' /\ \A d \in Calls \ {c} : call'[d] = call[d]
      BY <3>2, <3>3 DEF TypeOK
    <3>5. CallsSound'
      BY <2>2, <3>4, OthersSound
    <3> QED BY <2>1, <3>5
  <2> QED BY <2>3, <2>4
<1> QED BY <1>1, <1>2 DEF BeginHttp

\* The service calls sendChat.
LEMMA SendChatKeeps ==
  ASSUME IInv, TypeOK', NEW c \in Calls, NEW command \in BOOLEAN, SendChat(c, command)
  PROVE  IInv'
  BY BeginHttpKeeps, EnsureConnectedKeeps, InvNext DEF SendChat

\* A step of one call that touches neither the client's fields nor a socket.
LEMMA OneCallKeeps ==
  ASSUME IInv, TypeOK', UNCHANGED <<client, sockets>>, NEW c \in Calls, NEW x,
         call' = [call EXCEPT ![c] = x], Sound(x)
  PROVE  IInv'
<1> USE InvMeans
<1>1. ChallengersInv' /\ AttemptInv' /\ ConnectedInv' /\ PromiseInv'
  BY DEF client, sockets, ChallengersInv, AttemptInv, ConnectedInv, PromiseInv, Open
<1>2. SocketsKept /\ \A b \in Slots : attempt'[b] = attempt[b]
  BY DEF SocketsKept, client, sockets
<1>3. Sound(x)'
  <2>1. x.phase \in {"connecting", "stage"} => attempt'[x.on].phase # "none"
    BY <1>2 DEF Sound
  <2> QED BY <1>2, <2>1, StaysSound
<1>4. Sound(call[c])' /\ \A d \in Calls \ {c} : call'[d] = call[d]
  BY <1>3 DEF TypeOK
<1>5. CallsSound'
  BY <1>2, <1>4, OthersSound
<1> QED BY <1>1, <1>5, InvNext

\* The gateway's side of a call, its frames, and its timers.
LEMMA CallKeeps ==
  ASSUME IInv, TypeOK', NEW c \in Calls, Taken(c) \/ WebSocketCall(c) \/ HttpCall(c) \/ Run(c)
  PROVE  IInv'
<1> USE InvMeans
<1>1. call[c] \in Call /\ Sound(call[c])
  BY DEF TypeOK, CallsSound
<1>2. ASSUME NEW result \in Results, Ends(c, result) PROVE IInv'
  <2>1. PICK x : x = Ended(result)
    OBVIOUS
  <2> QED BY <1>2, <2>1, EndedSound, OneCallKeeps DEF Ends
<1>3. CASE Taken(c)
  <2>1. PICK x : x = NoCall
    OBVIOUS
  <2>2. Sound(x)
    BY <2>1, NoCallEnded, EndedSound DEF Results
  <2> QED BY <1>3, <2>1, <2>2, OneCallKeeps DEF Taken
<1>4. CASE Run(c)
  <2>1. call[c].phase # "idle"
    BY <1>1, <1>4 DEF Run, RunStarts, RequestRefused, RunEnds, Asked, Sound, Ended, NoCall
  <2>2. ASSUME NEW run \in {"started", "refused"}, call[c].run = "none",
               call' = [call EXCEPT ![c].run = run], UNCHANGED <<client, sockets>>
        PROVE  IInv'
    <3> DEFINE x == [call[c] EXCEPT !.run = run]
    <3>1. /\ x.phase = call[c].phase /\ x.on = call[c].on /\ x.result = call[c].result
          /\ x.news = call[c].news
      BY <1>1 DEF Call
    <3>2. Sound(x)
      BY <1>1, <2>1, <2>2, <3>1 DEF Sound
    <3>3. call' = [call EXCEPT ![c] = x]
      BY <2>2
    <3> HIDE DEF x
    <3> QED BY <2>2, <3>2, <3>3, OneCallKeeps
  <2>3. CASE RunEnds(c)
    <3>1. PICK news \in SUBSET Slots :
            call' = [call EXCEPT ![c] = [call[c] EXCEPT !.run = "ended", !.news = news]]
      <4>1. PICK news \in SUBSET Slots : call' = [call EXCEPT ![c].run = "ended", ![c].news = news]
        BY <2>3 DEF RunEnds
      <4> QED BY <4>1 DEF TypeOK
    <3> DEFINE x == [call[c] EXCEPT !.run = "ended", !.news = news]
    <3>2. x.phase = call[c].phase /\ x.on = call[c].on /\ x.result = call[c].result /\ x.run = "ended"
      BY <1>1 DEF Call
    <3>3. Sound(x)
      BY <1>1, <2>1, <3>2 DEF Sound
    <3>4. call' = [call EXCEPT ![c] = x] /\ UNCHANGED <<client, sockets>>
      BY <2>3, <3>1 DEF RunEnds
    <3> HIDE DEF x
    <3> QED BY <3>3, <3>4, OneCallKeeps
  <2> QED BY <1>4, <2>2, <2>3 DEF Run, RunStarts, RequestRefused
<1>5. CASE HttpCall(c)
  BY <1>2, <1>5 DEF HttpCall, PostReplied, PostAborted, PostFails, Results
<1>6. CASE ChatSendOk(c)
  <2> DEFINE x == [call[c] EXCEPT !.phase = "waiting", !.on = None]
             y == [call[c] EXCEPT !.phase = "waiting", !.on = None, !.news = @ \ {call[c].on}]
  <2>1. call' = [call EXCEPT ![c] = x] \/ call' = [call EXCEPT ![c] = y]
    BY <1>6 DEF ChatSendOk, TypeOK
  <2>2. /\ x.phase = "waiting" /\ x.result = call[c].result /\ x.news = call[c].news /\ x.run = call[c].run
        /\ y.phase = "waiting" /\ y.result = call[c].result /\ y.run = call[c].run
        /\ y.news = call[c].news \ {call[c].on}
    BY <1>1 DEF Call
  <2>3. call[c].phase = "requested"
    BY <1>6 DEF ChatSendOk, OkReply, Replied
  <2>4. Sound(x) /\ Sound(y)
    BY <1>1, <2>2, <2>3 DEF Sound
  <2>5. UNCHANGED <<client, sockets>>
    BY <1>6 DEF ChatSendOk
  <2> HIDE DEF x, y
  <2> QED BY <2>1, <2>4, <2>5, OneCallKeeps
<1>7. CASE ChatSendRefused(c)
  <2>1. CASE Ends(c, "failed")
    BY <1>2, <2>1 DEF Results
  <2>2. CASE BeginHttp(c, FALSE) /\ UNCHANGED greeted
    BY <2>2, BeginHttpKeeps, InvNext
  <2> QED BY <1>7, <2>1, <2>2 DEF ChatSendRefused
<1>8. CASE RequestTimeout(c) \/ TerminalTimeout(c)
  BY <1>2, <1>8 DEF RequestTimeout, TerminalTimeout, Results
<1>9. ASSUME NEW s \in Slots, NEW result \in {"final", "error"}, ChatEvent(c, s, result)
      PROVE  IInv'
  <2>1. CASE call[c].phase = "waiting"
    BY <1>2, <1>9, <2>1 DEF ChatEvent, Ends, Results
  <2>2. CASE call[c].phase # "waiting"
    <3> DEFINE x == [call[c] EXCEPT !.news = @ \ {s}]
    <3>1. Sound(x)
      BY <1>1, NewsSound
    <3>2. call' = [call EXCEPT ![c] = x] /\ UNCHANGED <<client, sockets>>
      BY <1>9, <2>2 DEF ChatEvent, TypeOK
    <3> HIDE DEF x
    <3> QED BY <3>1, <3>2, OneCallKeeps
  <2> QED BY <2>1, <2>2
<1> QED BY <1>3, <1>4, <1>5, <1>6, <1>7, <1>8, <1>9 DEF WebSocketCall

-----------------------------------------------------------------------------
(* The steps of the handshake.                                             *)

\* The initial states satisfy the invariant.
LEMMA InvInitial == Init => IInv
<1> SUFFICES ASSUME Init PROVE IInv
  OBVIOUS
<1>1. \A a \in Slots : attempt[a].phase = "none"
  BY DEF Init, NoAttempt
<1>2. ChallengersInv /\ AttemptInv /\ ConnectedInv /\ PromiseInv
  BY <1>1, SlotNumbers DEF Init, ChallengersInv, AttemptInv, ConnectedInv, PromiseInv, None, Settled
<1>3. CallsSound
  BY NoCallEnded, EndedSound DEF Init, CallsSound, Results
<1> QED BY <1>2, <1>3, SoundMeans, TypeInitial DEF IInv

\* The socket of s opens and nothing else becomes of it: this.ws may now be an open socket,
\* but not while a terminated one still has to emit its close event.
LEMMA OpensKeeps ==
  ASSUME IInv, NEW s \in Slots, MayOpen(s), sock' = [sock EXCEPT ![s] = "open"],
         UNCHANGED <<ws, connected, connectPromise, call, greeted>>,
         IF attempt[s].phase = "opening" THEN attempt' = [attempt EXCEPT ![s].phase = "challenge"]
         ELSE UNCHANGED attempt
  PROVE  AttemptInv' /\ ConnectedInv' /\ PromiseInv' /\ CallsSound'
<1> USE InvMeans
<1>1. /\ sock[s] = "connecting" /\ sock'[s] = "open"
      /\ \A t \in Slots \ {s} : sock'[t] = sock[t]
  BY DEF MayOpen, TypeOK
<1>2. /\ \A b \in Slots \ {s} : attempt'[b] = attempt[b]
      /\ attempt[s].phase = "opening" => attempt'[s].phase = "challenge"
      /\ attempt[s].phase # "opening" => attempt'[s] = attempt[s]
  BY DEF TypeOK, Attempt
<1>3. AttemptInv'
  <2> SUFFICES ASSUME NEW b \in Slots
               PROVE  /\ attempt'[b].phase = "opening" => sock'[b] \in {"connecting", "closing", "terminated"}
                      /\ attempt'[b].phase = "hello" => /\ attempt'[b].via \in Slots
                                                        /\ sock'[attempt'[b].via] \in {"open", "closing", "terminated"}
                                                        /\ sock'[attempt'[b].via] = "open" => attempt'[b].via = ws
    BY DEF AttemptInv, Open
  <2>1. CASE attempt'[b].phase = "opening"
    BY <1>1, <1>2, <2>1 DEF AttemptInv
  <2>2. CASE attempt'[b].phase = "hello"
    <3>1. attempt'[b] = attempt[b]
      BY <1>2, <2>2
    <3>2. /\ attempt[b].via \in Slots /\ sock[attempt[b].via] \in {"open", "closing", "terminated"}
          /\ sock[attempt[b].via] = "open" => attempt[b].via = ws
      BY <2>2, <3>1, SlotNumbers DEF AttemptInv, Open
    <3> QED BY <1>1, <2>2, <3>1, <3>2
  <2> QED BY <2>1, <2>2
<1>4. ConnectedInv'
  <2>1. ws # None /\ connected => ws # s
    BY <1>1 DEF ConnectedInv, MayOpen
  <2>2. ws \in Slots \cup {None}
    BY DEF TypeOK
  <2>3. ws # s /\ ws # None => sock'[ws] = sock[ws]
    BY <1>1, <2>2
  <2>4. connected => ws # None /\ sock'[ws] = sock[ws] /\ sock[ws] # "connecting"
    BY <2>1, <2>3 DEF ConnectedInv, MayOpen
  <2>5. ws # None => sock'[ws] # "none"
    BY <1>1, <2>3 DEF ConnectedInv
  <2> QED BY <2>4, <2>5 DEF ConnectedInv, Open
<1>5. PromiseInv'
  BY <1>2 DEF PromiseInv
<1>6. CallsSound'
  <2>1. SocketsKept
    BY <1>1 DEF SocketsKept, Live
  <2>2. \A b \in Slots : attempt[b].phase # "none" => attempt'[b].phase # "none"
    BY <1>2
  <2> QED BY <2>1, <2>2, AllSound
<1> QED BY <1>3, <1>4, <1>5, <1>6

\* connect() registers for a challenge: only attempts that do not yet wait for one do.
LEMMA RegisteredKeeps ==
  ASSUME TypeOK, ChallengersInv, NEW a \in Slots, attempt[a].phase # "challenge",
         challengers' = Append(challengers, a), attempt'[a].phase = "challenge",
         \A b \in Slots \ {a} : attempt'[b] = attempt[b]
  PROVE  ChallengersInv'
<1> DEFINE n == Len(challengers)
<1>1. /\ challengers \in Seq(Slots) /\ n \in Nat
      /\ Len(challengers') = n + 1 /\ challengers'[n + 1] = a
      /\ \A i \in 1..n : challengers'[i] = challengers[i]
  BY DEF TypeOK
<1>2. \A i \in 1..n : challengers[i] # a /\ challengers[i] \in Slots
  BY <1>1 DEF ChallengersInv
<1>3. \A i \in 1..(n + 1) : i \in 1..n \/ i = n + 1
  BY <1>1
<1>4. \A i \in 1..n : i \in 1..(n + 1)
  BY <1>1
<1>5. n + 1 \in 1..(n + 1)
  BY <1>1
<1> HIDE DEF n
<1>6. ASSUME NEW b \in Slots
      PROVE  attempt'[b].phase = "challenge" <=> \E i \in 1..(n + 1) : challengers'[i] = b
  <2>1. CASE b = a
    BY <1>1, <1>5, <2>1
  <2>2. CASE b # a
    <3>1. attempt[b].phase = "challenge" <=> \E i \in 1..n : challengers[i] = b
      BY DEF ChallengersInv, n
    <3> QED BY <1>1, <1>3, <1>4, <2>2, <3>1
  <2> QED BY <2>1, <2>2
<1>7. \A i, j \in 1..(n + 1) : challengers'[i] = challengers'[j] => i = j
  <2>1. \A i, j \in 1..n : challengers[i] = challengers[j] => i = j
    BY DEF ChallengersInv, n
  <2> QED BY <1>1, <1>2, <1>3, <2>1
<1> QED BY <1>1, <1>6, <1>7 DEF ChallengersInv

\* The first attempt that waits for a challenge gets it: it waits no longer, the others do.
LEMMA ChallengeTakenKeeps ==
  ASSUME TypeOK, ChallengersInv, challengers # <<>>, challengers' = Tail(challengers),
         attempt'[Head(challengers)].phase # "challenge",
         \A b \in Slots \ {Head(challengers)} : attempt'[b] = attempt[b]
  PROVE  ChallengersInv'
<1> DEFINE n == Len(challengers)
           a == Head(challengers)
<1>1. /\ challengers \in Seq(Slots) /\ n \in Nat /\ n > 0 /\ a \in Slots /\ a = challengers[1]
      /\ Len(challengers') = n - 1
      /\ \A i \in 1..(n - 1) : challengers'[i] = challengers[i + 1]
  BY DEF TypeOK
<1>2. \A i, j \in 1..n : challengers[i] = challengers[j] => i = j
  BY DEF ChallengersInv
<1>3. \A i, j \in 1..(n - 1) : challengers'[i] = challengers'[j] => i = j
  <2>1. \A i \in 1..(n - 1) : i + 1 \in 1..n
    BY <1>1
  <2>2. \A i, j \in 1..(n - 1) : challengers'[i] = challengers'[j] => i + 1 = j + 1
    BY <1>1, <1>2, <2>1
  <2> QED BY <1>1, <2>2
<1>4. ASSUME NEW b \in Slots
      PROVE  attempt'[b].phase = "challenge" <=> \E i \in 1..(n - 1) : challengers'[i] = b
  <2>1. CASE b = a
    <3>1. ASSUME NEW i \in 1..(n - 1), challengers'[i] = a PROVE FALSE
      <4>1. i + 1 \in 1..n /\ 1 \in 1..n /\ challengers[i + 1] = challengers[1] /\ i + 1 # 1
        BY <1>1, <3>1
      <4> QED BY <1>2, <4>1
    <3> QED BY <2>1, <3>1
  <2>2. CASE b # a
    <3>1. attempt[b].phase = "challenge" <=> \E i \in 1..n : challengers[i] = b
      BY DEF ChallengersInv
    <3>2. ASSUME NEW i \in 1..n, challengers[i] = b PROVE \E j \in 1..(n - 1) : challengers'[j] = b
      <4>1. i # 1
        BY <1>1, <2>2, <3>2
      <4>2. i - 1 \in 1..(n - 1) /\ (i - 1) + 1 = i
        BY <1>1, <4>1
      <4> QED BY <1>1, <3>2, <4>2
    <3>3. ASSUME NEW i \in 1..(n - 1), challengers'[i] = b PROVE \E j \in 1..n : challengers[j] = b
      <4>1. i + 1 \in 1..n
        BY <1>1
      <4> QED BY <1>1, <3>3, <4>1
    <3> QED BY <2>2, <3>1, <3>2, <3>3
  <2> QED BY <2>1, <2>2
<1> QED BY <1>1, <1>3, <1>4 DEF ChallengersInv

\* A challenge is handled: an attempt signs it and sends its request on this.ws, or fails.
LEMMA ChallengedKeeps ==
  ASSUME IInv, TypeOK', NEW s \in Slots, Challenged(s)
  PROVE  IInv'
<1> USE InvMeans
<1>1. CASE challengers = <<>>
  <2>1. UNCHANGED <<client, call, sock, greeted>>
    BY <1>1 DEF Challenged
  <2>2. ChallengersInv' /\ AttemptInv' /\ ConnectedInv' /\ PromiseInv'
    BY <2>1 DEF client, ChallengersInv, AttemptInv, ConnectedInv, PromiseInv, Open
  <2>3. SocketsKept /\ \A b \in Slots : attempt[b].phase # "none" => attempt'[b].phase # "none"
    BY <2>1 DEF SocketsKept, client
  <2>4. CallsSound'
    BY <2>1, <2>3, AllSound
  <2> QED BY <2>2, <2>4, InvNext
<1>2. CASE challengers # <<>>
  <2> DEFINE a == Head(challengers)
  <2>1. /\ a \in Slots /\ attempt[a].phase = "challenge"
        /\ challengers' = Tail(challengers) /\ UNCHANGED <<sock, greeted>>
    <3>1. challengers \in Seq(Slots) /\ 1 \in 1..Len(challengers) /\ a = challengers[1]
      BY <1>2 DEF TypeOK
    <3>2. a \in Slots
      BY <1>2, <3>1
    <3> QED BY <1>2, <3>1, <3>2 DEF Challenged, ChallengersInv
  <2>2. CASE AttemptFails(a)
    <3>1. attempt'[a].phase = "none" /\ \A b \in Slots \ {a} : attempt'[b] = attempt[b]
      BY <2>1, <2>2 DEF AttemptFails, NoAttempt, TypeOK
    <3>2. ChallengersInv'
      BY <1>2, <2>1, <3>1, ChallengeTakenKeeps
    <3>3. AttemptInv' /\ ConnectedInv' /\ PromiseInv' /\ CallsSound'
      BY <2>1, <2>2, AttemptFailsKeeps
    <3> QED BY <3>2, <3>3, InvNext
  <2>3. CASE /\ Open(ws)
             /\ attempt' = [attempt EXCEPT ![a] = [phase |-> "hello", via |-> ws, answers |-> s]]
             /\ UNCHANGED <<config, ws, connected, connectPromise, call, mishaps>>
    <3>1. /\ attempt'[a].phase = "hello" /\ attempt'[a].via = ws
          /\ \A b \in Slots \ {a} : attempt'[b] = attempt[b]
      BY <2>1, <2>3 DEF TypeOK
    <3>2. ws \in Slots /\ sock[ws] = "open"
      BY <2>3 DEF Open, TypeOK
    <3>3. ChallengersInv'
      BY <1>2, <2>1, <3>1, ChallengeTakenKeeps
    <3>4. AttemptInv'
      BY <2>1, <2>3, <3>1, <3>2 DEF AttemptInv, Open
    <3>5. ConnectedInv'
      BY <2>1, <2>3 DEF ConnectedInv, Open
    <3>6. PromiseInv'
      BY <2>3, <3>1 DEF PromiseInv
    <3>7. SocketsKept /\ \A b \in Slots : attempt[b].phase # "none" => attempt'[b].phase # "none"
      BY <2>1, <3>1 DEF SocketsKept
    <3>8. CallsSound'
      BY <2>3, <3>7, AllSound
    <3> QED BY <3>3, <3>4, <3>5, <3>6, <3>8, InvNext
  <2> QED BY <1>2, <2>2, <2>3 DEF Challenged
<1> QED BY <1>1, <1>2

\* The handshake, from the open event to hello-ok or to one of its timers.
LEMMA HandshakeKeeps ==
  ASSUME IInv, TypeOK', NEW s \in Slots, Handshake(s)
  PROVE  IInv'
<1> USE InvMeans
<1>1. CASE Opened(s) \/ OpenedWithChallenge(s)
  <2>1. AttemptInv' /\ ConnectedInv' /\ PromiseInv' /\ CallsSound'
    BY <1>1, OpensKeeps DEF Opened, OpenedWithChallenge
  <2>2. CASE attempt[s].phase = "opening"
    <3>1. attempt'[s].phase = "challenge" /\ \A b \in Slots \ {s} : attempt'[b] = attempt[b]
      BY <1>1, <2>2 DEF Opened, OpenedWithChallenge, TypeOK, Attempt
    <3>2. challengers' = Append(challengers, s)
      <4>1. challengers = <<>> => Append(challengers, s) = <<s>>
        OBVIOUS
      <4>2. Opened(s) => challengers' = Append(challengers, s)
        BY <2>2 DEF Opened
      <4>3. OpenedWithChallenge(s) => challengers = <<>> /\ challengers' = <<s>>
        BY DEF OpenedWithChallenge
      <4> QED BY <1>1, <4>1, <4>2, <4>3
    <3>3. ChallengersInv'
      BY <2>2, <3>1, <3>2, RegisteredKeeps
    <3> QED BY <2>1, <3>3, InvNext
  <2>3. CASE attempt[s].phase # "opening"
    <3>1. ChallengersInv'
      BY <1>1, <2>3 DEF Opened, OpenedWithChallenge, ChallengersInv
    <3> QED BY <2>1, <3>1, InvNext
  <2> QED BY <2>2, <2>3
<1>2. CASE Challenged(s)
  BY <1>2, ChallengedKeeps
<1>3. CASE Greets(s)
  <2>1. UNCHANGED <<client, call, sock>> /\ \A t \in Slots : greeted[t] => greeted'[t]
    BY <1>3 DEF Greets, TypeOK
  <2>2. ChallengersInv' /\ AttemptInv' /\ PromiseInv'
    BY <2>1 DEF client, ChallengersInv, AttemptInv, PromiseInv, Open
  <2>3. ConnectedInv'
    BY <2>1 DEF client, ConnectedInv, Open, TypeOK
  <2>4. SocketsKept /\ \A b \in Slots : attempt[b].phase # "none" => attempt'[b].phase # "none"
    BY <2>1 DEF SocketsKept, client
  <2>5. CallsSound'
    BY <2>1, <2>4, AllSound
  <2> QED BY <2>2, <2>3, <2>5, InvNext
<1>4. CASE HelloOk(s)
  BY <1>4, HelloOkKeeps
<1>5. ASSUME AttemptFails(s), UNCHANGED sockets,
             \/ UNCHANGED challengers /\ attempt[s].phase = "hello"
             \/ challengers' = Unregistered(s)
      PROVE  IInv'
  <2>1. AttemptInv' /\ ConnectedInv' /\ PromiseInv' /\ CallsSound'
    BY <1>5, AttemptFailsKeeps DEF sockets
  <2>2. attempt'[s].phase = "none" /\ \A b \in Slots \ {s} : attempt'[b] = attempt[b]
    BY <1>5 DEF AttemptFails, NoAttempt, TypeOK
  <2>3. CASE UNCHANGED challengers /\ attempt[s].phase = "hello"
    <3>1. ChallengersInv'
      BY <2>2, <2>3 DEF ChallengersInv
    <3> QED BY <2>1, <3>1, InvNext
  <2>4. CASE challengers' = Unregistered(s)
    BY <2>1, <2>2, <2>4, UnregisteredKeeps, InvNext
  <2> QED BY <1>5, <2>3, <2>4
<1>6. CASE HelloRefused(s)
  BY <1>5, <1>6 DEF HelloRefused
<1>7. CASE HandshakeTimeout(s) \/ ChallengeOverdue(s)
  BY <1>5, <1>7 DEF HandshakeTimeout, ChallengeOverdue
<1> QED BY <1>1, <1>2, <1>3, <1>4, <1>6, <1>7 DEF Handshake

-----------------------------------------------------------------------------
(* The end of sockets.                                                     *)

\* A flush leaves only attempts that still wait for their socket to open.
LEMMA FlushKeeps ==
  ASSUME TypeOK, NEW lost, Flushed \subseteq lost, Flush(lost)
  PROVE  /\ ChallengersInv' /\ PromiseInv' /\ ~connected'
         /\ \A a \in Slots : attempt'[a].phase # "none" =>
                /\ a \notin lost /\ attempt'[a] = attempt[a] /\ attempt[a].phase = "opening"
         /\ \A a \in Slots \ lost : attempt'[a] = attempt[a]
<1>1. \A a \in Slots : attempt'[a] = IF a \in lost THEN NoAttempt ELSE attempt[a]
  BY DEF Flush
<1>2. \A a \in Slots : attempt[a].phase \in {"none", "opening", "challenge", "hello"}
  BY DEF TypeOK, Attempt
<1>3. \A a \in Slots : attempt'[a].phase # "none" =>
                /\ a \notin lost /\ attempt'[a] = attempt[a] /\ attempt[a].phase = "opening"
  BY <1>1, <1>2 DEF Flushed, NoAttempt
<1>4. ChallengersInv'
  BY <1>3 DEF Flush, ChallengersInv
<1>5. PromiseInv'
  BY SlotNumbers DEF PromiseInv, Flush, None, Settled
<1> QED BY <1>1, <1>3, <1>4, <1>5 DEF Flush

\* A flush leaves no request, and no call that awaits an attempt it has taken away.
LEMMA FlushedSound ==
  ASSUME IInv, NEW lost, Flushed \subseteq lost, Flush(lost), NEW c \in Calls,
         NEW x, x = FlushedCall(c, lost)
  PROVE  x \in Call /\ x.phase # "requested" /\ Sound(x)'
<1> USE InvMeans
<1>1. call[c] \in Call /\ Sound(call[c]) /\ x \in Call
  BY FlushedType DEF TypeOK, CallsSound
<1>2. CASE call[c].phase = "requested"
  <2>1. x = Ended("failed")
    BY <1>2 DEF FlushedCall
  <2> QED BY <1>1, <2>1, EndedSound DEF Ended, NoCall, Results
<1>3. CASE call[c].phase # "requested" /\ \E a \in lost : Awaits(c, a)
  <2>1. x = Posting(call[c]) \/ x = Ended("failed")
    BY <1>3 DEF FlushedCall, Resumed
  <2>2. Fresh(call[c])
    BY <1>1, <1>3 DEF Awaits, Fresh, Sound
  <2>3. Posting(call[c]).phase = "posting" /\ Ended("failed").phase = "idle"
    BY <1>1 DEF Posting, Call, Ended, NoCall
  <2> QED BY <1>1, <2>1, <2>2, <2>3, PostingSound, EndedSound DEF Results
<1>4. CASE call[c].phase # "requested" /\ ~\E a \in lost : Awaits(c, a)
  <2>1. x = call[c]
    BY <1>4 DEF FlushedCall
  <2>2. x.phase \in {"connecting", "stage"} => x.on \in Slots /\ attempt'[x.on].phase # "none"
    <3>1. ASSUME x.phase \in {"connecting", "stage"}
          PROVE  x.on \in Slots \ lost /\ attempt[x.on].phase # "none"
      BY <1>1, <1>4, <2>1, <3>1 DEF Sound, Awaits
    <3>2. \A a \in Slots \ lost : attempt'[a] = attempt[a]
      BY FlushKeeps
    <3> QED BY <3>1, <3>2
  <2> QED BY <1>1, <1>4, <2>1, <2>2 DEF Sound
<1> QED BY <1>2, <1>3, <1>4

\* The gateway closes a socket: what is still under way on it is lost, but not yet told.
LEMMA GatewayClosesKeeps ==
  ASSUME IInv, TypeOK', NEW s \in Slots, GatewayCloses(s)
  PROVE  IInv'
<1> USE InvMeans
<1>1. /\ sock[s] \in {"connecting", "open"} /\ sock'[s] = "closing"
      /\ \A t \in Slots \ {s} : sock'[t] = sock[t]
      /\ UNCHANGED <<config, ws, connected, connectPromise, attempt, challengers, call, greeted>>
  BY DEF GatewayCloses, TypeOK, client
<1>2. ChallengersInv' /\ PromiseInv'
  BY <1>1 DEF ChallengersInv, PromiseInv
<1>3. AttemptInv'
  BY <1>1 DEF AttemptInv, Open
<1>4. ConnectedInv'
  <2>1. ws \in Slots \cup {None}
    BY DEF TypeOK
  <2> QED BY <1>1, <2>1 DEF ConnectedInv, Open
<1>5. SocketsKept
  BY <1>1 DEF SocketsKept, Live
<1>6. CallsSound'
  BY <1>1, <1>5, AllSound
<1> QED BY <1>2, <1>3, <1>4, <1>6, InvNext

\* The close event of any socket: whatever hung on it, or on another one, is told.
LEMMA ClosedKeeps ==
  ASSUME IInv, TypeOK', NEW s \in Slots, Closed(s)
  PROVE  IInv'
<1> USE InvMeans
<1> DEFINE lost == Flushed \cup {a \in {s} : attempt[a].phase = "opening"}
<1>1. /\ Flush(lost) /\ ws' = None
      /\ call' = [c \in Calls |-> [FlushedCall(c, lost) EXCEPT !.news = @ \ {s}]]
      /\ \A t \in Slots \ {s} : sock'[t] = sock[t]
  BY DEF Closed, TypeOK
<1>2. Flushed \subseteq lost /\ (attempt[s].phase = "opening" => s \in lost)
  OBVIOUS
<1> HIDE DEF lost
<1>3. /\ ChallengersInv' /\ PromiseInv' /\ ~connected'
      /\ \A a \in Slots : attempt'[a].phase # "none" =>
             a \notin lost /\ attempt'[a] = attempt[a] /\ attempt[a].phase = "opening"
  BY <1>1, <1>2, FlushKeeps
<1>4. AttemptInv'
  BY <1>1, <1>2, <1>3 DEF AttemptInv
<1>5. ConnectedInv'
  BY <1>1, <1>3 DEF ConnectedInv
<1>6. ASSUME NEW c \in Calls PROVE Sound(call[c])'
  <2>1. PICK x : x = FlushedCall(c, lost)
    OBVIOUS
  <2>2. x \in Call /\ Sound(x)'
    BY <1>1, <1>2, <2>1, FlushedSound
  <2>3. PICK y : y = [x EXCEPT !.news = @ \ {s}]
    OBVIOUS
  <2>4. call'[c] = y
    BY <1>1, <2>1, <2>3
  <2>5. Sound(y)'
    BY <2>2, <2>3, NewsSound
  <2> QED BY <2>4, <2>5
<1>7. CallsSound'
  BY <1>6 DEF CallsSound
<1> QED BY <1>3, <1>4, <1>5, <1>7, InvNext

\* close(): the waiters are told too, and an attempt whose socket it closes waits for the close.
LEMMA CloseKeeps ==
  ASSUME IInv, TypeOK', Close
  PROVE  IInv'
<1> USE InvMeans
<1>1. /\ Flush(Flushed) /\ ws' = None
      /\ \A t \in Slots : sock'[t] = sock[t] \/ sock'[t] = "closing"
  BY DEF Close, TypeOK
<1>2. /\ ChallengersInv' /\ PromiseInv' /\ ~connected'
      /\ \A a \in Slots : attempt'[a].phase # "none" =>
             attempt'[a] = attempt[a] /\ attempt[a].phase = "opening"
  BY <1>1, FlushKeeps
<1>3. AttemptInv'
  BY <1>1, <1>2 DEF AttemptInv
<1>4. ConnectedInv'
  BY <1>1, <1>2 DEF ConnectedInv
<1>5. ASSUME NEW c \in Calls PROVE Sound(call[c])'
  <2>1. PICK x : x = FlushedCall(c, Flushed)
    OBVIOUS
  <2>2. Sound(x)'
    BY <1>1, <2>1, FlushedSound
  <2>3. call'[c] = x \/ call'[c] = Ended("error")
    BY <2>1 DEF Close
  <2> QED BY <2>2, <2>3, EndedSound DEF Results
<1>6. CallsSound'
  BY <1>5 DEF CallsSound
<1> QED BY <1>2, <1>3, <1>4, <1>6, InvNext

-----------------------------------------------------------------------------
(* The invariant and what it says.                                         *)

\* Every step keeps the invariant.
LEMMA InvInductive == IInv /\ [Next]_vars => IInv'
<1>1. ASSUME IInv, UNCHANGED vars PROVE IInv'
  <2>1. TypeOK' /\ ChallengersInv' /\ AttemptInv' /\ ConnectedInv' /\ PromiseInv'
    BY <1>1, InvMeans DEF TypeOK, vars, client, sockets, ChallengersInv, AttemptInv, ConnectedInv,
       PromiseInv, Open
  <2>2. SocketsKept /\ UNCHANGED call /\ \A b \in Slots : attempt[b].phase # "none" => attempt'[b].phase # "none"
    BY <1>1 DEF SocketsKept, vars, client, sockets
  <2>3. CallsSound'
    BY <1>1, <2>2, AllSound
  <2> QED BY <2>1, <2>3, InvNext
<1>2. ASSUME IInv, Next PROVE IInv'
  <2>1. TypeOK'
    BY <1>2, TypeInductive DEF IInv
  <2>2. ASSUME NEW c \in Calls, NEW command \in BOOLEAN, SendChat(c, command) PROVE IInv'
    BY <1>2, <2>1, <2>2, SendChatKeeps
  <2>3. ASSUME NEW s \in Slots, Handshake(s) PROVE IInv'
    BY <1>2, <2>1, <2>3, HandshakeKeeps
  <2>4. ASSUME NEW s \in Slots, GatewayCloses(s) PROVE IInv'
    BY <1>2, <2>1, <2>4, GatewayClosesKeeps
  <2>5. ASSUME NEW s \in Slots, Closed(s) PROVE IInv'
    BY <1>2, <2>1, <2>5, ClosedKeeps
  <2>6. ASSUME NEW c \in Calls, Taken(c) \/ WebSocketCall(c) \/ HttpCall(c) \/ Run(c) PROVE IInv'
    BY <1>2, <2>1, <2>6, CallKeeps
  <2>7. CASE Close
    BY <1>2, <2>1, <2>7, CloseKeeps
  <2> QED BY <1>2, <2>2, <2>3, <2>4, <2>5, <2>6, <2>7 DEF Next
<1> QED BY <1>1, <1>2

\* The fields of the client, the attempts under way, the sockets and the calls fit together in
\* every state, however many sockets and callers cross each other.
THEOREM InvariantHolds == Spec => []IInv
  BY InvInitial, InvInductive, PTL DEF Spec

\* No sendChat awaits a promise whose attempt is gone: connectPromise may be reset or replaced
\* by the close handler of an older socket or by the finally of an older attempt, but each
\* caller holds the promise of an attempt that will still be settled.
THEOREM NoCallerForgotten == Spec => []NoForgottenCall
<1>1. IInv => NoForgottenCall
  BY DEF IInv
<1> QED BY <1>1, InvariantHolds, PTL

\* A chat.send goes out on a socket whose handshake the gateway has accepted, although
\* this.ws, connected and the challenge an attempt signs may belong to different sockets.
THEOREM NothingSentBeforeHello == Spec => []SentAfterHello
<1>1. IInv => SentAfterHello
  BY DEF IInv
<1> QED BY <1>1, InvariantHolds, PTL

\* While the client is not connected, a later sendChat connects or joins an attempt under way:
\* a settled connectPromise never stands in its way.
THEOREM ClientCanConnect == Spec => []NoDeadEnd
<1>1. IInv => NoDeadEnd
  BY DEF IInv, TypeOK, PromiseInv, NoDeadEnd
<1> QED BY <1>1, InvariantHolds, PTL
=============================================================================
