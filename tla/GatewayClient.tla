---------------------------- MODULE GatewayClient ----------------------------
(***************************************************************************)
(* PlatformClawGatewayClient (src/src/platformclaw-gateway.ts): one        *)
(* websocket shared by all calls of sendChat, the handshake that connects  *)
(* it, the requests and waiters that hang on it, and the POST to           *)
(* /v1/responses beside it.                                                *)
(*                                                                         *)
(* A step is one callback of the event loop with all the continuations it  *)
(* sets off: a frame or a socket event, a timer, or the service calling    *)
(* sendChat.  connect() makes exactly one socket, so a slot stands for an  *)
(* attempt to connect and for its socket; a slot is used again when both   *)
(* are gone.                                                               *)
(***************************************************************************)
EXTENDS Naturals, Sequences, Functions

CONSTANTS
    Calls,       \* the process() invocations that use the client at one time
    Slots,       \* bound: the sockets that exist at one time, numbered from 1
    Configs,     \* the deployments considered: a set of Config records
    Shutdowns,   \* whether shutdown() may call close()
    MishapsEnd,  \* whether the gateway and the network behave at last
    MaxMishaps   \* bound: after how many mishaps they do

\* What loadConfig may return, as far as the client looks at it: PLATFORMCLAW_TRANSPORT,
\* whether shouldPreferHttpResponses, whether a token or password is set, and
\* ENABLE_STAGE_UPDATES.
Config == [transport    : {"websocket", "http-responses", "auto"},
           preferHttp   : BOOLEAN,
           secret       : BOOLEAN,
           stageUpdates : BOOLEAN]

ASSUME ClientAssumption ==
    /\ Slots \in SUBSET Nat /\ MaxMishaps \in Nat
    /\ Shutdowns \in BOOLEAN /\ MishapsEnd \in BOOLEAN
    /\ Configs \subseteq Config /\ Configs # {}
    /\ \A cfg \in Configs : cfg.preferHttp => cfg.secret

VARIABLES
    config,          \* the deployment's configuration
    ws,              \* this.ws: the slot of the current socket, or None
    connected,       \* this.connected
    connectPromise,  \* this.connectPromise: an attempt under way, Settled, or None
    attempt,         \* attempt[a]: where connect() of slot a is
    challengers,     \* the connect.challenge entries of this.pending, oldest first
    call,            \* call[c]: where sendChat and waitForTerminal of c are
    sock,            \* sock[s]: readyState of the socket in slot s
    nonce,           \* nonce[s]: a connect.challenge is on its way on socket s
    greeted,         \* greeted[s]: the gateway has accepted a handshake on socket s
    mishaps          \* how often the gateway or the network has misbehaved

client  == <<config, ws, connected, connectPromise, attempt, challengers>>
sockets == <<sock, nonce, greeted>>
vars    == <<client, call, sockets, mishaps>>

None    == 0    \* null
Settled == 99   \* a promise whose attempt is over

ASSUME SlotNumbers == None \notin Slots /\ Settled \notin Slots

\* connect() awaits the open event, the challenge, and the reply to its connect request; "via"
\* is the socket the request went out on, "answers" the one whose challenge it signs.
Attempt   == [phase : {"none", "opening", "challenge", "hello"},
              via : Slots \cup {None}, answers : Slots \cup {None}]
NoAttempt == [phase |-> "none", via |-> None, answers |-> None]

CallPhases == {"idle",
               "connecting",  \* sendChat awaits ensureConnected
               "stage",       \* sendChatViaHttpResponses awaits ensureStageChannelConnected
               "requested",   \* sendChat awaits the reply to chat.send
               "posting",     \* sendChatViaHttpResponses awaits fetch
               "waiting"}     \* waitForTerminal has a waiter
\* A call with what the gateway has made of its request, in so far as that can still reach the
\* client: a frame of a call that is over finds no entry in pending and no waiter.
Call   == [phase   : CallPhases,
           on      : Slots \cup {None},  \* the attempt awaited, or the socket of chat.send
           command : BOOLEAN,            \* requiresCommandTransport
           run     : {"none", "refused", "started", "ended"},
           news    : SUBSET Slots,       \* the sockets that carry its terminal chat event
           result  : {"none", "final", "error", "timeout", "failed"}]
NoCall == [phase |-> "idle", on |-> None, command |-> FALSE, run |-> "none", news |-> {},
           result |-> "none"]

UnderWay(c) == call[c].phase # "idle"
Open(s)     == s # None /\ sock[s] = "open"

Init ==
    /\ config \in Configs
    /\ ws = None /\ connected = FALSE /\ connectPromise = None
    /\ attempt = [a \in Slots |-> NoAttempt]
    /\ challengers = <<>>
    /\ call = [c \in Calls |-> NoCall]
    /\ sock = [s \in Slots |-> "none"]
    /\ nonce = [s \in Slots |-> FALSE]
    /\ greeted = [s \in Slots |-> FALSE]
    /\ mishaps = 0

\* Something the gateway or the network does, or does too late, or with bad luck.
Mishap        == IF MishapsEnd THEN mishaps < MaxMishaps /\ mishaps' = mishaps + 1
                 ELSE UNCHANGED mishaps
MishapIf(bad) == IF bad THEN Mishap ELSE UNCHANGED mishaps

-----------------------------------------------------------------------------
(* What becomes of a call when what it awaits is settled.                  *)

Ended(result)        == [NoCall EXCEPT !.result = result]
Posting(call_)       == [call_ EXCEPT !.phase = "posting", !.on = None]
\* request("chat.send") on this.ws: it throws unless the socket is open.
Request(call_) == IF Open(ws) THEN [call_ EXCEPT !.phase = "requested", !.on = ws]
                  ELSE Ended("failed")

\* Mutant: only the callers of the current promise are resumed.
AwaitsCurrent(c, a) == /\ call[c].phase \in {"connecting", "stage"} /\ call[c].on = a
                       /\ connectPromise = a
Awaits(c, a) == call[c].phase \in {"connecting", "stage"} /\ call[c].on = a

\* Attempt a is over.  sendChat goes on with its request or throws;
\* ensureStageChannelConnected goes on with the POST in either case.
Resumed(c, ok) ==
    IF call[c].phase = "stage" THEN Posting(call[c])
    ELSE IF ok THEN Request(call[c]) ELSE Ended("failed")

\* Mutant: ensureConnected has no finally.
AttemptFailsForGood(a) ==
    /\ attempt' = [attempt EXCEPT ![a] = NoAttempt]
    /\ connectPromise' = IF connectPromise = a THEN Settled ELSE connectPromise
    /\ call' = [c \in Calls |-> IF Awaits(c, a) THEN Resumed(c, FALSE) ELSE call[c]]
    /\ UNCHANGED <<config, ws, connected>>
\* connect() of a throws.  The finally of ensureConnected resets connectPromise whichever
\* attempt it holds by now, but only while there is no connection.
AttemptFails(a) ==
    /\ attempt' = [attempt EXCEPT ![a] = NoAttempt]
    /\ connectPromise' = IF ~connected THEN None
                         ELSE IF connectPromise = a THEN Settled ELSE connectPromise
    /\ call' = [c \in Calls |-> IF Awaits(c, a) THEN Resumed(c, FALSE) ELSE call[c]]
    /\ UNCHANGED <<config, ws, connected>>

\* connect() of a returns.
AttemptSucceeds(a) ==
    /\ attempt' = [attempt EXCEPT ![a] = NoAttempt]
    /\ connected' = TRUE
    /\ connectPromise' = IF connectPromise = a THEN Settled ELSE connectPromise
    /\ call' = [c \in Calls |-> IF Awaits(c, a) THEN Resumed(c, TRUE) ELSE call[c]]
    /\ UNCHANGED <<config, ws, challengers>>

\* flushPendingErrors: every entry of this.pending is rejected.  The attempts in lost fail
\* with it, and so do the calls that await one of them or a reply.
Flushed == {a \in Slots : attempt[a].phase \in {"challenge", "hello"}}

\* Mutant: the close handler leaves connected as it is.
FlushStaysConnected(lost) ==
    /\ UNCHANGED connected /\ connectPromise' = None
    /\ challengers' = <<>>
    /\ attempt' = [a \in Slots |-> IF a \in lost THEN NoAttempt ELSE attempt[a]]
\* Mutant: the entries of connect.challenge stay in pending.
FlushKeepsChallengers(lost) ==
    /\ connected' = FALSE /\ connectPromise' = None
    /\ UNCHANGED challengers
    /\ attempt' = [a \in Slots |-> IF a \in lost THEN NoAttempt ELSE attempt[a]]
Flush(lost) ==
    /\ connected' = FALSE /\ connectPromise' = None
    /\ challengers' = <<>>
    /\ attempt' = [a \in Slots |-> IF a \in lost THEN NoAttempt ELSE attempt[a]]

FlushedCall(c, lost) ==
    IF call[c].phase = "requested" THEN Ended("failed")
    ELSE IF \E a \in lost : Awaits(c, a) THEN Resumed(c, FALSE)
    ELSE call[c]

-----------------------------------------------------------------------------
(* sendChat, up to its first await that really waits.                      *)

\* connect() up to its await: the socket in this.ws is terminated, whatever its state, and a
\* new one takes its place.
FreeSlot(a) == sock[a] = "none" /\ attempt[a] = NoAttempt

Connect(a) ==
    /\ FreeSlot(a) /\ \A b \in Slots : FreeSlot(b) => a <= b
    /\ sock' = [s \in Slots |-> IF s = a THEN "connecting"
                                ELSE IF s = ws THEN "terminated" ELSE sock[s]]
    /\ ws' = a /\ connectPromise' = a
    /\ attempt' = [attempt EXCEPT ![a].phase = "opening"]

\* ensureConnected on behalf of c, which stands at phase until it is settled.
EnsureConnected(c, phase, command) ==
    LET at(a) == [NoCall EXCEPT !.phase = phase, !.on = a, !.command = command] IN
    \/ /\ connected /\ Open(ws)
       /\ call' = [call EXCEPT ![c] = IF phase = "stage" THEN Posting(at(None))
                                      ELSE Request(at(None))]
       /\ UNCHANGED <<client, sock>>
    \/ /\ ~(connected /\ Open(ws)) /\ connectPromise = None
       /\ \E a \in Slots : Connect(a) /\ call' = [call EXCEPT ![c] = at(a)]
       /\ UNCHANGED <<config, connected, challengers>>
    \/ /\ ~(connected /\ Open(ws)) /\ connectPromise \in Slots
       /\ call' = [call EXCEPT ![c] = at(connectPromise)]
       /\ UNCHANGED <<client, sock>>
    \/ /\ ~(connected /\ Open(ws)) /\ connectPromise = Settled   \* then the request throws
       /\ call' = [call EXCEPT ![c] = IF phase = "stage" THEN Posting(at(None))
                                      ELSE Ended("failed")]
       /\ UNCHANGED <<client, sock>>

\* sendChatViaHttpResponses: without a secret it throws at once.
BeginHttp(c, command) ==
    \/ /\ ~config.secret
       /\ call' = [call EXCEPT ![c] = Ended("failed")]
       /\ UNCHANGED <<client, sock>>
    \/ /\ config.secret /\ ~config.stageUpdates
       /\ call' = [call EXCEPT ![c] = Posting([NoCall EXCEPT !.command = command])]
       /\ UNCHANGED <<client, sock>>
    \/ /\ config.secret /\ config.stageUpdates
       /\ EnsureConnected(c, "stage", command)

OverHttp(command) ==
    /\ ~command
    /\ \/ config.transport = "http-responses"
       \/ config.transport = "auto" /\ config.preferHttp

\* The service calls sendChat for a message; a SKILL_HUB command must go over the websocket.
SendChat(c, command) ==
    /\ call[c] = NoCall
    /\ IF OverHttp(command) THEN BeginHttp(c, command)
       ELSE EnsureConnected(c, "connecting", command)
    /\ UNCHANGED <<nonce, greeted, mishaps>>

\* The service takes the result; the client forgets the call.
Taken(c) ==
    /\ ~UnderWay(c) /\ call[c].result # "none"
    /\ call' = [call EXCEPT ![c] = NoCall]
    /\ UNCHANGED <<client, sockets, mishaps>>

-----------------------------------------------------------------------------
(* The handshake.                                                          *)

\* A terminated socket emits close within the turn of the event loop, before a socket made in
\* that turn can have made its round trip.
MayOpen(s) == sock[s] = "connecting" /\ \A t \in Slots : sock[t] # "terminated"

\* The open event.  The gateway sends its challenge at once; connect() registers for it, unless
\* it has given up on this socket meanwhile.
Opened(s) ==
    /\ MayOpen(s)
    /\ sock' = [sock EXCEPT ![s] = "open"]
    /\ nonce' = [nonce EXCEPT ![s] = TRUE]
    /\ IF attempt[s].phase = "opening"
       THEN /\ attempt' = [attempt EXCEPT ![s].phase = "challenge"]
            /\ challengers' = Append(challengers, s)
       ELSE UNCHANGED <<attempt, challengers>>
    /\ UNCHANGED <<config, ws, connected, connectPromise, call, greeted, mishaps>>

\* A challenge in the packet that completes the upgrade is handled before connect() goes on
\* from its await: nobody has registered for it, and it is dropped.
OpenedWithChallenge(s) ==
    /\ MayOpen(s) /\ attempt[s].phase = "opening" /\ challengers = <<>>
    /\ Mishap
    /\ sock' = [sock EXCEPT ![s] = "open"]
    /\ attempt' = [attempt EXCEPT ![s].phase = "challenge"]
    /\ challengers' = <<s>>
    /\ UNCHANGED <<config, ws, connected, connectPromise, call, nonce, greeted>>

\* handleMessage gives the challenge to the attempt that registered first, whatever the socket,
\* and drops it if there is none.  connect() then sends its request on this.ws, which must be
\* open; buildConnectParams does not wait, but throws if the device identity cannot be loaded.
Challenged(s) ==
    /\ nonce[s] /\ Open(s)
    /\ nonce' = [nonce EXCEPT ![s] = FALSE]
    /\ \/ /\ challengers = <<>>
          /\ UNCHANGED <<client, call, mishaps>>
       \/ /\ challengers # <<>> /\ challengers' = Tail(challengers)
          /\ LET a == Head(challengers) IN
             \/ /\ Open(ws)
                /\ attempt' = [attempt EXCEPT ![a] = [phase |-> "hello", via |-> ws, answers |-> s]]
                /\ UNCHANGED <<config, ws, connected, connectPromise, call, mishaps>>
             \/ /\ MishapIf(Open(ws))             \* if not: "gateway not connected"
                /\ AttemptFails(a)
    /\ UNCHANGED <<sock, greeted>>

\* The gateway accepts a connect request: external.
Greets(a) ==
    /\ attempt[a].phase = "hello" /\ Open(attempt[a].via) /\ ~greeted[attempt[a].via]
    /\ greeted' = [greeted EXCEPT ![attempt[a].via] = TRUE]
    /\ UNCHANGED <<client, call, sock, nonce, mishaps>>

\* hello-ok reaches the client.
HelloOk(a) ==
    /\ attempt[a].phase = "hello" /\ Open(attempt[a].via) /\ greeted[attempt[a].via]
    /\ AttemptSucceeds(a)
    /\ UNCHANGED <<sockets, mishaps>>

\* The connect request is refused.  A nonce that belongs to another socket is reason enough.
\* That the refusal speaks of a scope missing for chat.send, and so starts the fallback of
\* sendChat, is left out: the gateway says so of a chat.send only.
HelloRefused(a) ==
    /\ attempt[a].phase = "hello" /\ Open(attempt[a].via)
    /\ MishapIf(attempt[a].answers = attempt[a].via)
    /\ AttemptFails(a)
    /\ UNCHANGED <<challengers, sockets>>

\* Mutant: no timer bounds the wait for the open event.
OverdueOnceOpen(a) == attempt[a].phase \in {"challenge", "hello"}
Overdue(a) ==
    \/ attempt[a].phase = "opening" /\ sock[a] = "connecting"
    \/ attempt[a].phase \in {"challenge", "hello"}

\* this.pending without the connect.challenge entry of a, if it has one.
Unregistered(a) ==
    IF \E i \in 1..Len(challengers) : challengers[i] = a
    THEN LET i == CHOOSE j \in 1..Len(challengers) : challengers[j] = a IN
         SubSeq(challengers, 1, i - 1) \o SubSeq(challengers, i + 1, Len(challengers))
    ELSE challengers

\* The timers of connect(), while what they wait for is still possible.  None of them touches
\* the socket: it stays in this.ws, or nowhere at all.
HandshakeTimeout(a) ==
    /\ Overdue(a)
    /\ Mishap
    /\ AttemptFails(a)
    /\ challengers' = Unregistered(a)
    /\ UNCHANGED sockets

\* The challenge timer, when no challenge is on its way any more.
ChallengeOverdue(a) ==
    /\ attempt[a].phase = "challenge"
    /\ ~\E s \in Slots : nonce[s] /\ sock[s] \in {"connecting", "open"}
    /\ AttemptFails(a)
    /\ challengers' = Unregistered(a)
    /\ UNCHANGED <<sockets, mishaps>>

-----------------------------------------------------------------------------
(* The end of a socket.                                                    *)

\* A socket the client has lost track of: nothing of it waits for this socket any more.
Orphan(s) ==
    /\ s # ws /\ attempt[s].phase # "opening"
    /\ \A a \in Slots : attempt[a].phase = "hello" => attempt[a].via # s
    /\ \A c \in Calls : call[c].phase = "requested" => call[c].on # s

\* The gateway or the network closes it, or the upgrade fails: frames stop at once, the close
\* event comes later.  Nobody can blame the gateway for closing an orphan.
GatewayCloses(s) ==
    /\ sock[s] \in {"connecting", "open"}
    /\ MishapIf(~Orphan(s))
    /\ sock' = [sock EXCEPT ![s] = "closing"]
    /\ UNCHANGED <<client, call, nonce, greeted>>

\* The close event, of a connecting socket after its error event.  The handler is the same for
\* every socket the client ever made, also for those it has terminated or lost track of: it
\* resets this.ws, connected and connectPromise and flushes what is pending.
Closed(s) ==
    /\ sock[s] \in {"closing", "terminated"}
    /\ LET lost == Flushed \cup {a \in {s} : attempt[a].phase = "opening"} IN
       /\ Flush(lost)
       /\ call' = [c \in Calls |-> [FlushedCall(c, lost) EXCEPT !.news = @ \ {s}]]
    /\ ws' = None
    /\ sock' = [sock EXCEPT ![s] = "none"]
    /\ nonce' = [nonce EXCEPT ![s] = FALSE]
    /\ greeted' = [greeted EXCEPT ![s] = FALSE]
    /\ UNCHANGED <<config, mishaps>>

\* close(), called by every shutdown(): the waiters are told, the socket is closed.  The client
\* is not marked as closed: a later sendChat connects again.
Close ==
    /\ Shutdowns /\ Mishap
    /\ Flush(Flushed)
    /\ call' = [c \in Calls |-> IF call[c].phase = "waiting" THEN Ended("error")
                                ELSE FlushedCall(c, Flushed)]
    /\ ws' = None
    /\ sock' = [s \in Slots |-> IF s = ws THEN "closing" ELSE sock[s]]
    /\ UNCHANGED <<config, nonce, greeted>>

-----------------------------------------------------------------------------
(* chat.send, the POST, and the run.                                       *)

\* The gateway's side of a request: external.  It may refuse it, or start and end its run; the
\* terminal chat event goes to every socket that is connected at the end of the run.
Asked(c) ==
    \/ call[c].phase = "posting"
    \/ call[c].phase = "requested" /\ Open(call[c].on) /\ greeted[call[c].on]

RunStarts(c) ==
    /\ Asked(c) /\ call[c].run = "none"
    /\ call' = [call EXCEPT ![c].run = "started"]
    /\ UNCHANGED <<client, sockets, mishaps>>

RequestRefused(c) ==
    /\ Asked(c) /\ call[c].run = "none"
    /\ Mishap
    /\ call' = [call EXCEPT ![c].run = "refused"]
    /\ UNCHANGED <<client, sockets>>

RunEnds(c) ==
    /\ call[c].run = "started"
    /\ call' = [call EXCEPT ![c].run = "ended",
                            ![c].news = IF call[c].phase = "posting" THEN {}
                                        ELSE {s \in Slots : Open(s) /\ greeted[s]}]
    /\ UNCHANGED <<client, sockets, mishaps>>

Ends(c, result) ==
    /\ call' = [call EXCEPT ![c] = Ended(result)]
    /\ UNCHANGED <<client, sockets>>

Replied(c) == call[c].phase = "requested" /\ Open(call[c].on) /\ call[c].run # "none"

\* Mutant: any reply resolves the request.
AnyReply(c) == Replied(c)
\* frame.ok === true
OkReply(c) == Replied(c) /\ call[c].run # "refused"

\* The reply to chat.send: sendChat returns, and waitForTerminal registers its waiter.  A
\* terminal chat event in the same packet comes before the waiter, and is dropped.
ChatSendOk(c) ==
    /\ OkReply(c)
    /\ \/ /\ call' = [call EXCEPT ![c].phase = "waiting", ![c].on = None]
          /\ UNCHANGED mishaps
       \/ /\ call[c].on \in call[c].news /\ Mishap
          /\ call' = [call EXCEPT ![c].phase = "waiting", ![c].on = None,
                                  ![c].news = @ \ {call[c].on}]
    /\ UNCHANGED <<client, sockets>>

\* The refusal: with transport "auto" a missing scope or a bare refusal falls back to the POST,
\* except for commands; any other message is thrown.
ChatSendRefused(c) ==
    /\ Replied(c) /\ call[c].run = "refused"
    /\ \/ Ends(c, "failed")
       \/ /\ config.transport = "auto" /\ ~call[c].command
          /\ BeginHttp(c, FALSE)
          /\ UNCHANGED <<nonce, greeted>>
    /\ UNCHANGED mishaps

RequestTimeout(c) == call[c].phase = "requested" /\ Mishap /\ Ends(c, "failed")

\* A terminal chat event arrives on any socket.  On the socket of the request it comes after
\* the reply; on another it may come before, and finds no waiter.
ChatEvent(c, s, result) ==
    /\ s \in call[c].news /\ Open(s)
    /\ call[c].phase = "requested" => s # call[c].on
    /\ call' = IF call[c].phase = "waiting" THEN [call EXCEPT ![c] = Ended(result)]
               ELSE [call EXCEPT ![c].news = @ \ {s}]
    /\ UNCHANGED <<client, sockets, mishaps>>

\* The waiter's timer, PLATFORMCLAW_RUN_TIMEOUT_MS.
TerminalTimeout(c) == call[c].phase = "waiting" /\ Ends(c, "timeout") /\ UNCHANGED mishaps

\* fetch: the reply carries the text of the ended run, the abort timer (same length) makes it a
\* timeout, and an HTTP or network error is thrown.  The terminal passes through
\* immediateTerminal into waitForTerminal without waiting.
PostReplied(c) ==
    /\ call[c].phase = "posting" /\ call[c].run = "ended"
    /\ Ends(c, "final") /\ UNCHANGED mishaps

PostAborted(c) == call[c].phase = "posting" /\ Ends(c, "timeout") /\ UNCHANGED mishaps

PostFails(c) ==
    /\ call[c].phase = "posting"
    /\ MishapIf(call[c].run # "refused")
    /\ Ends(c, "failed")

-----------------------------------------------------------------------------
Handshake(s) ==
    \/ Opened(s) \/ OpenedWithChallenge(s) \/ Challenged(s)
    \/ Greets(s) \/ HelloOk(s) \/ HelloRefused(s)
    \/ HandshakeTimeout(s) \/ ChallengeOverdue(s)

WebSocketCall(c) ==
    \/ ChatSendOk(c) \/ ChatSendRefused(c) \/ RequestTimeout(c) \/ TerminalTimeout(c)
    \/ \E s \in Slots, result \in {"final", "error"} : ChatEvent(c, s, result)

HttpCall(c) == PostReplied(c) \/ PostAborted(c) \/ PostFails(c)

Run(c) == RunStarts(c) \/ RequestRefused(c) \/ RunEnds(c)

Next ==
    \/ \E c \in Calls, command \in BOOLEAN : SendChat(c, command)
    \/ \E s \in Slots : Handshake(s) \/ GatewayCloses(s) \/ Closed(s)
    \/ \E c \in Calls : Taken(c) \/ WebSocketCall(c) \/ HttpCall(c) \/ Run(c)
    \/ Close

Spec == Init /\ [][Next]_vars

\* Timers fire and sockets that are closing close, whatever the gateway does.
TimersFire ==
    /\ \A s \in Slots : /\ WF_vars(HandshakeTimeout(s)) /\ WF_vars(ChallengeOverdue(s))
                        /\ WF_vars(Closed(s))
    /\ \A c \in Calls : /\ WF_vars(RequestTimeout(c)) /\ WF_vars(TerminalTimeout(c))
                        /\ WF_vars(PostAborted(c))

\* Sockets open, frames on an open socket arrive, and the gateway answers what it was asked.
\* It need not end its runs, and the service need not call.
GatewayWorks ==
    /\ \A s \in Slots : /\ WF_vars(Opened(s)) /\ WF_vars(Challenged(s))
                        /\ WF_vars(Greets(s)) /\ WF_vars(HelloOk(s))
    /\ \A c \in Calls : /\ WF_vars(RunStarts(c))
                        /\ WF_vars(ChatSendOk(c)) /\ WF_vars(ChatSendRefused(c))

TimerSpec == Spec /\ TimersFire
FairSpec  == TimerSpec /\ GatewayWorks

-----------------------------------------------------------------------------
(* Properties.                                                             *)

\* Every variable keeps its type.
TypeOK ==
    /\ config \in Configs
    /\ ws \in Slots \cup {None} /\ connected \in BOOLEAN
    /\ connectPromise \in Slots \cup {None, Settled}
    /\ attempt \in [Slots -> Attempt]
    /\ challengers \in Seq(Slots)
    /\ call \in [Calls -> Call]
    /\ sock \in [Slots -> {"none", "connecting", "open", "closing", "terminated"}]
    /\ nonce \in [Slots -> BOOLEAN] /\ greeted \in [Slots -> BOOLEAN]
    /\ mishaps \in Nat

\* The promise a sendChat awaits belongs to an attempt that is still under way, even when
\* connectPromise has been reset or replaced meanwhile: no caller is left waiting for good.
NoForgottenCall ==
    \A c \in Calls : call[c].phase \in {"connecting", "stage"} =>
        call[c].on \in Slots /\ attempt[call[c].on].phase # "none"

\* However many sockets and attempts cross each other, a chat.send only ever goes out on a
\* socket whose handshake the gateway has accepted.
SentAfterHello ==
    \A c \in Calls : call[c].phase = "requested" /\ Open(call[c].on) => greeted[call[c].on]

\* The client can always connect again: while it is not connected, connectPromise is null or an
\* attempt under way.  A settled one would be awaited by every later sendChat, in vain.
NoDeadEnd ==
    ~connected => \/ connectPromise = None
                  \/ connectPromise \in Slots /\ attempt[connectPromise].phase # "none"

\* What AdapterService takes for granted: sendChat is accepted only if the run exists, and an
\* answer of the agent comes from a run that has ended.
Contract == INSTANCE GatewayCalls WITH
                stage  <- [c \in Calls |-> CASE call[c].phase = "idle"    -> "idle"
                                             [] call[c].phase = "waiting" -> "waiting"
                                             [] OTHER                     -> "sending"],
                run    <- [c \in Calls |-> call[c].run],
                result <- [c \in Calls |-> call[c].result]
CallsKept == Contract!Spec

\* sendChat and waitForTerminal come to an end, whatever the gateway and the network do.
EveryCallSettles == \A c \in Calls : UnderWay(c) ~> ~UnderWay(c)

FailsNow(c) == call[c].result # "failed" /\ call'[c].result = "failed"

\* The client heals: once the mishaps are over, calls stop failing, unless sockets it has lost
\* track of go on being closed.
FailuresStop ==
    \/ []<><<\E s \in Slots : GatewayCloses(s)>>_vars
    \/ <>[][\A c \in Calls : ~FailsNow(c)]_vars

-----------------------------------------------------------------------------
(* The inductive invariant behind the safety properties.                   *)

\* Pending entries of connect.challenge and attempts that wait for one are the same.
ChallengersInv ==
    /\ \A a \in Slots : attempt[a].phase = "challenge" <=> \E i \in 1..Len(challengers) : challengers[i] = a
    /\ \A i, j \in 1..Len(challengers) : challengers[i] = challengers[j] => i = j

\* What an attempt waits for can still come, or its socket is about to close.
AttemptInv ==
    \A a \in Slots :
        /\ attempt[a].phase = "opening" => sock[a] \in {"connecting", "closing", "terminated"}
        /\ attempt[a].phase = "hello" => /\ attempt[a].via \in Slots
                                         /\ sock[attempt[a].via] \in {"open", "closing", "terminated"}
                                         /\ Open(attempt[a].via) => attempt[a].via = ws

\* this.ws is a socket that has not emitted its close event, and a connection is a greeted one.
\* Only a socket that replaced a closing one may stand in this.ws before that, until the close
\* handler of the old one resets it.
ConnectedInv ==
    /\ ws # None => sock[ws] # "none"
    /\ connected => ws # None
    /\ connected /\ Open(ws) => greeted[ws]
    /\ connected /\ ws # None /\ sock[ws] = "connecting" => \E s \in Slots : sock[s] = "terminated"

\* connectPromise is an attempt under way, unless there is a connection.
PromiseInv ==
    /\ connectPromise \in Slots => attempt[connectPromise].phase # "none"
    /\ connectPromise = Settled => connected

\* A request hangs on a socket whose close handler will reject it.  A call under way has no
\* result yet, one that is over has left nothing behind, and chat events tell of ended runs.
CallInv ==
    \A c \in Calls :
        /\ call[c].phase = "requested" => /\ call[c].on \in Slots
                                          /\ sock[call[c].on] \in {"open", "closing", "terminated"}
        /\ IF UnderWay(c) THEN call[c].result = "none" ELSE call[c] = Ended(call[c].result)
        /\ call[c].news # {} => call[c].run = "ended"

IInv ==
    /\ TypeOK /\ ChallengersInv /\ AttemptInv /\ ConnectedInv /\ PromiseInv /\ CallInv
    /\ NoForgottenCall /\ SentAfterHello
=============================================================================
