# knox-adapter: models, checks and proofs

knox-adapter stands between the Knox Proxy, which delivers chat messages over HTTP, and the
PlatformClaw gateway, which runs an agent for each of them. It keeps a ledger of messages in
SQLite, serialises the messages of a session, calls the gateway, and POSTs the agent's answer
back to the Proxy. This directory holds TLA+ models of it, TLC runs and TLAPS proofs.
`PROJECT.json` lists the same facts for tools: components, runs, mutants, the source lines each
definition stands for, hazards, findings and theorems.

## 1. Inventory

| component | state | operations | what makes it correct |
| --- | --- | --- | --- |
| `service.ts` `KnoxAdapterService` | `sessionQueues`; the locals of every `process()` that is awaiting | `acceptInbound`, `enqueueBySession`, `pumpSessionQueue`, `process`, `deliverTerminal`, `handleCompactionProgress` | one message of a session at a time, in order; nothing stranded; each message answered once, within its attempts; the ledger tells the truth |
| `store.ts` `AdapterStore` | table `inbound_messages`, on disk | `getByMessageId`, `insertReceived`, `updateProgress`, `close` | a row once written stays; each write is a transaction |
| `outbound-client.ts` `ProxyOutboundClient` | none | `sendProgress`, `sendFinal`, `sendCoreOutbound`, all over `sendPayload` | delivered means the Proxy has it |
| `platformclaw-gateway.ts` `PlatformClawGatewayClient` | socket, `connected`, `connectPromise`, `pending`, `chatWaiters`, `immediateTerminal`, listeners | `sendChat` (websocket or `/v1/responses`), `waitForTerminal`, `onCompactionEvent`, `connect`, `handleMessage`, `close` | every call settles; a reply reaches the request it answers; an old socket does not disturb a new one |
| `server.ts` | the HTTP server | inbound, core-send, health probes, `shutdown` | rejects what is not valid; one request's failure should not stop the others (it does: `one_failure_ends_all`) |
| `routing.ts`, `activation.ts`, `auth.ts`, `schemas.ts`, `config.ts` | none (activation reads a file) | pure checks and conversions | the session key never leaves the agent it names |
| `device-identity.ts`, `gateway-device-auth.ts` | key file | load, repair or regenerate; sign | the id belongs to the key |
| `logger.ts`, `mock-*.ts`, Docker and shell files | - | - | not part of the protocol |

How they interact. `server.ts` awaits `service.acceptInbound`, which never really waits: it
writes the row, queues the message and starts the session's pump in one turn of the event loop.
The pump awaits `process()` of one message after the other. `process()` awaits the activation
file, `gateway.sendChat`, `gateway.waitForTerminal` and `outbound.sendFinal`, in that order, and
writes the ledger in between. The gateway client calls back into `process()` with compaction
events. Queue and compaction notices are posted without awaiting them. Nothing is recovered at
start.

What is hard: callbacks of many messages interleave at every await; the gateway and the Proxy
may be slow, silent, or do what was asked after the adapter gave up; the process may end
between any two ledger writes, and `shutdown()` takes the ledger away under the work in flight.
`PROJECT.json` lists these hazards one by one, at the line where each bites.

## 2. Modules

**SessionDelivery** is what the adapter promises, without how: each session has a `line` of
unanswered messages, answered from its head, each at most once; nothing is dropped while the
adapter is `open`; when it stops, lines are lost for good.

**AdapterService** is `service.ts` with the parts it calls. A step is the code from one await
that really waits to the next, with every ledger write, POST and pump turn in between.

| model | code |
| --- | --- |
| `store[m]` | the row of the message: status and error code |
| `queue[s]` | `sessionQueues.get(s)`; `NoQueue` when the map has no entry |
| `frame[m]` | the locals of `process(m)`: the await it is at (`phase`), `attempt`, `acceptedTransport`, `compactionState` |
| `outbox`, `inbox` | POSTs issued, and those that reached the Proxy, in any order |
| `runs[m]`, `ended[m]` | the gateway's runs of a message: run 0 for all `chat.send` calls (one idempotency key), run k for the k-th call if it goes over HTTP (no key) |
| `calls[m]`, `finals[m]` | how often `sendChat` and `sendFinal` were called: history, for the properties |
| `mode` | up; stopping (after `shutdown()`, ledger closed, callbacks still running); down |
| `AcceptAndStart`, `AcceptBehind` | `acceptInbound` and `enqueueBySession` of an unknown message (a known one changes nothing) |
| `ActivationOk`, `ActivationRejected` | the gate |
| `SendChatAccepted`, `HttpAnswered`, `ChatTerminal`, `Retry`, `GiveUp` | the attempt loop |
| `OutboundDelivered`, `OutboundSkipped`, `OutboundFailed` | `deliverTerminal` after its await, and the catch around it |
| `PumpNext`, `PumpStops` | the pump's loop and its finally: part of every step that ends `process()` |
| `CompactionEvent` | the agent event, the listener and `handleCompactionProgress` |
| `GatewayStarts`, `GatewayEnds`, `ProxyReceives` | the gateway and the network: external |
| `Shutdown`, `Exit`, `Crash`, `CrashInAccept`, `CrashInProcess`, `Restart` | `server.ts`, and the operating system |

With a closed ledger every write throws; the model follows where the exception goes: out of
`acceptInbound`, into the catch of the attempt loop, out of the catch of the delivery, out of
each remaining `process()` into the pump, which then runs its queue empty.

**GatewayCalls** is what `process()` may rely on when it calls the gateway client, without how: a
call is accepted only if its run exists, an agent's answer comes from a run that has ended, and
each call ends once. These are the guards that AdapterService puts on `SendChatAccepted`,
`ChatEvent` and `HttpReply`; GatewayClient is shown to keep them.

**GatewayClient** is `platformclaw-gateway.ts`. A step is one callback of the event loop with all
the continuations it sets off. `connect()` makes exactly one socket, so a slot stands for an
attempt to connect and for its socket.

| model | code |
| --- | --- |
| `ws`, `connected`, `connectPromise` | the fields of the same names; a promise is the slot of its attempt, `Settled` once that is over, `None` for null |
| `attempt[a]` | where a `connect()` that has not returned stands: awaiting open, the challenge, or hello (with the socket its request went out on and the one whose challenge it signs) |
| `challengers` | the `connect.challenge` entries of `pending`, in order |
| `call[c]` | where `sendChat` and `waitForTerminal` of a call stand, what the gateway has made of its request, the sockets that carry its terminal event, and its result; the request and the waiter are the entries of `pending` and `chatWaiters` |
| `sock`, `nonce`, `greeted` | the sockets and the gateway's side of the handshake |
| `SendChat`, `EnsureConnected`, `Connect`, `BeginHttp` | `sendChat`, `sendChatViaHttpResponses`, `ensureStageChannelConnected`, `ensureConnected`, `connect` up to the first await that waits |
| `Opened`, `OpenedWithChallenge`, `Challenged`, `HelloOk`, `HelloRefused`, `HandshakeTimeout`, `ChallengeOverdue` | the rest of `connect`, its timers, and `ensureConnected`'s finally |
| `GatewayCloses`, `Closed`, `Close` | a close begins, the close handler with `flushPendingErrors`, `close()` |
| `ChatSendOk`, `ChatSendRefused`, `RequestTimeout`, `ChatEvent`, `TerminalTimeout` | `request("chat.send")` with the fallback to HTTP, `handleMessage`, the waiter |
| `PostReplied`, `PostAborted`, `PostFails` | the fetch to `/v1/responses` |
| `Taken` | `process()` goes on with the result |
| `Greets`, `RunStarts`, `RequestRefused`, `RunEnds` | the gateway: external |

**GatewayBlame** adds to GatewayClient a history of the calls that have lived through a mishap,
for the one promise that the code breaks.

**AdapterServer** is `server.ts` and what it calls before a message belongs to the service:
`auth.ts`, the outcome of the schemas, `routing.ts`, and the dedupe check and insert of
`acceptInbound`; core-send with its part of `outbound-client.ts`; and how the process ends.
Opposite stands a Proxy that repeats a POST until it hears a verdict on it.

| model | code |
| --- | --- |
| `mode` | up; stopping (after `shutdown()`); down |
| `row[id]` | the row of a `messageId`, with the payload, agent and session key it was written with |
| `req[r]` | a request handler: reading its body, forwarding a core-send, replying |
| `heard[p]`, `fresh[id]` | the verdicts the Proxy has seen; the replies that told of a new message (history) |
| `AgentId`, `SessionMode`, `RoutingError`, `SessionKey` | `resolveRouting`, over abstract names; `NormalAgent` is `normalizeAgentId` |
| `Unverified`, `InvalidInbound`, `Duplicate`, `Refused`, `Accepted`, `LedgerClosed` | the inbound handler: 401, 400, 200, 400, 202, and the rejection after `shutdown()` |
| `CoreSend`, `Forwarded`, `ForwardFails` | the core-send handler and `sendCoreOutbound` |
| `Probe` | `/healthz` and `/readyz`, which ask the ledger |
| `Signal`, `Exit`, `Crash`, `Restart` | the signal handler (a second signal included), the end of the process, its start |
| `ForwardFails`, `ClientAborts`, `LedgerClosed`, `Probe` | handlers that reject: nothing catches it, and an unhandled rejection ends the process |

AdapterServer and AdapterService meet in `acceptInbound`: `Accepted` is `AcceptAndStart` or
`AcceptBehind` seen from the request, `Duplicate` the unknown-message guard that fails, and
`Signal`, `Exit`, `Crash`, `Restart` are `Shutdown`, `Exit`, `Crash`, `Restart`. GatewayClient and
AdapterService meet in GatewayCalls.

**MCAdapterService**, **MCGatewayClient** and **MCAdapterServer** give the constants their values
for TLC. The proofs stand beside the models:

| module | proves |
| --- | --- |
| **AdapterServiceProofs** | the invariant of AdapterService, and the queue, attempt and answer properties that follow |
| **AdapterServiceRefines** | AdapterService implements SessionDelivery |
| **AdapterServiceLedger** | what a row of the ledger says of the answer and of the agent's run |
| **GatewayClientProofs** | the invariant of GatewayClient, and its safety properties |
| **GatewayCallsProofs** | GatewayClient implements GatewayCalls |
| **AdapterServerProofs** | the invariant of AdapterServer, and its safety properties |

Operators marked `Mutant:` stand in front of the definition they would replace; they are
plausible bugs that show each property can fail, and no specification uses them.

## 3. Runs

The service runs use one session, since sessions share nothing in the service but the ledger's table;
that no other session is disturbed is covered by the proofs, which hold for any number of
sessions.

| run | question | bounds | result |
| --- | --- | --- | --- |
| `service_fifo` | do the pump and the queue serialise a session, strand nothing and keep the order (refinement of SessionDelivery), and do the agent's runs overlap only after a message was given up; `SerialInv`, the invariant behind that | 3 messages, 1 retry, websocket | holds |
| `service_faults` | one answer and no rerun after it, attempts within their budget, truth of the ledger, notices before the answer, order kept, over crashes, shutdown and restarts, with stage updates over either transport, with the activation gate, and without a Proxy URL; `IInv` and `TruthInv`, the invariants the proofs use | 2 messages, 4 deployments | holds |
| `service_live` | is every accepted message answered and every queue released | 3 messages, 2 deployments, no faults | holds |
| `gateway_client` | can the one connection always be made again, does no caller wait for good, is nothing sent before the handshake, does every call settle, and does the client keep GatewayCalls (`IInv` is the invariant the proofs use), over late close handlers, crossing attempts, lost challenges and `close()` | 2 calls, 2 sockets, 3 deployments, mishaps without number | holds |
| `gateway_recovers` | do calls stop failing once the gateway behaves | 1 call, 3 sockets, 2 mishaps, 2 deployments | holds |
| `server` | is a message new once, a refused payload unrecorded, a session not shared by accident, and every payload judged although any handler may end the process, provided no kept-alive connection holds a shutdown for ever (`IInv` is the invariant the proofs use) | 2 requests, 3 payloads, 3 deployments, 2 mishaps | holds |
| `retry_is_doomed` | "1회 재시도", and a momentary gateway failure loses nothing: a call fails only if something goes wrong during it | 1 call, 3 sockets, 1 mishap | violated |
| `restart_loses` | "재기동 후 상태 복구", state recovery after restart | crash | violated |
| `shutdown_drops` | "in-flight 작업은 제한 시간 내 drain" | shutdown | violated |
| `timeout_not_retried` | "gateway timeout 또는 전송 실패 시 1회 재시도" | - | violated |
| `gate_failure_unrecorded` | "Proxy outbound 실패는 반드시 상태로 남아야 한다" | activation gate | violated |
| `one_failure_ends_all` | "단일 오류가 전체 장애로 번지지 않게", and at shutdown new inbound is refused: a request that fails leaves the others alone | 2 requests, 1 mishap | violated |

Three messages in one session are the least for one running and two waiting, where order
matters; two are enough for a message in flight beside a redelivered, queued or finished one.
Retry budgets of 0 and 1 cover a loop that ends at once and one that goes round.

Two calls are the least for two callers of one `connectPromise`, and two sockets for one that
closes late beside its successor; `Slots` are used again, so that attempts follow each other
without end. The safety properties and `CallsKept` also hold with three slots and unlimited mishaps
(995K states in `WebSocketOnly`, 3.3M with `transport` "auto"), and `FailuresStop` with three
mishaps. `gateway_recovers` needs an end of the mishaps, `MaxMishaps`, and has one caller: with two,
one slow open can start a chain in which each retry terminates the socket of the other, so that
sockets the client has lost track of pile up beyond any `Slots`; their closes may then fail attempts for
ever, which the first disjunct of `FailuresStop` sets aside. `retry_is_doomed` shows how the chain
starts: an open that times out leaves its socket in `ws`; the retry terminates it and makes its
own; the close handler of the old one runs in the next turn, sets `ws` to null, and the retry finds
"gateway not connected" when its challenge comes, though its socket is sound.

The three payloads of `server` are two users whose ids have the same normal form and a
payload that repeats a `messageId` with a key that does not fit its agent; the deployments are one that
is ready, one that cannot verify, and one without Proxy and signature. Two requests are the least
for one that ends the process under the other.

Named bounds. `Watched` names the kinds of POST whose arrival at the Proxy is followed: the
terminal ones in every run, because the order in which notices arrive is observed by no property
yet. `RunIds` (0..6) is no bound: five retries at most make six calls of `sendChat`. The
deployment does not change over a restart. Messages are finitely many in the service runs, so the system
comes to rest, and deadlock is not checked there; the other passing runs check it.

**Environment.** A socket that is terminated emits its close event before a socket made in the same
turn can open (`MayOpen`). Requests may still come after `shutdown()`, on connections that are kept
alive, and none has to. Agent ids contain no colon, so that a session key splits at its second one.
A connect request is never refused with the message about a missing scope that starts
`sendChat`'s fallback.

Symmetry over messages is used where no liveness is checked.

**Fairness.** `Activation`, `SendChat`, `WaitForTerminal` and `Delivery` are weakly fair per
message, as every await of `process()` ends in the code: `readFile` settles, the open, challenge,
request and run timers of the gateway client bound `sendChat` and `waitForTerminal`, and an abort
timer bounds the POST to the Proxy. Nothing is assumed of the gateway, the Proxy, or of the steps
that stop the process. `FairSpecWithRestart` adds that a process that is down is started again;
only `restart_loses` uses it, where it makes the refuted promise weaker.

In GatewayClient `TimersFire` holds in every liveness run: each await of the client has a timer, and
a socket that is closing closes (`ws` has a close timer of its own). `GatewayWorks`, by which sockets
open and frames are answered, is assumed for recovery only, since a client cannot heal against a dead
gateway; no run ever has to end, and the service never has to call.

In AdapterServer handlers go on, since nothing they await is without a timer except a body the
client does not send (no payload of the Proxy), replies arrive unless lost, and a process that is
down is started again (`--restart unless-stopped`, `DOCKER_DEPLOY.ko.md`:163; who stops the
container starts it again or its successor). `Exit` is weakly fair: `server.close()` (`server.ts`:164) closes
idle connections, Node's keep-alive timeout the ones that become idle, and then the callback ends the
process. The Proxy repeats a POST that has not been judged, under strong fairness, because
`Requests` is a bound of the model and not of the server; but only while the adapter is up, for a
stopping one accepts no connection and no request need reach it. So nothing but `Exit` is bound to
end a shutdown, and requests on connections kept alive may put it off without end: without its
hypothesis `LeftToStop`, `EveryPostJudged` is refuted by core-sends that hold a stopping process for
ever, and without the fairness of `Exit` by a process that stays in its shutdown.

## 4. Proofs

The theorems hold for any sets of messages, sessions, calls, slots, requests and payloads, any
deployments, and any number of mishaps. Every safety property and every action property that a passing run
checks is proved. The assumptions on the constants are these, and TLC evaluates them in every run:

- `ServiceAssumption`: each message has a session, deployments satisfy the schema of `config.ts`,
  faults are crash and stop.
- `ClientAssumption`: slots are numbers (the client takes the least free one), a
  deployment that prefers HTTP has a secret, as the client requires; `SlotNumbers`: the
  values for null and for a settled promise are no slots.
- `ServerAssumption`: payloads have the fields the schema lets through, `normalizeAgentId` is an
  idempotent function on the names, and the value for "nothing" is no name.

| module | theorem | states |
| --- | --- | --- |
| AdapterServiceProofs | `TypeCorrect` | `[]TypeOK` |
| | `InvariantHolds` | `[]IInv` |
| | `MutualExclusion` | `[]SessionMutex` |
| | `NothingStranded` | `[]NoStrandedQueue` |
| | `AnsweredAtMostOnce` | `[]AnswerAtMostOnce` |
| | `AttemptsBounded` | `[]AttemptBudget` |
| | `NeverRerun` | `NoRerunAfterAnswer`: no step calls `sendChat` for an answered message |
| | `StagesBeforeAnswer` | `NoStageAfterTerminal`: no step posts a stage notice of an answered message |
| AdapterServiceRefines | `ServiceImplementsDelivery` | `AnsweredInOrder`: the service implements SessionDelivery |
| AdapterServiceLedger | `RowsTellTheAnswer` | `[]TruthInv` |
| | `LedgerIsTrue` | `[]LedgerTellsTruth` |
| | `RowsTellOfTheRun` | `[]SerialInv`, under `WebsocketWithoutFaults` |
| | `RunsAreSerial` | `[]SerialUntilGivenUp`, under `WebsocketWithoutFaults` |
| GatewayClientProofs | `TypeCorrect` | `[]TypeOK` |
| | `InvariantHolds` | `[]IInv` |
| | `NoCallerForgotten` | `[]NoForgottenCall` |
| | `NothingSentBeforeHello` | `[]SentAfterHello` |
| | `ClientCanConnect` | `[]NoDeadEnd` |
| GatewayCallsProofs | `ContractKept` | `CallsKept`: the client implements GatewayCalls |
| AdapterServerProofs | `TypeCorrect` | `[]TypeOK` |
| | `InvariantHolds` | `[]IInv` |
| | `NewOnce` | `[]AcceptedOnce` |
| | `RefusalLeavesNoRow` | `[]RefusedNotRecorded` |
| | `SessionsStayApart` | `[]SessionsApart` |

**The service.** None of its properties is inductive alone: `SessionMutex` needs to know that `running`
is set while a message is in `process()`, and `AnswerAtMostOnce` that a message without a row
was never touched. `IInv` adds both. `QueueInv`: a pump runs exactly while one message of its
session is in `process()`, and the messages marked as waiting are the items of their queue, each
once. `HistoryInv`: `calls` and `finals` follow from the phase, attempt and row of a message.
`DownInv`: memory is empty when the process is down. `QueueInv` is kept by the four ways a step
touches a queue (lemmas `QueueStart`, `QueueBehind`, `QueueNext`, `QueueStops`), and `HistoryInv`
follows action by action.

**The refinement of SessionDelivery** rests on the same invariant: with at most one process()
per session the CHOOSE in `Line` chooses nothing (`LineOf`), so a line is the message being served
followed by the queue's items. `AcceptImplements` and `AnswerImplements` show that the line grows at
its end and shrinks at its head, `NextIsStutter` that the pump taking the next item leaves it as it
was (that item was second in line and becomes the message served), `StopsLoses` and `MemoryLoses`
that only a stop or a crash empties it. `StepImplements` combines them over the actions.

**The ledger.** `LedgerTellsTruth` speaks of the last of several writes: outbound_sent is written as
a status alone, and the error code it leaves in place was written two awaits before. `TruthInv`
therefore follows a message from its accept: before the answer there is no error code; the answer
is posted in the same step as the row that tells of it (`TruthAnswers`), and there is only one, by
`HistoryInv`; later writes keep the code or end in a status other than outbound_sent
(`TruthWrites`). A message that a step is not about keeps its truth because no POST and no write is
about it (`TruthOfOthers`), wherever the pump moves its frame (`EndMoves`).

`SerialUntilGivenUp` relates the row to the agent's run. `SerialInv` says that a row without an error
code means a process() that still waits, or a run that has ended; two such messages of a session
with live runs are then both in process(), against `SessionMutex`. The hypothesis
`WebsocketWithoutFaults` is needed, not a convenience: over HTTP a retry starts a second run of
the message, and a crash forgets the wait but not the run.

**The gateway client.** `IInv` ties the fields of the client to its sockets. `ChallengersInv`: the
`connect.challenge` entries of `pending` are the attempts that wait for one, each once, so a challenge never
wakes an attempt that is gone. `AttemptInv`: what an attempt waits for can still come, or its socket still
has to close. `ConnectedInv`: a connection is a greeted socket, except while a terminated socket still has to emit
its close event, which resets `connected`. `PromiseInv`: `connectPromise` is an attempt under
way or a connection, which gives `NoDeadEnd`. `CallInv`, `NoForgottenCall` and `SentAfterHello` are about
single calls; together they say that each call is `Sound` (`SoundMeans`), and the lemmas show
that a step leaves the calls it is not about sound (`OthersSound`, `AllSound`), because it neither ends the attempt nor
opens the socket that they refer to.

**The refinement of GatewayCalls** maps a call to its stage, run and result, so its proof is about
the record of a call before and after a step (`Step`, `StepMaps`). A step of the client may move many
calls at once, a flush for instance; the contract lets every call take a step of its own.

**The server.** A verdict is on its way, and then heard, long after the ledger was asked. `IInv`
says that it stays true: rows never change once written, and routing is a function of the payload and the
configuration (`TruthStays`). So a 200 or 202 means a row for ever, a 400 a payload that routing refuses
for ever, and `FreshInv` that what was new once has a row and is not new again. `SessionsApart`
follows from `RowInv` and two lemmas about `resolveRouting`: a session key names the agent its
message goes to (`KeyNamesAgent`), and the Knox user unless sharing was asked for (`KeyNamesUser`).

**Only model-checked**: liveness under fairness, which the prover cannot do: `EveryAcceptedAnswered`,
`SessionsReleased`, `EveryCallSettles`, `FailuresStop`, `EveryPostJudged`; and the refuted promises.

## 5. Not modelled

- Device identity and its signature, the logger, the mocks and the packaging. That the identity
  cannot be loaded is a failed attempt of GatewayClient.
- The composition of the three models into one. It would multiply their states; they are
  joined by GatewayCalls and by the actions they share.
- A SQLite error of an open database (`service.ts`:316), and the loss of a committed row by power
  failure (`store.ts`:13). The second is a property of SQLite's settings, not of this code.
- The identifiers in a row of the service (request, chat message, run), which no branch reads.
- The order in which notices reach the Proxy (`service.ts`:168): see the plan. Compaction events
  without `runId` (`service.ts`:287) are modelled, but no document says whose notice they are, so
  no property does either.
- The character-level work: HMAC, the canonical JSON, the normalisation of agent ids (an idempotent
  function in AdapterServer), the wording of notices, zod's checks of single fields.
- The timers' lengths: a timer may fire at any moment.
- Requests that change nothing: unknown endpoints, core-send without its token, and probes
  of an open ledger.

Disagreements between documents and code that were met while reading and have no run: the
code contradicts the text line against line, and a run would add nothing.

- `ADAPTER_PLAN.ko.md` falls back to `employeeId` for the agent, `routing.ts` to `knoxUserId`.
- `KNOX_PROXY_API.ko.md`:236 wants an explicit key to start with `agent:<agentId>:`, and :304 shows an
  agent id with a dot; `normalizeAgentId` replaces dots, and a key that names such an agent id as
  documented is refused (`Sent` in MCAdapterServer has one).
- `ADAPTER_PLAN.ko.md`:216 and :1249 forbid a Proxy that imposes a `sessionKey` of its own (so does
  `KNOX_PROXY_DEVELOPER_GUIDE.ko.md`:36). `routing.ts`:74 takes such a key, and `KNOX_PROXY_API.ko.md`:232 says
  it does. The documents contradict each other; the model follows the code, and `SessionsApart`
  counts the messages with an explicit key as shared on purpose.
- 503 is documented for an adapter that is not ready; the inbound handler never returns it.
- "messageId는 전 구간에서 idempotency key로 유지" (`ADAPTER_PLAN.ko.md`:780): the POST to
  `/v1/responses` carries no key (`platformclaw-gateway.ts`:286).

## 6. Plan

Done: the service, the gateway client and the server, with proofs of all their safety properties.
Left, in this order:

1. AdapterService with ledger faults inside the attempt loop, and a property of the order in which
   notices and answers arrive; the proofs of IInv and TruthInv extended to them.
2. SessionDelivery on its own, with the order of acceptance as a history: that a message stands in one
   place of one line, and is answered only after all that were accepted before it in its session,
   as theorems of the abstract specification, which the refinement carries over to the service.
