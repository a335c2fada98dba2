--------------------------- MODULE AdapterService ---------------------------
(***************************************************************************)
(* KnoxAdapterService (src/src/service.ts) with the parts it calls: the    *)
(* SQLite ledger (store.ts), the POSTs to the Knox Proxy                   *)
(* (outbound-client.ts), and the gateway as process() sees it.             *)
(*                                                                         *)
(* Node.js runs one callback at a time, so a step of the model is the code *)
(* from one await that really waits to the next.  Everything in between is *)
(* part of that step: the ledger writes, the POST it issues, the next turn *)
(* of the attempt loop, and the session pump taking its next item.         *)
(***************************************************************************)
EXTENDS Naturals, Sequences, FiniteSets, Functions

CONSTANTS
    Messages,    \* the Knox messages, by messageId
    Sessions,    \* the session keys routing.ts may derive
    SessionOf,   \* the session key resolveRouting gives each message
    Configs,     \* the deployments considered: a set of Config records
    Faults,      \* what may stop the process: a subset of {"crash", "stop"}
    Watched      \* bound: the kinds of POST whose arrival at the Proxy is followed

Transports == {"websocket", "http-responses"}

\* What loadConfig may return, as far as the service looks at it.  "transports" is
\* what PLATFORMCLAW_TRANSPORT lets sendChat use: {"websocket"}, {"http-responses"},
\* or both ("auto", or "http-responses" with SKILL_HUB commands in the traffic).
Config == [maxRetry          : 0..5,
           transports        : (SUBSET Transports) \ {{}},
           stageUpdates      : BOOLEAN,
           requireActivation : BOOLEAN,
           outboundUrl       : BOOLEAN]

ASSUME ServiceAssumption ==
    /\ SessionOf \in [Messages -> Sessions]
    /\ Configs \subseteq Config /\ Configs # {}
    /\ Faults \subseteq {"crash", "stop"}

VARIABLES
    config,   \* the deployment's configuration, read at start and never changed
    mode,     \* "up"; "stopping": shutdown() ran, the ledger is closed; "down"
    store,    \* the inbound_messages table
    queue,    \* sessionQueues; a key the map does not hold is NoQueue
    frame,    \* frame[m]: the local variables of process(m), NoFrame outside it
    outbox,   \* every POST to the Proxy ever issued (outlives the process)
    inbox,    \* the ones that have reached the Proxy
    runs,     \* runs[m]: the agent runs the gateway started for m
    ended,    \* ended[m]: the ones among them that are over
    calls,    \* calls[m]: how often sendChat was called for m       (history)
    finals    \* finals[m]: how often sendFinal was called for m     (history)

memory  == <<queue, frame>>
proxy   == <<outbox, inbox>>
gateway == <<runs, ended>>
vars    == <<config, mode, store, memory, proxy, gateway, calls, finals>>

-----------------------------------------------------------------------------
(* The ledger.                                                             *)

Statuses == {"received", "routing_resolved", "queued", "gateway_accepted", "running",
             "final_received", "timed_out", "failed", "outbound_sent", "outbound_skipped"}

NoCode == "none"
Codes  == {NoCode, "employee_not_activated", "gateway_error", "gateway_timeout",
           "gateway_request_failed", "proxy_outbound_failed", "missing_outbound_url"}

Record   == [status : Statuses, errorCode : Codes]
NoRecord == [status |-> "absent", errorCode |-> NoCode]

\* updateProgress skips the fields the caller leaves undefined: a status alone keeps
\* the error code already in the row.
StatusOnly(m, status) == [store EXCEPT ![m].status = status]
StatusAndCode(m, status, code) == [store EXCEPT ![m] = [status |-> status, errorCode |-> code]]

-----------------------------------------------------------------------------
(* The session queues and the stack frames of process().                   *)

Phases == {"idle",         \* process(m) is not running and m waits in no queue
           "queued",       \* in items of its session's queue
           "activation",   \* awaiting isEmployeeActivated
           "sending",      \* awaiting gateway.sendChat
           "waiting",      \* awaiting gateway.waitForTerminal
           "outbound",     \* awaiting deliverTerminal inside the try of process()
           "gated"}        \* awaiting deliverTerminal of the activation gate: no try

Unanswered == {"queued", "activation", "sending", "waiting"}
Delivering == {"outbound", "gated"}

StageKinds    == {"compaction_start", "compaction_end"}
TerminalKinds == {"final", "error", "timeout"}
PostKinds     == {"queued"} \cup StageKinds \cup TerminalKinds

Frame == [phase     : Phases,
          attempt   : 0..5,                     \* loop variable of the attempt loop
          transport : Transports \cup {"none"}, \* acceptedTransport
          notified  : SUBSET StageKinds]        \* compactionState
NoFrame == [phase |-> "idle", attempt |-> 0, transport |-> "none", notified |-> {}]
InPhase(phase) == [NoFrame EXCEPT !.phase = phase]

InProcess(m) == frame[m].phase \notin {"idle", "queued"}

\* The first await of process(): the activation file when it is required, else sendChat.
FirstFrame == InPhase(IF config.requireActivation THEN "activation" ELSE "sending")
FirstCalls(m) == IF config.requireActivation THEN calls ELSE [calls EXCEPT ![m] = @ + 1]

Queue   == [running : BOOLEAN, items : Seq(Messages)]
NoQueue == [running |-> FALSE, items |-> <<>>]

-----------------------------------------------------------------------------
Init ==
    /\ config \in Configs
    /\ mode = "up"
    /\ store = [m \in Messages |-> NoRecord]
    /\ queue = [s \in Sessions |-> NoQueue]
    /\ frame = [m \in Messages |-> NoFrame]
    /\ outbox = {} /\ inbox = {}
    /\ runs = [m \in Messages |-> {}] /\ ended = [m \in Messages |-> {}]
    /\ calls = [m \in Messages |-> 0] /\ finals = [m \in Messages |-> 0]

\* sendPayload: the POST leaves at once, unless PROXY_OUTBOUND_URL is missing.
Post(m, kind) ==
    outbox' = IF config.outboundUrl THEN outbox \cup {[msg |-> m, kind |-> kind]} ELSE outbox

\* The call of sendFinal in deliverTerminal, up to its await.
IssueTerminal(m, kind) ==
    /\ Post(m, kind)
    /\ finals' = [finals EXCEPT ![m] = @ + 1]

\* Mutant: duplicates are recognised from memory, not from the ledger.
KnownInMemory(m) == frame[m] # NoFrame
\* The dedupe check of acceptInbound.
Known(m) == store[m] # NoRecord

\* Mutant: the pump does not see that another pump of the session is running.
PumpAlwaysFree(s) == TRUE
PumpFree(s) == ~queue[s].running

\* Mutant: a newcomer jumps the queue.
PushFront(items, m) == <<m>> \o items
Push(items, m) == Append(items, m)

QueueDepthAhead(s) == Len(queue[s].items) + (IF queue[s].running THEN 1 ELSE 0)

-----------------------------------------------------------------------------
(* acceptInbound: no await before its return, hence one step.  A duplicate *)
(* is answered from the ledger and changes nothing.                        *)

\* Nothing ahead in the session: the pump starts and process(m) runs to its first await.
AcceptAndStart(m) ==
    LET s == SessionOf[m] IN
    /\ mode = "up" /\ ~Known(m)
    /\ PumpFree(s) /\ queue[s].items = <<>>
    /\ store' = StatusAndCode(m, "routing_resolved", NoCode)
    /\ queue' = [queue EXCEPT ![s] = [running |-> TRUE, items |-> <<>>]]
    /\ frame' = [frame EXCEPT ![m] = FirstFrame]
    /\ calls' = FirstCalls(m)
    /\ UNCHANGED <<config, mode, proxy, gateway, finals>>

\* Something ahead: the row becomes "queued" and the notice is posted without awaiting it.
\* The pump called next returns at once, because the session's pump is running.
AcceptBehind(m) ==
    LET s == SessionOf[m] IN
    /\ mode = "up" /\ ~Known(m)
    /\ ~PumpFree(s) /\ QueueDepthAhead(s) > 0
    /\ store' = StatusAndCode(m, "queued", NoCode)
    /\ queue' = [queue EXCEPT ![s].items = Push(@, m)]
    /\ frame' = [frame EXCEPT ![m] = InPhase("queued")]
    /\ Post(m, "queued")
    /\ UNCHANGED <<config, mode, inbox, gateway, calls, finals>>

AcceptInbound(m) == AcceptAndStart(m) \/ AcceptBehind(m)

-----------------------------------------------------------------------------
(* pumpSessionQueue after process(m) has returned or thrown.               *)

\* Mutant: the pump gives up its loop after one message.
PumpNeverContinues(s) == FALSE
PumpContinues(s) == queue[s].items # <<>> /\ mode = "up"

\* Mutant: the flag is not reset when the loop ends.
NeverReleased == [running |-> TRUE, items |-> <<>>]
\* The finally of the pump: running is reset and the empty queue leaves the map.
Released == NoQueue

\* The loop shifts the next item and runs process() of it to its first await.
PumpNext(m) ==
    LET s == SessionOf[m]  n == Head(queue[s].items) IN
    /\ PumpContinues(s)
    /\ queue' = [queue EXCEPT ![s].items = Tail(@)]
    /\ frame' = [frame EXCEPT ![m] = NoFrame, ![n] = FirstFrame]
    /\ calls' = FirstCalls(n)

\* Nothing is left, or the ledger is closed: then getByMessageId throws at the top of every
\* remaining process(), the pump catches it, and the loop runs the queue empty.
PumpStops(m) ==
    LET s == SessionOf[m] IN
    /\ ~PumpContinues(s)
    /\ queue' = [queue EXCEPT ![s] = Released]
    /\ frame' = [x \in Messages |->
                   IF x = m \/ x \in Range(queue[s].items) THEN NoFrame ELSE frame[x]]
    /\ UNCHANGED calls

EndProcess(m) == PumpNext(m) \/ PumpStops(m)

-----------------------------------------------------------------------------
(* process(): the activation gate.                                         *)

ActivationOk(m) ==
    /\ frame[m].phase = "activation"
    /\ frame' = [frame EXCEPT ![m] = InPhase("sending")]
    /\ calls' = [calls EXCEPT ![m] = @ + 1]
    /\ UNCHANGED <<config, mode, store, queue, proxy, gateway, finals>>

RejectedRow(m) == StatusAndCode(m, "failed", "employee_not_activated")

ActivationRejected(m) ==
    /\ frame[m].phase = "activation"
    /\ \/ /\ mode = "up"
          /\ store' = RejectedRow(m)
          /\ frame' = [frame EXCEPT ![m].phase = "gated"]
          /\ IssueTerminal(m, "error")
          /\ UNCHANGED <<queue, calls>>
       \/ /\ mode = "stopping"          \* updateProgress throws out of process()
          /\ EndProcess(m)
          /\ UNCHANGED <<store, outbox, finals>>
    /\ UNCHANGED <<config, mode, inbox, gateway>>

-----------------------------------------------------------------------------
(* The gateway, as far as process() can tell: external.  A websocket       *)
(* chat.send carries the idempotency key messageId:eventId, so all of them *)
(* together start at most run 0.  A POST to /v1/responses carries none, so *)
(* the k-th call of sendChat may start a run k of its own.  A request may  *)
(* start its run long after the adapter stopped waiting for the reply.     *)

RunIds == 0..6

LiveRuns(m) == runs[m] \ ended[m]

RunMayStart(m, r) ==
    \/ r = 0 /\ calls[m] > 0 /\ "websocket" \in config.transports
    \/ r \in 1..calls[m] /\ "http-responses" \in config.transports

GatewayStarts(m, r) ==
    /\ RunMayStart(m, r) /\ r \notin runs[m]
    /\ runs' = [runs EXCEPT ![m] = @ \cup {r}]
    /\ UNCHANGED <<config, mode, store, memory, proxy, ended, calls, finals>>

GatewayEnds(m, r) ==
    /\ r \in LiveRuns(m)
    /\ ended' = [ended EXCEPT ![m] = @ \cup {r}]
    /\ UNCHANGED <<config, mode, store, memory, proxy, runs, calls, finals>>

-----------------------------------------------------------------------------
(* process(): the attempt loop.                                            *)

\* Mutant: the gateway's word is stored where a ledger status belongs.
GatewayWord(outcome) == outcome
TerminalStatus(outcome) ==
    CASE outcome = "final"   -> "final_received"
      [] outcome = "timeout" -> "timed_out"
      [] outcome = "error"   -> "failed"

\* Mutant: a timeout leaves no error code.
TimeoutUncoded(m, outcome) == IF outcome = "error" THEN "gateway_error" ELSE store[m].errorCode
\* An aborted run is an "error" here: it differs in the error code's wording only.
TerminalCode(m, outcome) ==
    CASE outcome = "final"   -> store[m].errorCode
      [] outcome = "timeout" -> "gateway_timeout"
      [] outcome = "error"   -> "gateway_error"

TerminalRow(m, outcome) == StatusAndCode(m, TerminalStatus(outcome), TerminalCode(m, outcome))

\* The terminal event ends the loop: status, unsubscribe, deliverTerminal to its await.
TerminalReceived(m, outcome, transport) ==
    /\ mode = "up"
    /\ store' = TerminalRow(m, outcome)
    /\ frame' = [frame EXCEPT ![m].phase = "outbound", ![m].transport = transport]
    /\ IssueTerminal(m, outcome)
    /\ UNCHANGED <<config, mode, queue, inbox, gateway, calls>>

\* chat.send was accepted over the websocket; waitForTerminal starts its timer.
SendChatAccepted(m) ==
    /\ frame[m].phase = "sending" /\ mode = "up"
    /\ 0 \in runs[m]
    /\ store' = StatusOnly(m, "running")
    /\ frame' = [frame EXCEPT ![m].phase = "waiting", ![m].transport = "websocket"]
    /\ UNCHANGED <<config, mode, queue, proxy, gateway, calls, finals>>

\* sendChatViaHttpResponses resolves only when the run is over, or aborted by its timer; the
\* terminal is then at hand and waitForTerminal resolves without waiting.
HttpReply(m, outcome) ==
    /\ frame[m].phase = "sending"
    /\ "http-responses" \in config.transports
    /\ \/ outcome = "final" /\ (frame[m].attempt + 1) \in ended[m]
       \/ outcome = "timeout"

HttpAnswered(m, outcome) ==
    /\ HttpReply(m, outcome)
    /\ TerminalReceived(m, outcome, "http-responses")

\* The waiter is resolved by a chat event of the ended run, or by its own timer.
ChatEvent(m, outcome) ==
    /\ frame[m].phase = "waiting"
    /\ outcome \in {"final", "error"} => 0 \in ended[m]

ChatTerminal(m, outcome) ==
    /\ ChatEvent(m, outcome)
    /\ TerminalReceived(m, outcome, "websocket")

\* Mutant: one attempt too many.
OffByOneRetriesLeft(m) == frame[m].attempt <= config.maxRetry
RetriesLeft(m) == frame[m].attempt < config.maxRetry

\* An attempt fails when sendChat throws.  Once shutdown() has closed the ledger it also fails
\* when sendChat or waitForTerminal succeeds, at the updateProgress that follows.
AttemptFails(m) ==
    \/ frame[m].phase = "sending"
    \/ frame[m].phase = "waiting" /\ mode = "stopping"

Retry(m) ==
    /\ AttemptFails(m) /\ RetriesLeft(m)
    /\ frame' = [frame EXCEPT ![m].phase = "sending", ![m].attempt = @ + 1]
    /\ calls' = [calls EXCEPT ![m] = @ + 1]
    /\ UNCHANGED <<config, mode, store, queue, proxy, gateway, finals>>

GivenUpRow(m) == StatusAndCode(m, "failed", "gateway_request_failed")

GiveUp(m) ==
    /\ AttemptFails(m) /\ ~RetriesLeft(m)
    /\ \/ /\ mode = "up"
          /\ store' = GivenUpRow(m)
          /\ frame' = [frame EXCEPT ![m].phase = "outbound"]
          /\ IssueTerminal(m, "error")
          /\ UNCHANGED <<queue, calls>>
       \/ /\ mode = "stopping"          \* updateProgress throws out of process()
          /\ EndProcess(m)
          /\ UNCHANGED <<store, outbox, finals>>
    /\ UNCHANGED <<config, mode, inbox, gateway>>

-----------------------------------------------------------------------------
(* deliverTerminal, from its await on.  With a closed ledger the write of  *)
(* the result throws, the catch of process() throws again, and the row     *)
(* stays as it is.                                                         *)

Resolve(m, row) ==
    /\ store' = IF mode = "up" THEN row ELSE store
    /\ EndProcess(m)
    /\ UNCHANGED <<config, mode, proxy, gateway, finals>>

\* Mutant: the POST is not awaited.
AssumeAccepted(m) == TRUE
\* A 2xx reply: the Proxy has the terminal POST of m.
AcceptedByProxy(m) == \E kind \in TerminalKinds : [msg |-> m, kind |-> kind] \in inbox

OutboundDelivered(m) ==
    /\ frame[m].phase \in Delivering /\ config.outboundUrl
    /\ AcceptedByProxy(m)
    /\ Resolve(m, StatusOnly(m, "outbound_sent"))

OutboundSkipped(m) ==
    /\ frame[m].phase \in Delivering /\ ~config.outboundUrl
    /\ Resolve(m, StatusAndCode(m, "outbound_skipped", "missing_outbound_url"))

\* Mutant: a failed delivery runs the message through the gateway again.
OutboundFailedRerun(m) ==
    /\ frame[m].phase = "outbound" /\ config.outboundUrl /\ mode = "up"
    /\ store' = StatusAndCode(m, "failed", "proxy_outbound_failed")
    /\ frame' = [frame EXCEPT ![m].phase = "sending"]
    /\ calls' = [calls EXCEPT ![m] = @ + 1]
    /\ UNCHANGED <<config, mode, queue, proxy, gateway, finals>>

\* fetch threw, the abort timer fired, or the reply was not 2xx.  The Proxy may have the POST
\* all the same, or get it later.  The gate's delivery has no catch: its row is not touched.
OutboundFailed(m) ==
    /\ frame[m].phase \in Delivering /\ config.outboundUrl
    /\ Resolve(m, IF frame[m].phase = "outbound"
                  THEN StatusAndCode(m, "failed", "proxy_outbound_failed")
                  ELSE store)

-----------------------------------------------------------------------------
(* Compaction events, and the network to the Proxy.                        *)

\* Mutant: the listener is unsubscribed after the delivery, not before it.
ListeningTooLong == {"sending", "waiting", "outbound"}
\* Where process() has its compaction listener subscribed.
Listening == {"sending", "waiting"}

\* The filter of the listener: m has a run id to compare only after a websocket accept, and
\* an event without a runId passes.
ConcernsRun(m, x, named) == frame[m].transport = "websocket" /\ named => x = m

\* A run of x compacts the context of its session, and m's listener hears of it; the event
\* may or may not name the run.  Each kind is notified once per process(m), and an end that
\* is not "completed" is ignored.
CompactionEvent(m, x, named, kind) ==
    /\ mode = "up" /\ config.stageUpdates
    /\ SessionOf[x] = SessionOf[m] /\ LiveRuns(x) # {}
    /\ frame[m].phase \in Listening
    /\ ConcernsRun(m, x, named)
    /\ kind \notin frame[m].notified
    /\ frame' = [frame EXCEPT ![m].notified = @ \cup {kind}]
    /\ Post(m, kind)
    /\ UNCHANGED <<config, mode, store, queue, inbox, gateway, calls, finals>>

\* A POST arrives: in any order, and perhaps after the adapter stopped waiting for the reply.
ProxyReceives(post) ==
    /\ post \in outbox \ inbox /\ post.kind \in Watched
    /\ inbox' = inbox \cup {post}
    /\ UNCHANGED <<config, mode, store, memory, outbox, gateway, calls, finals>>

-----------------------------------------------------------------------------
(* The process: shutdown, crash and restart.                               *)

\* The signal handler closes the ledger at once; the callbacks in flight go on.
Shutdown ==
    /\ "stop" \in Faults /\ mode = "up"
    /\ mode' = "stopping"
    /\ UNCHANGED <<config, store, memory, proxy, gateway, calls, finals>>

MemoryLost ==
    /\ mode' = "down"
    /\ queue' = [s \in Sessions |-> NoQueue]
    /\ frame' = [m \in Messages |-> NoFrame]
    /\ UNCHANGED <<config, proxy, gateway, calls, finals>>

\* process.exit(0) once the last HTTP connection is closed, whatever process() still awaits.
Exit ==
    /\ mode = "stopping"
    /\ MemoryLost
    /\ UNCHANGED store

Crash ==
    /\ "crash" \in Faults /\ mode = "up"
    /\ MemoryLost
    /\ UNCHANGED store

\* A crash between two ledger writes of one step: each write is a transaction of its own.
CrashInAccept(m) ==
    /\ "crash" \in Faults /\ mode = "up" /\ ~Known(m)
    /\ \E status \in {"received", "routing_resolved"} : store' = StatusAndCode(m, status, NoCode)
    /\ MemoryLost

\* The same in process(): a write is on disk, what follows it in the step never happens.
CrashInProcess(m) ==
    /\ "crash" \in Faults /\ mode = "up"
    /\ \/ /\ frame[m].phase = "activation"
          /\ store' = RejectedRow(m)
       \/ /\ frame[m].phase = "sending"
          /\ 0 \in runs[m] \/ "http-responses" \in config.transports
          /\ \E status \in {"gateway_accepted", "running"} : store' = StatusOnly(m, status)
       \/ /\ AttemptFails(m) /\ ~RetriesLeft(m)
          /\ store' = GivenUpRow(m)
       \/ \E outcome \in TerminalKinds :
             /\ HttpReply(m, outcome) \/ ChatEvent(m, outcome)
             /\ store' = TerminalRow(m, outcome)
    /\ MemoryLost

\* server.ts builds everything anew; nothing reads the ledger for unfinished messages.
Restart ==
    /\ mode = "down"
    /\ mode' = "up"
    /\ UNCHANGED <<config, store, memory, proxy, gateway, calls, finals>>

-----------------------------------------------------------------------------
Activation(m) == ActivationOk(m) \/ ActivationRejected(m)
SendChat(m)   == \/ SendChatAccepted(m) \/ Retry(m) \/ GiveUp(m)
                 \/ \E outcome \in {"final", "timeout"} : HttpAnswered(m, outcome)
WaitForTerminal(m) == \E outcome \in TerminalKinds : ChatTerminal(m, outcome)
Delivery(m)   == OutboundDelivered(m) \/ OutboundSkipped(m) \/ OutboundFailed(m)

Process(m) == Activation(m) \/ SendChat(m) \/ WaitForTerminal(m) \/ Delivery(m)

External ==
    \/ \E m \in Messages, r \in RunIds : GatewayStarts(m, r) \/ GatewayEnds(m, r)
    \/ \E post \in outbox : ProxyReceives(post)

Stop == \/ Shutdown \/ Exit \/ Crash
        \/ \E m \in Messages : CrashInAccept(m) \/ CrashInProcess(m)

Next ==
    \/ \E m \in Messages : AcceptInbound(m) \/ Process(m)
    \/ \E m, x \in Messages, named \in BOOLEAN, kind \in StageKinds :
           CompactionEvent(m, x, named, kind)
    \/ External
    \/ Stop
    \/ Restart

Spec == Init /\ [][Next]_vars

\* Every await of process() ends: readFile settles; the open, challenge, request and run timers
\* of the gateway client bound sendChat and waitForTerminal; an abort timer bounds the POST.
\* Nothing is assumed of the Proxy, the gateway or whoever restarts the process.
Fairness ==
    \A m \in Messages : /\ WF_vars(Activation(m))
                        /\ WF_vars(SendChat(m))
                        /\ WF_vars(WaitForTerminal(m))
                        /\ WF_vars(Delivery(m))

FairSpec == Spec /\ Fairness
FairSpecWithRestart == FairSpec /\ WF_vars(Restart)

-----------------------------------------------------------------------------
(* Properties.                                                             *)

\* Every variable keeps its type: in particular the rows hold ledger statuses and codes only.
TypeOK ==
    /\ config \in Configs
    /\ mode \in {"up", "stopping", "down"}
    /\ store \in [Messages -> Record \cup {NoRecord}]
    /\ queue \in [Sessions -> Queue]
    /\ frame \in [Messages -> Frame]
    /\ outbox \subseteq [msg : Messages, kind : PostKinds] /\ inbox \subseteq outbox
    /\ runs \in [Messages -> SUBSET RunIds] /\ ended \in [Messages -> SUBSET RunIds]
    /\ calls \in [Messages -> Nat] /\ finals \in [Messages -> Nat]

\* enqueueBySession and pumpSessionQueue together let at most one process() of a session be
\* between its first and its last await.
SessionMutex ==
    \A m, n \in Messages : InProcess(m) /\ InProcess(n) /\ SessionOf[m] = SessionOf[n] => m = n

\* No wakeup is lost: a session's pump is marked running exactly while one of its messages is
\* in process(), only then may messages wait, and those waiting are the ones in items.
NoStrandedQueue ==
    \A s \in Sessions :
        /\ queue[s].running <=> \E m \in Messages : SessionOf[m] = s /\ InProcess(m)
        /\ ~queue[s].running => queue[s].items = <<>>
        /\ {m \in Messages : SessionOf[m] = s /\ frame[m].phase = "queued"} = Range(queue[s].items)

\* Proxy users see at most one terminal answer per message, whatever is retried, duplicated,
\* stopped or restarted: sendFinal is called at most once for a message.
AnswerAtMostOnce == \A m \in Messages : finals[m] <= 1

\* sendChat is called at most MAX_RETRY_ATTEMPTS + 1 times for a message, over all its retries
\* and all restarts of the process.
AttemptBudget == \A m \in Messages : calls[m] <= config.maxRetry + 1

\* The session queue serialises the agent's runs as well, as far as it can: while the process
\* is not stopped, two messages of a session have live runs together only if the adapter gave
\* one of them up: its row has an error code.
SerialUntilGivenUp ==
    \A m, n \in Messages :
        m # n /\ SessionOf[m] = SessionOf[n] /\ LiveRuns(m) # {} /\ LiveRuns(n) # {} =>
            \E x \in {m, n} : store[x].errorCode # NoCode

\* An outbound_sent row is the truth about the answer: the Proxy has a terminal POST of the
\* message, and it is the agent's text exactly when the row carries no error code.
LedgerTellsTruth ==
    \A m \in Messages : store[m].status = "outbound_sent" =>
        /\ \E kind \in TerminalKinds : [msg |-> m, kind |-> kind] \in inbox
        /\ [msg |-> m, kind |-> "final"] \in inbox <=> store[m].errorCode = NoCode

\* No compaction notice of a message is issued once its terminal answer has been: process()
\* unsubscribes its listener before it delivers.
NoStageAfterTerminal ==
    [][\A m \in Messages, kind \in StageKinds :
          [msg |-> m, kind |-> kind] \in outbox' \ outbox => finals[m] = 0]_vars

\* "Outbound failure must not lead to a gateway rerun" (KNOX_PROXY_API.ko.md): once an answer
\* was issued, sendChat is never called again for the message, not even after a restart.
NoRerunAfterAnswer ==
    [][\A m \in Messages : finals[m] > 0 => calls'[m] = calls[m]]_vars

\* The line of a session: the unanswered message its process() is at, then the waiting ones.
UnansweredIn(s) == {m \in Messages : /\ SessionOf[m] = s
                                     /\ InProcess(m) /\ frame[m].phase \in Unanswered}
Line(s) == IF UnansweredIn(s) = {} THEN queue[s].items
           ELSE <<CHOOSE m \in UnansweredIn(s) : TRUE>> \o queue[s].items
Outcome(m) == IF finals[m] > 0                      THEN "answered"
              ELSE IF frame[m].phase \in Unanswered THEN "pending"
              ELSE IF store[m] = NoRecord           THEN "new"
              ELSE "lost"

Abstract == INSTANCE SessionDelivery WITH
                line    <- [s \in Sessions |-> Line(s)],
                outcome <- [m \in Messages |-> Outcome(m)],
                open    <- mode = "up"

\* The service implements SessionDelivery: a session's messages are answered in the order in
\* which they were accepted, one at a time, at most once, and none is dropped while it is up.
AnsweredInOrder == Abstract!Spec

\* Every accepted message is answered, as long as the process is not stopped: a failing or
\* silent gateway or Proxy delays the messages behind it but never blocks them.
EveryAcceptedAnswered ==
    \A m \in Messages : Known(m) ~> finals[m] > 0

\* No session stays in sessionQueues for good: its pump ends and its entry is deleted.
SessionsReleased == \A s \in Sessions : queue[s].running ~> queue[s] = NoQueue

-----------------------------------------------------------------------------
(* The inductive invariant behind the safety properties.                   *)

Waiting(m) == frame[m].phase = "queued"

\* A pump is running exactly while one process() of its session is; the messages marked as
\* waiting are the items of its queue, each of them once.
QueueInv ==
    /\ SessionMutex
    /\ \A s \in Sessions : queue[s].running <=> \E m \in Messages : SessionOf[m] = s /\ InProcess(m)
    /\ \A s \in Sessions : ~queue[s].running => queue[s].items = <<>>
    /\ \A s \in Sessions, m \in Messages :
          SessionOf[m] = s /\ Waiting(m) <=> \E i \in 1..Len(queue[s].items) : queue[s].items[i] = m
    /\ \A s \in Sessions : \A i, j \in 1..Len(queue[s].items) :
          queue[s].items[i] = queue[s].items[j] => i = j

\* How often sendChat and sendFinal have been called follows from where process(m) stands; a
\* message without a row was never touched, which is what makes the dedupe check sufficient.
HistoryInv ==
    \A m \in Messages :
        /\ finals[m] \in {0, 1}
        /\ frame[m].phase \in Unanswered => finals[m] = 0
        /\ frame[m].phase \in Delivering => finals[m] = 1
        /\ frame[m].phase \in {"queued", "activation"} => calls[m] = 0
        /\ frame[m].phase \in {"sending", "waiting"} =>
              calls[m] = frame[m].attempt + 1 /\ frame[m].attempt <= config.maxRetry
        /\ calls[m] <= config.maxRetry + 1
        /\ store[m] = NoRecord => frame[m].phase = "idle" /\ finals[m] = 0 /\ calls[m] = 0

\* Nothing but the ledger survives the process.
DownInv ==
    mode = "down" => /\ \A s \in Sessions : queue[s] = NoQueue
                     /\ \A m \in Messages : frame[m] = NoFrame

IInv == TypeOK /\ QueueInv /\ HistoryInv /\ DownInv

\* The answers that were posted for m, and whether its row tells which one it was.
Answers(m)    == {kind \in TerminalKinds : [msg |-> m, kind |-> kind] \in outbox}
RowTells(m)   == \A kind \in Answers(m) : kind = "final" <=> store[m].errorCode = NoCode

\* The row and the answers of a message, from its accept to its outbound_sent: there is no
\* error code before the answer, the answer is posted with the row that tells of it, and the
\* status alone is written afterwards.
TruthInv ==
    \A m \in Messages :
        /\ finals[m] = 0 => Answers(m) = {}
        /\ frame[m].phase \in Unanswered => store[m].errorCode = NoCode
        /\ frame[m].phase \in Delivering => RowTells(m)
        /\ store[m].status = "outbound_sent" =>
              /\ frame[m].phase = "idle" /\ RowTells(m)
              /\ \E kind \in TerminalKinds : [msg |-> m, kind |-> kind] \in inbox

\* With one idempotency key per message there is one run, and a row without an error code
\* means that the adapter still waits for it or has seen its end.
SerialInv ==
    /\ mode = "up"
    /\ \A m \in Messages :
          /\ runs[m] \subseteq {0}
          /\ calls[m] = 0 => runs[m] = {}
          /\ calls[m] > 0 /\ store[m].errorCode = NoCode =>
                frame[m].phase \in {"sending", "waiting"} \/ 0 \in ended[m]

-----------------------------------------------------------------------------
(* What the documents promise and the code does not keep.                  *)

\* "state recovery after restart" (ADAPTER_PLAN.ko.md, 10.3): a message the adapter accepted
\* is answered even if the process is restarted in between, provided it stays up at last.
AnsweredAfterRestart ==
    <>[](mode = "up") => \A m \in Messages : Known(m) ~> finals[m] > 0

\* "on shutdown, in-flight work is drained" (ADAPTER_PLAN.ko.md, 10.3): while the process is
\* shutting down and still runs, it does not let go of a message it has not answered.
ShutdownDrains ==
    [][\A m \in Messages :
          mode = "stopping" /\ mode' = "stopping" /\ frame[m].phase \in Unanswered =>
              frame'[m].phase # "idle"]_vars

\* "one retry on a gateway timeout" (ADAPTER_PLAN.ko.md, 10.3.1): a run that timed out is not
\* reported to the Proxy while attempts are left.
TimeoutIsRetried ==
    \A m \in Messages :
        [msg |-> m, kind |-> "timeout"] \in outbox => calls[m] > config.maxRetry

\* "a failed Proxy outbound must always be left as a status" (ADAPTER_PLAN.ko.md): a message
\* whose processing is over is on the ledger as sent, skipped, or failed to be sent.
OutboundFailureRecorded ==
    \A m \in Messages :
        mode = "up" /\ frame[m].phase = "idle" /\ finals[m] > 0 =>
            \/ store[m].status \in {"outbound_sent", "outbound_skipped"}
            \/ store[m].errorCode = "proxy_outbound_failed"
=============================================================================
