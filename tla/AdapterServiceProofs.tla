------------------------ MODULE AdapterServiceProofs ------------------------
(***************************************************************************)
(* Theorems about AdapterService, for every set of messages and sessions,  *)
(* every deployment and every combination of faults.                       *)
(*                                                                         *)
(* All of them rest on one inductive invariant, IInv of AdapterService:    *)
(* TypeOK first (TypeInductive), then QueueInv, kept by the four ways a    *)
(* step touches a session queue (start, behind, next, stops), then         *)
(* HistoryInv, which ties the call counts to where process() stands.       *)
(***************************************************************************)
EXTENDS AdapterService, TLAPS

USE ServiceAssumption DEF Transports

(* Type correctness: what each helper and each kind of update returns.      *)

\* The frame a message enters process() with is a frame.
LEMMA FirstFrameType == FirstFrame \in Frame
  BY DEF FirstFrame, InPhase, NoFrame, Frame, Phases, StageKinds

\* So is the frame of a message outside process().
LEMMA NoFrameType == NoFrame \in Frame
  BY DEF NoFrame, Frame, Phases, StageKinds

\* Moving a frame to another phase, or noting the transport as well, keeps its type.
LEMMA PhaseType ==
  ASSUME TypeOK, NEW m \in Messages, NEW phase \in Phases, NEW transport \in Transports
  PROVE  /\ [frame EXCEPT ![m].phase = phase] \in [Messages -> Frame]
         /\ [frame EXCEPT ![m].phase = phase, ![m].transport = transport] \in [Messages -> Frame]
<1>1. frame[m] \in Frame
  BY DEF TypeOK
<1>2. [frame[m] EXCEPT !.phase = phase] \in Frame
  BY <1>1 DEF Frame
<1>3. [frame EXCEPT ![m].phase = phase] \in [Messages -> Frame]
  BY <1>2 DEF TypeOK
<1>4. [[frame EXCEPT ![m].phase = phase][m] EXCEPT !.transport = transport] \in Frame
  BY <1>3 DEF Frame
<1>5. [frame EXCEPT ![m].phase = phase, ![m].transport = transport] \in [Messages -> Frame]
  BY <1>3, <1>4
<1> QED BY <1>3, <1>5

\* So does noting a compaction notice.
LEMMA NotifiedType ==
  ASSUME TypeOK, NEW m \in Messages, NEW kind \in StageKinds
  PROVE  [frame EXCEPT ![m].notified = @ \cup {kind}] \in [Messages -> Frame]
<1>1. frame[m] \in Frame /\ frame[m].notified \cup {kind} \in SUBSET StageKinds
  BY DEF TypeOK, Frame
<1>2. [frame[m] EXCEPT !.notified = @ \cup {kind}] \in Frame
  BY <1>1 DEF Frame
<1> QED BY <1>2 DEF TypeOK

\* The pump takes its next item from a queue of messages, and leaves such a queue.
LEMMA PumpNextType ==
  ASSUME TypeOK, NEW m \in Messages, PumpNext(m)
  PROVE  queue' \in [Sessions -> Queue] /\ frame' \in [Messages -> Frame] /\ calls' \in [Messages -> Nat]
<1> DEFINE s == SessionOf[m]
           n == Head(queue[s].items)
<1>1. s \in Sessions /\ queue[s] \in Queue /\ queue[s].items \in Seq(Messages) /\ queue[s].items # <<>>
  BY DEF TypeOK, PumpNext, PumpContinues, Queue
<1>2. n \in Messages /\ Tail(queue[s].items) \in Seq(Messages)
  BY <1>1
<1>3. queue' \in [Sessions -> Queue]
  BY <1>1, <1>2 DEF TypeOK, PumpNext, Queue
<1>4. frame' \in [Messages -> Frame]
  BY <1>2, FirstFrameType, NoFrameType DEF TypeOK, PumpNext
<1>5. calls' \in [Messages -> Nat]
  BY <1>2 DEF TypeOK, PumpNext, FirstCalls
<1> QED BY <1>3, <1>4, <1>5

\* A pump that stops leaves the empty queue and idle frames.
LEMMA PumpStopsType ==
  ASSUME TypeOK, NEW m \in Messages, PumpStops(m)
  PROVE  queue' \in [Sessions -> Queue] /\ frame' \in [Messages -> Frame] /\ calls' \in [Messages -> Nat]
<1>1. NoQueue \in Queue
  BY DEF NoQueue, Queue
<1> QED BY <1>1, NoFrameType DEF TypeOK, PumpStops, Released

\* Both ways process() of a message can end keep the types.
LEMMA EndProcessType ==
  ASSUME TypeOK, NEW m \in Messages, EndProcess(m)
  PROVE  queue' \in [Sessions -> Queue] /\ frame' \in [Messages -> Frame] /\ calls' \in [Messages -> Nat]
  BY PumpNextType, PumpStopsType DEF EndProcess

\* A row written by updateProgress with a status and a code is a ledger record.
LEMMA RowType ==
  ASSUME TypeOK, NEW m \in Messages, NEW status \in Statuses, NEW code \in Codes
  PROVE  StatusAndCode(m, status, code) \in [Messages -> Record \cup {NoRecord}]
  BY DEF TypeOK, StatusAndCode, Record

\* A POST only adds to the outbox.
LEMMA PostType ==
  ASSUME TypeOK, NEW m \in Messages, NEW kind \in PostKinds, Post(m, kind)
  PROVE  outbox' \subseteq [msg : Messages, kind : PostKinds] /\ outbox \subseteq outbox'
  BY DEF TypeOK, Post

\* sendFinal only adds to the outbox and counts itself.
LEMMA IssueType ==
  ASSUME TypeOK, NEW m \in Messages, NEW kind \in TerminalKinds, IssueTerminal(m, kind)
  PROVE  /\ outbox' \subseteq [msg : Messages, kind : PostKinds] /\ outbox \subseteq outbox'
         /\ finals' \in [Messages -> Nat]
<1>1. kind \in PostKinds
  BY DEF PostKinds
<1> QED BY <1>1, PostType DEF TypeOK, IssueTerminal

\* The end of the process keeps the types, whatever ledger write it interrupts.
LEMMA MemoryLostType ==
  ASSUME TypeOK, MemoryLost, store' \in [Messages -> Record \cup {NoRecord}]
  PROVE  TypeOK'
<1>1. NoQueue \in Queue
  BY DEF NoQueue, Queue
<1>2. queue' \in [Sessions -> Queue] /\ frame' \in [Messages -> Frame]
  BY <1>1, NoFrameType DEF MemoryLost
<1> QED BY <1>2 DEF TypeOK, MemoryLost, proxy, gateway

\* A row of which updateProgress writes the status alone stays a ledger record.
LEMMA StatusType ==
  ASSUME TypeOK, NEW m \in Messages, NEW status \in Statuses
  PROVE  StatusOnly(m, status) \in [Messages -> Record \cup {NoRecord}]
<1>1. [store[m] EXCEPT !.status = status] \in Record
  BY DEF TypeOK, Record, NoRecord, Codes, NoCode
<1> QED BY <1>1 DEF TypeOK, StatusOnly

\* So does the row of a terminal event, whose status and code are derived from its outcome.
LEMMA TerminalRowType ==
  ASSUME TypeOK, NEW m \in Messages, NEW outcome \in TerminalKinds
  PROVE  TerminalRow(m, outcome) \in [Messages -> Record \cup {NoRecord}]
<1>1. TerminalStatus(outcome) \in Statuses
  BY DEF TerminalStatus, TerminalKinds, Statuses
<1>2. store[m].errorCode \in Codes
  BY DEF TypeOK, Record, NoRecord, Codes, NoCode
<1>3. TerminalCode(m, outcome) \in Codes
  BY <1>2 DEF TerminalCode, TerminalKinds, Codes
<1> QED BY <1>1, <1>3, RowType DEF TerminalRow

\* The step that ends the attempt loop keeps the types.
LEMMA TerminalReceivedType ==
  ASSUME TypeOK, NEW m \in Messages, NEW outcome \in TerminalKinds, NEW transport \in Transports,
         TerminalReceived(m, outcome, transport)
  PROVE  TypeOK'
<1>1. store' \in [Messages -> Record \cup {NoRecord}]
  BY TerminalRowType DEF TerminalReceived
<1>2. frame' \in [Messages -> Frame]
  BY PhaseType DEF TerminalReceived, Phases
<1> QED BY <1>1, <1>2, IssueType DEF TypeOK, TerminalReceived, gateway

\* The initial states are well typed.
LEMMA TypeInitial == Init => TypeOK
<1> SUFFICES ASSUME Init PROVE TypeOK
  OBVIOUS
<1>1. NoQueue \in Queue
  BY DEF NoQueue, Queue
<1> QED BY <1>1, NoFrameType DEF Init, TypeOK, RunIds

\* Every step of the adapter, the gateway, the Proxy and the process keeps the types.
LEMMA TypeInductive == TypeOK /\ [Next]_vars => TypeOK'
<1> SUFFICES ASSUME TypeOK, [Next]_vars PROVE TypeOK'
  OBVIOUS
<1> USE DEF memory, proxy, gateway
<1>1. ASSUME NEW m \in Messages, AcceptInbound(m) PROVE TypeOK'
  <2>1. CASE AcceptAndStart(m)
    <3>1. store' \in [Messages -> Record \cup {NoRecord}]
      BY <2>1, RowType DEF AcceptAndStart, Statuses, Codes, NoCode
    <3>2. queue' \in [Sessions -> Queue]
      BY <2>1 DEF AcceptAndStart, TypeOK, Queue
    <3>3. frame' \in [Messages -> Frame] /\ calls' \in [Messages -> Nat]
      BY <2>1, FirstFrameType DEF AcceptAndStart, TypeOK, FirstCalls
    <3> QED BY <2>1, <3>1, <3>2, <3>3 DEF AcceptAndStart, TypeOK
  <2>2. CASE AcceptBehind(m)
    <3>1. store' \in [Messages -> Record \cup {NoRecord}]
      BY <2>2, RowType DEF AcceptBehind, Statuses, Codes, NoCode
    <3>2. queue' \in [Sessions -> Queue]
      <4>1. queue[SessionOf[m]] \in Queue
        BY DEF TypeOK
      <4>2. [queue[SessionOf[m]] EXCEPT !.items = Append(@, m)] \in Queue
        BY <4>1 DEF Queue
      <4> QED BY <2>2, <4>2 DEF AcceptBehind, TypeOK, Push
    <3>3. frame' \in [Messages -> Frame]
      BY <2>2 DEF AcceptBehind, TypeOK, InPhase, NoFrame, Frame, Phases, StageKinds
    <3>4. outbox' \subseteq [msg : Messages, kind : PostKinds] /\ outbox \subseteq outbox'
      BY <2>2, PostType DEF AcceptBehind, PostKinds
    <3> QED BY <2>2, <3>1, <3>2, <3>3, <3>4 DEF AcceptBehind, TypeOK
  <2> QED BY <1>1, <2>1, <2>2 DEF AcceptInbound
<1>2. ASSUME NEW m \in Messages, Activation(m) PROVE TypeOK'
  <2>1. CASE ActivationOk(m)
    BY <2>1 DEF ActivationOk, TypeOK, InPhase, NoFrame, Frame, Phases, StageKinds
  <2>2. CASE ActivationRejected(m) /\ mode = "up"
    <3>1. store' \in [Messages -> Record \cup {NoRecord}]
      BY <2>2, RowType DEF ActivationRejected, RejectedRow, Statuses, Codes
    <3>2. frame' \in [Messages -> Frame]
      <4>1. frame' = [frame EXCEPT ![m].phase = "gated"]
        BY <2>2 DEF ActivationRejected
      <4> QED BY <4>1, PhaseType DEF Phases
    <3>3. IssueTerminal(m, "error") /\ "error" \in TerminalKinds
      BY <2>2 DEF ActivationRejected, TerminalKinds
    <3> QED BY <2>2, <3>1, <3>2, <3>3, IssueType DEF ActivationRejected, TypeOK
  <2>3. CASE ActivationRejected(m) /\ mode # "up"
    <3>1. EndProcess(m)
      BY <2>3 DEF ActivationRejected
    <3> QED BY <2>3, <3>1, EndProcessType DEF ActivationRejected, TypeOK
  <2> QED BY <1>2, <2>1, <2>2, <2>3 DEF Activation
<1>3. ASSUME NEW m \in Messages, SendChat(m) PROVE TypeOK'
  <2>1. CASE SendChatAccepted(m)
    <3>1. store' \in [Messages -> Record \cup {NoRecord}]
      BY <2>1, StatusType DEF SendChatAccepted, Statuses
    <3>2. frame' \in [Messages -> Frame]
      BY <2>1, PhaseType DEF SendChatAccepted, Phases
    <3> QED BY <2>1, <3>1, <3>2 DEF SendChatAccepted, TypeOK
  <2>2. CASE Retry(m)
    <3>1. config.maxRetry \in 0..5
      BY DEF TypeOK, Config
    <3>2. frame' \in [Messages -> Frame]
      BY <2>2, <3>1 DEF Retry, RetriesLeft, TypeOK, Frame, Phases
    <3> QED BY <2>2, <3>2 DEF Retry, TypeOK
  <2>3. CASE GiveUp(m) /\ mode = "up"
    <3>1. store' \in [Messages -> Record \cup {NoRecord}]
      BY <2>3, RowType DEF GiveUp, GivenUpRow, Statuses, Codes
    <3>2. frame' \in [Messages -> Frame]
      <4>1. frame' = [frame EXCEPT ![m].phase = "outbound"]
        BY <2>3 DEF GiveUp
      <4> QED BY <4>1, PhaseType DEF Phases
    <3>3. IssueTerminal(m, "error") /\ "error" \in TerminalKinds
      BY <2>3 DEF GiveUp, TerminalKinds
    <3> QED BY <2>3, <3>1, <3>2, <3>3, IssueType DEF GiveUp, TypeOK
  <2>4. CASE GiveUp(m) /\ mode # "up"
    <3>1. EndProcess(m)
      BY <2>4 DEF GiveUp
    <3> QED BY <2>4, <3>1, EndProcessType DEF GiveUp, TypeOK
  <2>5. ASSUME NEW outcome \in {"final", "timeout"}, HttpAnswered(m, outcome) PROVE TypeOK'
    BY <2>5, TerminalReceivedType DEF HttpAnswered, TerminalKinds
  <2> QED BY <1>3, <2>1, <2>2, <2>3, <2>4, <2>5 DEF SendChat
<1>4. ASSUME NEW m \in Messages, WaitForTerminal(m) PROVE TypeOK'
  <2> PICK outcome \in TerminalKinds : ChatTerminal(m, outcome)
    BY <1>4 DEF WaitForTerminal
  <2> QED BY TerminalReceivedType DEF ChatTerminal
<1>5. ASSUME NEW m \in Messages, Delivery(m) PROVE TypeOK'
  <2>1. ASSUME NEW row \in [Messages -> Record \cup {NoRecord}], Resolve(m, row) PROVE TypeOK'
    BY <2>1, EndProcessType DEF Resolve, TypeOK
  <2>2. StatusOnly(m, "outbound_sent") \in [Messages -> Record \cup {NoRecord}]
    BY StatusType DEF Statuses
  <2>3. /\ StatusAndCode(m, "outbound_skipped", "missing_outbound_url") \in [Messages -> Record \cup {NoRecord}]
        /\ StatusAndCode(m, "failed", "proxy_outbound_failed") \in [Messages -> Record \cup {NoRecord}]
        /\ store \in [Messages -> Record \cup {NoRecord}]
    BY RowType DEF Statuses, Codes, TypeOK
  <2> QED BY <1>5, <2>1, <2>2, <2>3 DEF Delivery, OutboundDelivered, OutboundSkipped, OutboundFailed
<1>6. ASSUME NEW m \in Messages, NEW x \in Messages, NEW named \in BOOLEAN, NEW kind \in StageKinds,
             CompactionEvent(m, x, named, kind)
      PROVE  TypeOK'
  <2>1. frame' \in [Messages -> Frame]
    BY <1>6, NotifiedType DEF CompactionEvent
  <2>2. outbox' \subseteq [msg : Messages, kind : PostKinds] /\ outbox \subseteq outbox'
    BY <1>6, PostType DEF CompactionEvent, PostKinds
  <2> QED BY <1>6, <2>1, <2>2 DEF CompactionEvent, TypeOK
<1>7. CASE External
  <2>1. ASSUME NEW m \in Messages, NEW r \in RunIds, GatewayStarts(m, r) PROVE TypeOK'
    BY <2>1 DEF GatewayStarts, TypeOK
  <2>2. ASSUME NEW m \in Messages, NEW r \in RunIds, GatewayEnds(m, r) PROVE TypeOK'
    BY <2>2 DEF GatewayEnds, TypeOK
  <2>3. ASSUME NEW post \in outbox, ProxyReceives(post) PROVE TypeOK'
    BY <2>3 DEF ProxyReceives, TypeOK
  <2> QED BY <1>7, <2>1, <2>2, <2>3 DEF External
<1>8. CASE Stop
  <2>1. CASE Shutdown
    BY <2>1 DEF Shutdown, TypeOK
  <2>2. CASE Exit \/ Crash
    BY <2>2, MemoryLostType DEF Exit, Crash, TypeOK
  <2>3. ASSUME NEW m \in Messages, CrashInAccept(m) PROVE TypeOK'
    BY <2>3, RowType, MemoryLostType DEF CrashInAccept, Statuses, Codes, NoCode
  <2>4. ASSUME NEW m \in Messages, CrashInProcess(m) PROVE TypeOK'
    <3>1. /\ RejectedRow(m) \in [Messages -> Record \cup {NoRecord}]
          /\ GivenUpRow(m) \in [Messages -> Record \cup {NoRecord}]
      BY RowType DEF RejectedRow, GivenUpRow, Statuses, Codes
    <3>2. /\ StatusOnly(m, "gateway_accepted") \in [Messages -> Record \cup {NoRecord}]
          /\ StatusOnly(m, "running") \in [Messages -> Record \cup {NoRecord}]
      BY StatusType DEF Statuses
    <3>3. store' \in [Messages -> Record \cup {NoRecord}] /\ MemoryLost
      BY <2>4, <3>1, <3>2, TerminalRowType DEF CrashInProcess
    <3> QED BY <3>3, MemoryLostType
  <2> QED BY <1>8, <2>1, <2>2, <2>3, <2>4 DEF Stop
<1>9. CASE Restart
  BY <1>9 DEF Restart, TypeOK
<1>10. CASE UNCHANGED vars
  BY <1>10 DEF vars, TypeOK
<1> QED BY <1>1, <1>2, <1>3, <1>4, <1>5, <1>6, <1>7, <1>8, <1>9, <1>10 DEF Next, Process

\* Every variable keeps its type: the rows hold ledger statuses and error codes only, the
\* queues hold messages, and the attempt counter stays within what MAX_RETRY_ATTEMPTS allows.
THEOREM TypeCorrect == Spec => []TypeOK
  BY TypeInitial, TypeInductive, PTL DEF Spec

-----------------------------------------------------------------------------
(* QueueInv: the session queues and the frames agree.                      *)

\* A step that moves no message in or out of a queue or process().
LEMMA QueueKept ==
  ASSUME QueueInv, UNCHANGED queue,
         \A x \in Messages : (InProcess(x)' <=> InProcess(x)) /\ (Waiting(x)' <=> Waiting(x))
  PROVE  QueueInv'
  BY DEF QueueInv, SessionMutex

\* A step of process(m) that ends at another await of process(m).
LEMMA QueueMove ==
  ASSUME TypeOK, QueueInv, UNCHANGED queue, NEW m \in Messages, InProcess(m),
         \A x \in Messages \ {m} : frame'[x] = frame[x],
         frame'[m].phase \notin {"idle", "queued"}
  PROVE  QueueInv'
  BY QueueKept DEF InProcess, Waiting

\* enqueueBySession into an idle session: the pump starts.
LEMMA QueueStart ==
  ASSUME TypeOK, QueueInv, NEW m \in Messages, AcceptAndStart(m), frame[m].phase = "idle"
  PROVE  QueueInv'
<1> DEFINE s == SessionOf[m]
<1>1. s \in Sessions /\ ~queue[s].running /\ queue[s].items = <<>>
  BY DEF AcceptAndStart, PumpFree
<1>2. /\ frame'[m].phase \in {"activation", "sending"}
      /\ \A x \in Messages \ {m} : frame'[x] = frame[x]
  BY DEF AcceptAndStart, FirstFrame, InPhase, NoFrame, TypeOK
<1>3. /\ queue'[s].running /\ queue'[s].items = <<>>
      /\ \A t \in Sessions \ {s} : queue'[t] = queue[t]
  BY <1>1 DEF AcceptAndStart, TypeOK
<1>4. /\ InProcess(m)' /\ ~InProcess(m) /\ ~Waiting(m)' /\ ~Waiting(m)
      /\ \A x \in Messages \ {m} : (InProcess(x)' <=> InProcess(x)) /\ (Waiting(x)' <=> Waiting(x))
  BY <1>2 DEF InProcess, Waiting
<1>5. \A x \in Messages : SessionOf[x] = s => ~InProcess(x) /\ ~Waiting(x)
  BY <1>1 DEF QueueInv
<1> HIDE DEF s
<1> QED BY <1>1, <1>3, <1>4, <1>5 DEF QueueInv, SessionMutex, s

\* enqueueBySession behind others: the item is new in its queue.
LEMMA QueueBehind ==
  ASSUME TypeOK, QueueInv, NEW m \in Messages, AcceptBehind(m), frame[m].phase = "idle"
  PROVE  QueueInv'
<1> DEFINE s == SessionOf[m]
           items == queue[s].items
<1>1. s \in Sessions /\ queue[s].running /\ items \in Seq(Messages)
  BY DEF AcceptBehind, PumpFree, TypeOK, Queue
<1>2. /\ frame'[m].phase = "queued"
      /\ \A x \in Messages \ {m} : frame'[x] = frame[x]
  BY DEF AcceptBehind, InPhase, NoFrame, TypeOK
<1>3. /\ queue'[s].running /\ queue'[s].items = Append(items, m)
      /\ \A t \in Sessions \ {s} : queue'[t] = queue[t]
  BY <1>1 DEF AcceptBehind, TypeOK, Push, Queue
<1>4. /\ ~InProcess(m)' /\ ~InProcess(m) /\ Waiting(m)' /\ ~Waiting(m)
      /\ \A x \in Messages \ {m} : (InProcess(x)' <=> InProcess(x)) /\ (Waiting(x)' <=> Waiting(x))
  BY <1>2 DEF InProcess, Waiting
<1>5. /\ Len(Append(items, m)) = Len(items) + 1
      /\ Append(items, m)[Len(items) + 1] = m
      /\ \A i \in 1..Len(items) : Append(items, m)[i] = items[i] /\ items[i] # m
  <2>1. \A i \in 1..Len(items) : items[i] # m
    BY <1>1, <1>4 DEF QueueInv
  <2> QED BY <1>1, <2>1
<1>6. \A t \in Sessions, x \in Messages :
         SessionOf[x] = t /\ Waiting(x)' <=> \E i \in 1..Len(queue'[t].items) : queue'[t].items[i] = x
  <2> SUFFICES ASSUME NEW t \in Sessions, NEW x \in Messages
               PROVE  SessionOf[x] = t /\ Waiting(x)'
                         <=> \E i \in 1..Len(queue'[t].items) : queue'[t].items[i] = x
    OBVIOUS
  <2>1. CASE t # s
    BY <1>3, <1>4, <2>1 DEF QueueInv
  <2>2. CASE t = s /\ x = m
    BY <1>1, <1>3, <1>4, <1>5, <2>2
  <2>3. CASE t = s /\ x # m
    <3>1. SessionOf[x] = s /\ Waiting(x)' <=> \E i \in 1..Len(items) : items[i] = x
      BY <1>1, <1>4, <2>3 DEF QueueInv
    <3> HIDE DEF items
    <3> QED BY <1>1, <1>3, <1>5, <2>3, <3>1
  <2> QED BY <2>1, <2>2, <2>3
<1>7. \A t \in Sessions : \A i, j \in 1..Len(queue'[t].items) :
         queue'[t].items[i] = queue'[t].items[j] => i = j
  <2>1. \A i, j \in 1..Len(items) : items[i] = items[j] => i = j
    BY <1>1 DEF QueueInv
  <2>2. \A i, j \in 1..Len(items) + 1 : Append(items, m)[i] = Append(items, m)[j] => i = j
    BY <1>1, <1>5, <2>1
  <2> HIDE DEF items
  <2>3. ASSUME NEW t \in Sessions, t # s
        PROVE  \A i, j \in 1..Len(queue'[t].items) : queue'[t].items[i] = queue'[t].items[j] => i = j
    BY <1>3, <2>3 DEF QueueInv
  <2>4. \A i, j \in 1..Len(queue'[s].items) : queue'[s].items[i] = queue'[s].items[j] => i = j
    BY <1>3, <1>5, <2>2
  <2> QED BY <2>3, <2>4
<1>8. SessionMutex'
  BY <1>4 DEF QueueInv, SessionMutex
<1>9. /\ \A t \in Sessions : queue'[t].running <=> \E x \in Messages : SessionOf[x] = t /\ InProcess(x)'
      /\ \A t \in Sessions : ~queue'[t].running => queue'[t].items = <<>>
  BY <1>1, <1>3, <1>4 DEF QueueInv
<1> QED BY <1>6, <1>7, <1>8, <1>9 DEF QueueInv

\* The pump takes the head of the queue: it was waiting, and it waits no more.
LEMMA QueueNext ==
  ASSUME TypeOK, QueueInv, NEW m \in Messages, InProcess(m), PumpNext(m)
  PROVE  /\ QueueInv'
         /\ Waiting(Head(queue[SessionOf[m]].items))
<1> DEFINE s == SessionOf[m]
           items == queue[s].items
<1>1. s \in Sessions /\ items \in Seq(Messages) /\ items # <<>> /\ Len(items) \in Nat /\ Len(items) > 0
  BY DEF PumpNext, PumpContinues, TypeOK, Queue
<1> PICK n \in Messages : n = Head(items)
  BY <1>1
<1>2. n = items[1] /\ Waiting(n) /\ SessionOf[n] = s /\ queue[s].running
  BY <1>1 DEF QueueInv
<1>3. n # m
  BY <1>2 DEF Waiting, InProcess
<1>4. /\ frame'[m].phase = "idle" /\ frame'[n].phase \in {"activation", "sending"}
      /\ \A x \in Messages \ {m, n} : frame'[x] = frame[x]
  BY <1>2, <1>3 DEF PumpNext, FirstFrame, InPhase, NoFrame, TypeOK
<1>5. /\ queue'[s].running /\ queue'[s].items = Tail(items)
      /\ \A t \in Sessions \ {s} : queue'[t] = queue[t]
  BY <1>1, <1>2 DEF PumpNext, TypeOK, Queue
<1>6. /\ ~InProcess(m)' /\ InProcess(n)' /\ ~InProcess(n)
      /\ ~Waiting(m)' /\ ~Waiting(m) /\ ~Waiting(n)'
      /\ \A x \in Messages \ {m, n} : (InProcess(x)' <=> InProcess(x)) /\ (Waiting(x)' <=> Waiting(x))
  BY <1>2, <1>4 DEF InProcess, Waiting
<1>7. /\ Len(Tail(items)) = Len(items) - 1
      /\ \A i \in 1..Len(items) - 1 : Tail(items)[i] = items[i + 1]
  BY <1>1
<1>8. \A i, j \in 1..Len(items) : items[i] = items[j] => i = j
  BY <1>1 DEF QueueInv
<1>9. \A x \in Messages : (SessionOf[x] = s /\ Waiting(x)) <=> \E i \in 1..Len(items) : items[i] = x
  BY <1>1 DEF QueueInv
<1>10. \A x \in Messages : SessionOf[x] = s /\ Waiting(x)' <=>
                             \E i \in 1..Len(Tail(items)) : Tail(items)[i] = x
  <2> SUFFICES ASSUME NEW x \in Messages
               PROVE  SessionOf[x] = s /\ Waiting(x)' <=>
                         \E i \in 1..Len(Tail(items)) : Tail(items)[i] = x
    OBVIOUS
  <2> HIDE DEF items, s
  <2>1. SessionOf[x] = s /\ Waiting(x)' <=> x # n /\ SessionOf[x] = s /\ Waiting(x)
    BY <1>6
  <2>2. ASSUME x # n, NEW i \in 1..Len(items), items[i] = x
        PROVE  \E j \in 1..Len(Tail(items)) : Tail(items)[j] = x
    <3>1. i # 1 /\ i - 1 \in 1..Len(items) - 1 /\ (i - 1) + 1 = i
      BY <1>1, <1>2, <2>2
    <3>2. Tail(items)[i - 1] = x
      BY <1>7, <2>2, <3>1
    <3> QED BY <1>7, <3>1, <3>2
  <2>3. ASSUME NEW j \in 1..Len(Tail(items)), Tail(items)[j] = x
        PROVE  x # n /\ \E i \in 1..Len(items) : items[i] = x
    <3>1. j + 1 \in 1..Len(items) /\ j + 1 # 1 /\ 1 \in 1..Len(items)
      BY <1>1, <1>7
    <3>2. items[j + 1] = x
      BY <1>7, <2>3
    <3> QED BY <1>2, <1>8, <3>1, <3>2
  <2> QED BY <1>9, <2>1, <2>2, <2>3
<1>11. \A i, j \in 1..Len(Tail(items)) : Tail(items)[i] = Tail(items)[j] => i = j
  <2> HIDE DEF items
  <2> QED BY <1>1, <1>7, <1>8
<1>12. \A t \in Sessions : t # s =>
          /\ queue'[t].running <=> \E x \in Messages : SessionOf[x] = t /\ InProcess(x)'
          /\ \A x \in Messages : SessionOf[x] = t /\ Waiting(x)' <=>
                                  \E i \in 1..Len(queue'[t].items) : queue'[t].items[i] = x
  BY <1>2, <1>5, <1>6 DEF QueueInv
<1>13. SessionMutex'
  BY <1>2, <1>6 DEF QueueInv, SessionMutex
<1>14. \A t \in Sessions : ~queue'[t].running => queue'[t].items = <<>>
  BY <1>5 DEF QueueInv
<1>15. \A t \in Sessions : queue'[t].running <=> \E x \in Messages : SessionOf[x] = t /\ InProcess(x)'
  BY <1>2, <1>5, <1>6, <1>12
<1>19. Waiting(Head(queue[SessionOf[m]].items))
  BY <1>2
<1> HIDE DEF items, s
<1>16. \A t \in Sessions, x \in Messages :
          SessionOf[x] = t /\ Waiting(x)' <=> \E i \in 1..Len(queue'[t].items) : queue'[t].items[i] = x
  <2>1. ASSUME NEW x \in Messages
        PROVE  SessionOf[x] = s /\ Waiting(x)' <=> \E i \in 1..Len(queue'[s].items) : queue'[s].items[i] = x
    <3>1. queue'[s].items = Tail(items)
      BY <1>5
    <3> QED BY <1>10, <3>1, Zenon
  <2> QED BY <1>12, <2>1
<1>17. \A t \in Sessions : \A i, j \in 1..Len(queue'[t].items) :
          queue'[t].items[i] = queue'[t].items[j] => i = j
  <2>1. ASSUME NEW t \in Sessions, t # s
        PROVE  \A i, j \in 1..Len(queue'[t].items) : queue'[t].items[i] = queue'[t].items[j] => i = j
    BY <1>5, <2>1 DEF QueueInv
  <2>2. \A i, j \in 1..Len(queue'[s].items) : queue'[s].items[i] = queue'[s].items[j] => i = j
    BY <1>5, <1>11
  <2> QED BY <2>1, <2>2
<1> QED BY <1>2, <1>13, <1>14, <1>15, <1>16, <1>17, <1>19 DEF QueueInv

\* The pump stops: nothing of the session is left in process() or in line.
LEMMA QueueStops ==
  ASSUME TypeOK, QueueInv, NEW m \in Messages, InProcess(m), PumpStops(m)
  PROVE  /\ QueueInv'
         /\ \A x \in Messages : SessionOf[x] = SessionOf[m] => frame'[x].phase = "idle"
         /\ \A x \in Messages : SessionOf[x] # SessionOf[m] => frame'[x] = frame[x]
<1> DEFINE s == SessionOf[m]
<1>1. s \in Sessions /\ queue[s].items \in Seq(Messages)
  BY DEF TypeOK, Queue
<1>2. \A x \in Messages : x \in Range(queue[s].items) <=> SessionOf[x] = s /\ Waiting(x)
  BY <1>1 DEF QueueInv, Range
<1>3. \A x \in Messages : InProcess(x) /\ SessionOf[x] = s => x = m
  BY DEF QueueInv, SessionMutex
<1>4. \A x \in Messages : frame'[x] = IF x = m \/ x \in Range(queue[s].items) THEN NoFrame ELSE frame[x]
  BY DEF PumpStops
<1>5. /\ \A x \in Messages : SessionOf[x] = s => frame'[x].phase = "idle"
      /\ \A x \in Messages : SessionOf[x] # s => frame'[x] = frame[x]
      /\ \A x \in Messages : frame'[x] = NoFrame \/ frame'[x] = frame[x]
  BY <1>2, <1>3, <1>4 DEF InProcess, Waiting, NoFrame
<1>6. /\ ~queue'[s].running /\ queue'[s].items = <<>>
      /\ \A t \in Sessions \ {s} : queue'[t] = queue[t]
  BY <1>1 DEF PumpStops, Released, NoQueue, TypeOK
<1>7. /\ \A x \in Messages : SessionOf[x] = s => ~InProcess(x)' /\ ~Waiting(x)'
      /\ \A x \in Messages : SessionOf[x] # s => (InProcess(x)' <=> InProcess(x)) /\ (Waiting(x)' <=> Waiting(x))
  BY <1>5 DEF InProcess, Waiting
<1> HIDE DEF s
<1>8. QueueInv'
  <2>1. SessionMutex'
    BY <1>7 DEF QueueInv, SessionMutex
  <2>2. \A t \in Sessions : queue'[t].running <=> \E x \in Messages : SessionOf[x] = t /\ InProcess(x)'
    BY <1>6, <1>7 DEF QueueInv
  <2>3. \A t \in Sessions : ~queue'[t].running => queue'[t].items = <<>>
    BY <1>6 DEF QueueInv
  <2>4. ASSUME NEW t \in Sessions, t # s
        PROVE  /\ \A x \in Messages :
                     SessionOf[x] = t /\ Waiting(x)' <=> \E i \in 1..Len(queue'[t].items) : queue'[t].items[i] = x
               /\ \A i, j \in 1..Len(queue'[t].items) : queue'[t].items[i] = queue'[t].items[j] => i = j
    BY <1>6, <1>7, <2>4 DEF QueueInv
  <2>5. /\ \A x \in Messages :
              SessionOf[x] = s /\ Waiting(x)' <=> \E i \in 1..Len(queue'[s].items) : queue'[s].items[i] = x
        /\ \A i, j \in 1..Len(queue'[s].items) : queue'[s].items[i] = queue'[s].items[j] => i = j
    BY <1>6, <1>7
  <2>6. \A t \in Sessions, x \in Messages :
           SessionOf[x] = t /\ Waiting(x)' <=> \E i \in 1..Len(queue'[t].items) : queue'[t].items[i] = x
    BY <2>4, <2>5, Zenon
  <2>7. \A t \in Sessions : \A i, j \in 1..Len(queue'[t].items) :
           queue'[t].items[i] = queue'[t].items[j] => i = j
    BY <2>4, <2>5, Zenon
  <2> QED BY <2>1, <2>2, <2>3, <2>6, <2>7, Zenon DEF QueueInv
<1> QED BY <1>5, <1>8 DEF s

\* Empty queues and idle frames agree.
LEMMA QueueLost ==
  ASSUME \A s \in Sessions : queue[s] = NoQueue, \A x \in Messages : frame[x] = NoFrame
  PROVE  QueueInv
  BY DEF QueueInv, SessionMutex, InProcess, Waiting, NoQueue, NoFrame

-----------------------------------------------------------------------------
(* HistoryInv: the counts of sendChat and sendFinal calls.                 *)

\* A write leaves a row, and every other row as it was: rows never disappear.
LEMMA RowWritten ==
  ASSUME TypeOK, NEW m \in Messages, NEW status \in Statuses, NEW code
  PROVE  /\ StatusOnly(m, status)[m] # NoRecord /\ StatusAndCode(m, status, code)[m] # NoRecord
         /\ \A x \in Messages \ {m} : /\ StatusOnly(m, status)[x] = store[x]
                                       /\ StatusAndCode(m, status, code)[x] = store[x]
  BY DEF TypeOK, StatusOnly, StatusAndCode, NoRecord, Statuses, Record

\* process(m) ends; the item the pump takes next was never sent nor answered before.
LEMMA HistoryEnd ==
  ASSUME TypeOK, QueueInv, HistoryInv, NEW m \in Messages, InProcess(m), EndProcess(m),
         UNCHANGED <<finals, config>>, \A x \in Messages : store'[x] = NoRecord => store[x] = NoRecord
  PROVE  QueueInv' /\ HistoryInv'
<1>1. config.maxRetry \in Nat
  BY DEF TypeOK, Config
<1>2. CASE PumpNext(m)
  <2>1. Head(queue[SessionOf[m]].items) \in Messages
    BY <1>2 DEF PumpNext, PumpContinues, TypeOK, Queue
  <2> PICK n \in Messages : n = Head(queue[SessionOf[m]].items)
    BY <2>1
  <2>2. Waiting(n) /\ n # m /\ QueueInv'
    BY <1>2, QueueNext DEF InProcess, Waiting
  <2>3. /\ frame'[m] = NoFrame /\ frame'[n] = FirstFrame
        /\ \A x \in Messages \ {m, n} : frame'[x] = frame[x]
    BY <1>2, <2>2 DEF PumpNext, TypeOK
  <2>4. /\ calls'[n] = IF config.requireActivation THEN 0 ELSE 1
        /\ \A x \in Messages \ {n} : calls'[x] = calls[x]
    BY <1>2, <2>2 DEF PumpNext, FirstCalls, TypeOK, HistoryInv, Waiting
  <2>5. \A x \in Messages \ {m, n} : calls'[x] = calls[x] /\ frame'[x] = frame[x]
    BY <2>3, <2>4
  <2>6. /\ frame'[n].phase = IF config.requireActivation THEN "activation" ELSE "sending"
        /\ frame'[n].attempt = 0
    BY <2>3 DEF FirstFrame, InPhase, NoFrame
  <2> QED BY <1>1, <2>2, <2>3, <2>4, <2>5, <2>6 DEF HistoryInv, NoFrame, Unanswered, Delivering, Waiting
<1>3. CASE PumpStops(m)
  <2>1. /\ QueueInv'
        /\ \A x \in Messages : frame'[x].phase = "idle" \/ frame'[x] = frame[x]
    BY <1>3, QueueStops
  <2>2. UNCHANGED calls
    BY <1>3 DEF PumpStops
  <2> QED BY <2>1, <2>2 DEF HistoryInv, Unanswered, Delivering
<1> QED BY <1>2, <1>3 DEF EndProcess

\* sendFinal is called for a message that is unanswered, and moves it past its answer.
LEMMA HistoryIssue ==
  ASSUME TypeOK, QueueInv, HistoryInv, NEW m \in Messages, NEW kind, IssueTerminal(m, kind),
         frame[m].phase \in {"activation", "sending", "waiting"}, frame'[m].phase \in Delivering,
         \A x \in Messages \ {m} : frame'[x] = frame[x],
         UNCHANGED <<queue, calls, config>>, \A x \in Messages : store'[x] = NoRecord => store[x] = NoRecord
  PROVE  QueueInv' /\ HistoryInv'
<1>1. QueueInv'
  BY QueueMove DEF InProcess, Delivering
<1>2. /\ finals[m] = 0 /\ finals'[m] = 1
      /\ \A x \in Messages \ {m} : finals'[x] = finals[x]
  BY DEF IssueTerminal, HistoryInv, TypeOK, Unanswered
<1> QED BY <1>1, <1>2 DEF HistoryInv, Unanswered, Delivering

\* The steps that leave the queues and stack frames, and the counts, as they are.
LEMMA HistoryKept ==
  ASSUME QueueInv, HistoryInv, UNCHANGED <<queue, frame, calls, finals, config, store>>
  PROVE  QueueInv' /\ HistoryInv'
<1>1. QueueInv'
  BY QueueKept DEF InProcess, Waiting
<1> QED BY <1>1 DEF HistoryInv

\* The end of the process keeps the counts and leaves nothing to be counted on.
LEMMA HistoryLost ==
  ASSUME TypeOK, HistoryInv, MemoryLost, \A x \in Messages : store'[x] = NoRecord => store[x] = NoRecord
  PROVE  QueueInv' /\ HistoryInv' /\ DownInv'
<1>1. /\ \A s \in Sessions : queue'[s] = NoQueue
      /\ \A x \in Messages : frame'[x] = NoFrame
      /\ UNCHANGED <<calls, finals, config>>
  BY DEF MemoryLost
<1>2. QueueInv'
  BY <1>1 DEF QueueInv, SessionMutex, InProcess, Waiting, NoQueue, NoFrame
<1>3. HistoryInv'
  BY <1>1 DEF HistoryInv, NoFrame, Unanswered, Delivering
<1> QED BY <1>1, <1>2, <1>3 DEF DownInv

\* The initial states satisfy the inductive invariant.
LEMMA InvInitial == Init => IInv
<1> SUFFICES ASSUME Init PROVE IInv
  OBVIOUS
<1>1. TypeOK
  BY TypeInitial
<1>2. QueueInv
  BY QueueLost DEF Init
<1>3. HistoryInv
  BY <1>1 DEF Init, HistoryInv, NoFrame, Unanswered, Delivering, TypeOK, Config
<1> QED BY <1>1, <1>2, <1>3 DEF IInv, DownInv, Init

\* acceptInbound: a message without a row was never sent nor answered.
LEMMA AcceptInv ==
  ASSUME IInv, NEW m \in Messages, AcceptInbound(m)
  PROVE  QueueInv' /\ HistoryInv' /\ UNCHANGED mode /\ mode = "up"
<1> USE DEF IInv
<1>1. /\ frame[m].phase = "idle" /\ finals[m] = 0 /\ calls[m] = 0
      /\ config.maxRetry \in Nat
  <2>1. store[m] = NoRecord
    BY DEF AcceptInbound, AcceptAndStart, AcceptBehind, Known
  <2> QED BY <2>1 DEF HistoryInv, TypeOK, Config
<1>2. CASE AcceptAndStart(m)
  <2>1. QueueInv'
    BY <1>1, <1>2, QueueStart
  <2>2. store'[m] # NoRecord /\ \A x \in Messages \ {m} : store'[x] = store[x]
    BY <1>2, RowWritten DEF AcceptAndStart, Statuses
  <2>3. /\ frame'[m] = FirstFrame
        /\ \A x \in Messages \ {m} : frame'[x] = frame[x] /\ calls'[x] = calls[x]
        /\ calls'[m] = IF config.requireActivation THEN 0 ELSE 1
        /\ UNCHANGED <<finals, config>>
    BY <1>1, <1>2 DEF AcceptAndStart, FirstCalls, TypeOK
  <2>4. /\ frame'[m].phase = IF config.requireActivation THEN "activation" ELSE "sending"
        /\ frame'[m].attempt = 0
    BY <2>3 DEF FirstFrame, InPhase, NoFrame
  <2>5. HistoryInv'
    BY <1>1, <2>2, <2>3, <2>4 DEF HistoryInv, Unanswered, Delivering
  <2> QED BY <1>2, <2>1, <2>5 DEF AcceptAndStart
<1>3. CASE AcceptBehind(m)
  <2>1. QueueInv'
    BY <1>1, <1>3, QueueBehind
  <2>2. store'[m] # NoRecord /\ \A x \in Messages \ {m} : store'[x] = store[x]
    BY <1>3, RowWritten DEF AcceptBehind, Statuses
  <2>3. /\ frame'[m].phase = "queued"
        /\ \A x \in Messages \ {m} : frame'[x] = frame[x]
        /\ UNCHANGED <<calls, finals, config>>
    BY <1>3 DEF AcceptBehind, InPhase, NoFrame, TypeOK
  <2>4. HistoryInv'
    BY <1>1, <2>2, <2>3 DEF HistoryInv, Unanswered, Delivering
  <2> QED BY <1>3, <2>1, <2>4 DEF AcceptBehind
<1> QED BY <1>2, <1>3 DEF AcceptInbound

\* A terminal event issues the one answer.
LEMMA TerminalInv ==
  ASSUME IInv, NEW m \in Messages, NEW outcome \in TerminalKinds, NEW transport \in Transports,
         frame[m].phase \in {"sending", "waiting"}, TerminalReceived(m, outcome, transport)
  PROVE  QueueInv' /\ HistoryInv'
<1> USE DEF IInv
<1>1. frame'[m].phase = "outbound" /\ \A x \in Messages \ {m} : frame'[x] = frame[x]
  BY DEF TerminalReceived, TypeOK, Frame
<1>2. TerminalStatus(outcome) \in Statuses
  BY DEF TerminalStatus, TerminalKinds, Statuses
<1>3. \A x \in Messages : store'[x] = NoRecord => store[x] = NoRecord
  BY <1>2, RowWritten DEF TerminalReceived, TerminalRow
<1> QED BY <1>1, <1>3, HistoryIssue DEF TerminalReceived, Delivering

\* The activation gate: the first sendChat, or the answer without one.
LEMMA ActivationInv ==
  ASSUME IInv, NEW m \in Messages, Activation(m)
  PROVE  QueueInv' /\ HistoryInv'
<1> USE DEF IInv
<1>1. frame[m].phase = "activation" /\ InProcess(m)
  BY DEF Activation, ActivationOk, ActivationRejected, InProcess
<1>2. CASE ActivationOk(m)
  <2>1. /\ frame'[m].phase = "sending" /\ frame'[m].attempt = 0
        /\ \A x \in Messages \ {m} : frame'[x] = frame[x] /\ calls'[x] = calls[x]
        /\ calls'[m] = calls[m] + 1
        /\ UNCHANGED <<config, store, queue, finals>>
    BY <1>2 DEF ActivationOk, InPhase, NoFrame, TypeOK
  <2>2. QueueInv'
    BY <1>1, <2>1, QueueMove
  <2>3. config.maxRetry \in Nat /\ calls[m] = 0
    BY <1>1 DEF TypeOK, Config, HistoryInv
  <2> QED BY <1>1, <2>1, <2>2, <2>3 DEF HistoryInv, Unanswered, Delivering
<1>3. CASE ActivationRejected(m) /\ mode = "up"
  <2>1. /\ frame' = [frame EXCEPT ![m].phase = "gated"]
        /\ store' = RejectedRow(m) /\ IssueTerminal(m, "error")
        /\ UNCHANGED <<queue, calls, config>>
    BY <1>3 DEF ActivationRejected
  <2>2. frame'[m].phase = "gated" /\ \A x \in Messages \ {m} : frame'[x] = frame[x]
    BY <2>1 DEF TypeOK, Frame
  <2>3. \A x \in Messages : store'[x] = NoRecord => store[x] = NoRecord
    BY <2>1, RowWritten DEF RejectedRow, Statuses
  <2> QED BY <1>1, <2>1, <2>2, <2>3, HistoryIssue DEF Delivering
<1>4. CASE ActivationRejected(m) /\ mode # "up"
  <2>1. EndProcess(m) /\ UNCHANGED <<store, finals, config>>
    BY <1>4 DEF ActivationRejected
  <2> QED BY <1>1, <2>1, HistoryEnd
<1> QED BY <1>2, <1>3, <1>4 DEF Activation

\* The attempt loop: each attempt is one call, and no more than the budget.
LEMMA SendChatInv ==
  ASSUME IInv, NEW m \in Messages, SendChat(m)
  PROVE  QueueInv' /\ HistoryInv'
<1> USE DEF IInv
<1>1. frame[m].phase \in {"sending", "waiting"} /\ InProcess(m)
  BY DEF SendChat, SendChatAccepted, Retry, GiveUp, AttemptFails, HttpAnswered, HttpReply, InProcess
<1>2. CASE SendChatAccepted(m)
  <2>1. /\ frame'[m].phase = "waiting" /\ frame'[m].attempt = frame[m].attempt
        /\ \A x \in Messages \ {m} : frame'[x] = frame[x]
        /\ UNCHANGED <<config, queue, calls, finals>>
    BY <1>2 DEF SendChatAccepted, TypeOK, Frame
  <2>2. \A x \in Messages : store'[x] = NoRecord => store[x] = NoRecord
    BY <1>2, RowWritten DEF SendChatAccepted, Statuses
  <2>3. QueueInv'
    BY <1>1, <2>1, QueueMove
  <2>4. frame[m].phase = "sending"
    BY <1>2 DEF SendChatAccepted
  <2> QED BY <2>1, <2>2, <2>3, <2>4 DEF HistoryInv, Unanswered, Delivering
<1>3. CASE Retry(m)
  <2>1. /\ frame'[m].phase = "sending" /\ frame'[m].attempt = frame[m].attempt + 1
        /\ \A x \in Messages \ {m} : frame'[x] = frame[x] /\ calls'[x] = calls[x]
        /\ calls'[m] = calls[m] + 1 /\ frame[m].attempt < config.maxRetry
        /\ UNCHANGED <<config, store, queue, finals>>
    BY <1>3 DEF Retry, RetriesLeft, TypeOK, Frame
  <2>2. QueueInv'
    BY <1>1, <2>1, QueueMove
  <2>3. config.maxRetry \in Nat /\ frame[m].attempt \in Nat /\ calls[m] = frame[m].attempt + 1
    BY <1>1 DEF TypeOK, Config, Frame, HistoryInv
  <2> QED BY <1>1, <2>1, <2>2, <2>3 DEF HistoryInv, Unanswered, Delivering
<1>4. CASE GiveUp(m) /\ mode = "up"
  <2>1. /\ frame' = [frame EXCEPT ![m].phase = "outbound"]
        /\ store' = GivenUpRow(m) /\ IssueTerminal(m, "error")
        /\ UNCHANGED <<queue, calls, config>>
    BY <1>4 DEF GiveUp
  <2>2. frame'[m].phase = "outbound" /\ \A x \in Messages \ {m} : frame'[x] = frame[x]
    BY <2>1 DEF TypeOK, Frame
  <2>3. \A x \in Messages : store'[x] = NoRecord => store[x] = NoRecord
    BY <2>1, RowWritten DEF GivenUpRow, Statuses
  <2> QED BY <1>1, <2>1, <2>2, <2>3, HistoryIssue DEF Delivering
<1>5. CASE GiveUp(m) /\ mode # "up"
  <2>1. EndProcess(m) /\ UNCHANGED <<store, finals, config>>
    BY <1>5 DEF GiveUp
  <2> QED BY <1>1, <2>1, HistoryEnd
<1>6. ASSUME NEW outcome \in {"final", "timeout"}, HttpAnswered(m, outcome)
      PROVE  QueueInv' /\ HistoryInv'
  BY <1>1, <1>6, TerminalInv DEF HttpAnswered, TerminalKinds
<1> QED BY <1>2, <1>3, <1>4, <1>5, <1>6 DEF SendChat

\* Every step of process() keeps the queues and the counts, and needs a live process.
LEMMA ProcessInv ==
  ASSUME IInv, NEW m \in Messages, Process(m)
  PROVE  QueueInv' /\ HistoryInv' /\ mode' # "down"
<1> USE DEF IInv
<1>1. UNCHANGED mode /\ mode # "down"
  <2>1. UNCHANGED mode
    BY DEF Process, Activation, ActivationOk, ActivationRejected, SendChat, SendChatAccepted, Retry,
           GiveUp, HttpAnswered, TerminalReceived, WaitForTerminal, ChatTerminal, Delivery, Resolve,
           OutboundDelivered, OutboundSkipped, OutboundFailed
  <2>2. frame[m].phase # "idle"
    BY DEF Process, Activation, ActivationOk, ActivationRejected, SendChat, SendChatAccepted, Retry,
           GiveUp, AttemptFails, HttpAnswered, HttpReply, WaitForTerminal, ChatTerminal, ChatEvent,
           Delivery, OutboundDelivered, OutboundSkipped, OutboundFailed, Delivering
  <2> QED BY <2>1, <2>2 DEF DownInv, NoFrame
<1>2. ASSUME WaitForTerminal(m) PROVE QueueInv' /\ HistoryInv'
  <2> PICK outcome \in TerminalKinds : ChatTerminal(m, outcome)
    BY <1>2 DEF WaitForTerminal
  <2> QED BY TerminalInv DEF ChatTerminal, ChatEvent
<1>3. ASSUME Delivery(m) PROVE QueueInv' /\ HistoryInv'
  <2>1. InProcess(m)
    BY <1>3 DEF Delivery, OutboundDelivered, OutboundSkipped, OutboundFailed, Delivering, InProcess
  <2>2. PICK row : /\ Resolve(m, row)
                   /\ \A x \in Messages : row[x] = NoRecord => store[x] = NoRecord
    BY <1>3, RowWritten DEF Delivery, OutboundDelivered, OutboundSkipped, OutboundFailed, Statuses
  <2> QED BY <2>1, <2>2, HistoryEnd DEF Resolve
<1> QED BY <1>1, <1>2, <1>3, ActivationInv, SendChatInv DEF Process

\* So does every way the process stops.
LEMMA StopInv ==
  ASSUME IInv, Stop
  PROVE  QueueInv' /\ HistoryInv' /\ DownInv'
<1> USE DEF IInv
<1>1. CASE Shutdown
  BY <1>1, HistoryKept DEF Shutdown, memory, DownInv
<1>2. CASE Exit \/ Crash
  BY <1>2, HistoryLost DEF Exit, Crash
<1>3. ASSUME NEW m \in Messages, CrashInAccept(m) PROVE QueueInv' /\ HistoryInv' /\ DownInv'
  <2>1. \A x \in Messages : store'[x] = NoRecord => store[x] = NoRecord
    BY <1>3, RowWritten DEF CrashInAccept, Statuses
  <2> QED BY <1>3, <2>1, HistoryLost DEF CrashInAccept
<1>4. ASSUME NEW m \in Messages, CrashInProcess(m) PROVE QueueInv' /\ HistoryInv' /\ DownInv'
  <2>1. \A outcome \in TerminalKinds : TerminalStatus(outcome) \in Statuses
    BY DEF TerminalStatus, TerminalKinds, Statuses
  <2>2. \A x \in Messages : store'[x] = NoRecord => store[x] = NoRecord
    BY <1>4, <2>1, RowWritten DEF CrashInProcess, RejectedRow, GivenUpRow, TerminalRow, Statuses
  <2> QED BY <1>4, <2>2, HistoryLost DEF CrashInProcess
<1> QED BY <1>1, <1>2, <1>3, <1>4 DEF Stop

\* The inductive invariant is kept by every step.
LEMMA InvInductive == IInv /\ [Next]_vars => IInv'
<1> SUFFICES ASSUME IInv, [Next]_vars PROVE QueueInv' /\ HistoryInv' /\ DownInv'
  BY TypeInductive DEF IInv
<1>1. ASSUME NEW m \in Messages, AcceptInbound(m) PROVE QueueInv' /\ HistoryInv' /\ DownInv'
  BY <1>1, AcceptInv DEF DownInv
<1>2. ASSUME NEW m \in Messages, Process(m) PROVE QueueInv' /\ HistoryInv' /\ DownInv'
  BY <1>2, ProcessInv DEF DownInv
<1>3. ASSUME NEW m \in Messages, NEW x \in Messages, NEW named \in BOOLEAN, NEW kind \in StageKinds,
             CompactionEvent(m, x, named, kind)
      PROVE  QueueInv' /\ HistoryInv' /\ DownInv'
  <2>1. /\ \A y \in Messages : frame'[y].phase = frame[y].phase /\ frame'[y].attempt = frame[y].attempt
        /\ UNCHANGED <<config, mode, store, queue, calls, finals>> /\ mode = "up"
    BY <1>3 DEF CompactionEvent, IInv, TypeOK, Frame
  <2>2. QueueInv'
    BY <2>1, QueueKept DEF IInv, InProcess, Waiting
  <2>3. HistoryInv'
    BY <2>1 DEF IInv, HistoryInv
  <2> QED BY <2>1, <2>2, <2>3 DEF DownInv
<1>4. CASE External
  <2>1. UNCHANGED <<config, mode, store, queue, frame, calls, finals>>
    BY <1>4 DEF External, GatewayStarts, GatewayEnds, ProxyReceives, memory
  <2> QED BY <2>1, HistoryKept DEF IInv, DownInv
<1>5. CASE Stop
  BY <1>5, StopInv
<1>6. CASE Restart
  BY <1>6, HistoryKept DEF IInv, Restart, memory, DownInv
<1>7. CASE UNCHANGED vars
  BY <1>7, HistoryKept DEF IInv, vars, memory, DownInv
<1> QED BY <1>1, <1>2, <1>3, <1>4, <1>5, <1>6, <1>7 DEF Next

-----------------------------------------------------------------------------
\* The inductive invariant of the service: queues and stack frames agree, and the numbers of
\* sendChat and sendFinal calls follow from where process() stands.
THEOREM InvariantHolds == Spec => []IInv
  BY InvInitial, InvInductive, PTL DEF Spec

\* At most one message of a session is ever in process(): the pump takes the next item only
\* after process() of the one before has settled, and a second pump returns at once.
THEOREM MutualExclusion == Spec => []SessionMutex
<1>1. IInv => SessionMutex
  BY DEF IInv, QueueInv
<1> QED BY <1>1, InvariantHolds, PTL

\* No message waits in a queue that no pump is working on: enqueueBySession and the loop of
\* pumpSessionQueue leave no gap between the last check of items and running = false.
THEOREM NothingStranded == Spec => []NoStrandedQueue
<1>1. IInv => NoStrandedQueue
  <2> SUFFICES ASSUME IInv, NEW s \in Sessions
               PROVE  {m \in Messages : SessionOf[m] = s /\ frame[m].phase = "queued"} = Range(queue[s].items)
    BY DEF IInv, QueueInv, NoStrandedQueue
  <2>1. queue[s].items \in Seq(Messages)
    BY DEF IInv, TypeOK, Queue
  <2>2. \A m \in Messages : SessionOf[m] = s /\ frame[m].phase = "queued"
                               <=> \E i \in 1..Len(queue[s].items) : queue[s].items[i] = m
    BY DEF IInv, QueueInv, Waiting
  <2> QED BY <2>1, <2>2 DEF Range
<1> QED BY <1>1, InvariantHolds, PTL

\* sendFinal is called at most once per message, over duplicates, retries, shutdown, crashes
\* and restarts.
THEOREM AnsweredAtMostOnce == Spec => []AnswerAtMostOnce
<1>1. IInv => AnswerAtMostOnce
  BY DEF IInv, HistoryInv, AnswerAtMostOnce
<1> QED BY <1>1, InvariantHolds, PTL

\* sendChat is called at most MAX_RETRY_ATTEMPTS + 1 times per message, over everything that
\* can happen to the process.
THEOREM AttemptsBounded == Spec => []AttemptBudget
<1>1. IInv => AttemptBudget
  BY DEF IInv, HistoryInv, AttemptBudget
<1> QED BY <1>1, InvariantHolds, PTL

-----------------------------------------------------------------------------
(* Once answered, never run again: sendChat is called only for a message   *)
(* that is in front of its answer.                                         *)

\* The pump calls sendChat for the item it takes, which was waiting.
LEMMA CallsOfEnd ==
  ASSUME TypeOK, QueueInv, HistoryInv, NEW m \in Messages, InProcess(m), EndProcess(m)
  PROVE  \A x \in Messages : finals[x] > 0 => calls'[x] = calls[x]
<1>1. CASE PumpStops(m)
  BY <1>1 DEF PumpStops
<1>2. CASE PumpNext(m)
  <2>1. Head(queue[SessionOf[m]].items) \in Messages
    BY <1>2 DEF PumpNext, PumpContinues, TypeOK, Queue
  <2> PICK n \in Messages : n = Head(queue[SessionOf[m]].items)
    BY <2>1
  <2>2. finals[n] = 0
    BY <1>2, QueueNext DEF HistoryInv, Waiting, Unanswered
  <2>3. \A x \in Messages \ {n} : calls'[x] = calls[x]
    BY <1>2 DEF PumpNext, FirstCalls, TypeOK
  <2> QED BY <2>2, <2>3
<1> QED BY <1>1, <1>2 DEF EndProcess

\* process() calls sendChat only while its message is unanswered.
LEMMA CallsOfProcess ==
  ASSUME IInv, NEW m \in Messages, Process(m)
  PROVE  \A x \in Messages : finals[x] > 0 => calls'[x] = calls[x]
<1> USE DEF IInv
<1>1. CASE Activation(m)
  <2>1. frame[m].phase = "activation" /\ InProcess(m) /\ finals[m] = 0
    BY <1>1 DEF Activation, ActivationOk, ActivationRejected, InProcess, HistoryInv, Unanswered
  <2>2. CASE ActivationOk(m)
    BY <2>1, <2>2 DEF ActivationOk, TypeOK
  <2>3. CASE ActivationRejected(m)
    BY <2>1, <2>3, CallsOfEnd DEF ActivationRejected
  <2> QED BY <1>1, <2>2, <2>3 DEF Activation
<1>2. CASE SendChat(m)
  <2>1. frame[m].phase \in {"sending", "waiting"} /\ InProcess(m) /\ finals[m] = 0
    BY <1>2 DEF SendChat, SendChatAccepted, Retry, GiveUp, AttemptFails, HttpAnswered, HttpReply,
                InProcess, HistoryInv, Unanswered
  <2>2. CASE Retry(m)
    BY <2>1, <2>2 DEF Retry, TypeOK
  <2>3. CASE GiveUp(m)
    BY <2>1, <2>3, CallsOfEnd DEF GiveUp
  <2>4. CASE SendChatAccepted(m) \/ \E outcome \in {"final", "timeout"} : HttpAnswered(m, outcome)
    BY <2>4 DEF SendChatAccepted, HttpAnswered, TerminalReceived
  <2> QED BY <1>2, <2>2, <2>3, <2>4 DEF SendChat
<1>3. CASE WaitForTerminal(m)
  BY <1>3 DEF WaitForTerminal, ChatTerminal, TerminalReceived
<1>4. CASE Delivery(m)
  <2>1. InProcess(m) /\ EndProcess(m)
    BY <1>4 DEF Delivery, OutboundDelivered, OutboundSkipped, OutboundFailed, Resolve, Delivering, InProcess
  <2> QED BY <2>1, CallsOfEnd
<1> QED BY <1>1, <1>2, <1>3, <1>4 DEF Process

\* Once sendFinal has been called for a message, sendChat is never called for it again: an
\* outbound failure, a duplicate inbound and a restart all leave the agent alone.
THEOREM NeverRerun == Spec => NoRerunAfterAnswer
<1>1. IInv /\ [Next]_vars => [\A m \in Messages : finals[m] > 0 => calls'[m] = calls[m]]_vars
  <2> SUFFICES ASSUME IInv, [Next]_vars
               PROVE  \A m \in Messages : finals[m] > 0 => calls'[m] = calls[m]
    OBVIOUS
  <2>1. ASSUME NEW m \in Messages, AcceptInbound(m)
        PROVE  \A x \in Messages : finals[x] > 0 => calls'[x] = calls[x]
    <3>1. finals[m] = 0
      BY <2>1 DEF AcceptInbound, AcceptAndStart, AcceptBehind, Known, IInv, HistoryInv
    <3> QED BY <2>1, <3>1 DEF AcceptInbound, AcceptAndStart, AcceptBehind, FirstCalls, IInv, TypeOK
  <2>2. ASSUME NEW m \in Messages, Process(m)
        PROVE  \A x \in Messages : finals[x] > 0 => calls'[x] = calls[x]
    BY <2>2, CallsOfProcess
  <2>3. CASE \/ External \/ Stop \/ Restart \/ UNCHANGED vars
             \/ \E m, x \in Messages, named \in BOOLEAN, kind \in StageKinds :
                   CompactionEvent(m, x, named, kind)
    BY <2>3 DEF External, GatewayStarts, GatewayEnds, ProxyReceives, Stop, Shutdown, Exit, Crash,
                CrashInAccept, CrashInProcess, MemoryLost, Restart, CompactionEvent, vars
  <2> QED BY <2>1, <2>2, <2>3 DEF Next
<1> QED BY <1>1, InvariantHolds, PTL DEF Spec, NoRerunAfterAnswer

-----------------------------------------------------------------------------
(* No stage notice after the answer: compaction notices are posted only    *)
(* while process() listens, and then the message is unanswered.            *)

\* The other kinds of POST add no stage notice.
LEMMA NoStagePosted ==
  ASSUME NEW m \in Messages, NEW kind \in PostKinds \ StageKinds, Post(m, kind)
  PROVE  \A x \in Messages, stage \in StageKinds : [msg |-> x, kind |-> stage] \notin outbox' \ outbox
  BY DEF Post

\* A stage notice enters the outbox only while its message is unanswered: the finally of the
\* attempt loop unsubscribes the compaction listener before deliverTerminal is called.
THEOREM StagesBeforeAnswer == Spec => NoStageAfterTerminal
<1>1. IInv /\ [Next]_vars =>
        [\A m \in Messages, kind \in StageKinds :
            [msg |-> m, kind |-> kind] \in outbox' \ outbox => finals[m] = 0]_vars
  <2> SUFFICES ASSUME IInv, [Next]_vars, NEW m \in Messages, NEW kind \in StageKinds,
                      [msg |-> m, kind |-> kind] \in outbox' \ outbox
               PROVE  finals[m] = 0
    OBVIOUS
  <2>1. {"queued", "final", "error", "timeout"} = PostKinds \ StageKinds
    BY DEF PostKinds, StageKinds, TerminalKinds
  <2>2. ASSUME NEW x \in Messages, AcceptInbound(x) PROVE FALSE
    BY <2>1, <2>2, NoStagePosted DEF AcceptInbound, AcceptAndStart, AcceptBehind, proxy
  <2>3. ASSUME NEW x \in Messages, NEW outcome \in TerminalKinds, NEW transport,
               TerminalReceived(x, outcome, transport)
        PROVE  FALSE
    <3>1. outcome \in PostKinds \ StageKinds
      BY <2>1 DEF TerminalKinds
    <3> QED BY <2>3, <3>1, NoStagePosted DEF TerminalReceived, IssueTerminal
  <2>4. ASSUME NEW x \in Messages, Process(x) PROVE FALSE
    <3>1. CASE Activation(x)
      BY <2>1, <3>1, NoStagePosted DEF Activation, ActivationOk, ActivationRejected, IssueTerminal, proxy
    <3>2. CASE SendChatAccepted(x) \/ Retry(x)
      BY <3>2 DEF SendChatAccepted, Retry, proxy
    <3>3. CASE GiveUp(x)
      BY <2>1, <3>3, NoStagePosted DEF GiveUp, IssueTerminal
    <3>4. CASE \E outcome \in {"final", "timeout"} : HttpAnswered(x, outcome)
      BY <2>3, <3>4 DEF HttpAnswered, TerminalKinds
    <3>5. CASE WaitForTerminal(x)
      BY <2>3, <3>5 DEF WaitForTerminal, ChatTerminal
    <3>6. CASE Delivery(x)
      BY <3>6 DEF Delivery, OutboundDelivered, OutboundSkipped, OutboundFailed, Resolve, proxy
    <3> QED BY <2>4, <3>1, <3>2, <3>3, <3>4, <3>5, <3>6 DEF Process, SendChat
  <2>5. ASSUME NEW x \in Messages, NEW y \in Messages, NEW named \in BOOLEAN, NEW stage \in StageKinds,
               CompactionEvent(x, y, named, stage)
        PROVE  finals[m] = 0
    <3>1. outbox' \subseteq outbox \cup {[msg |-> x, kind |-> stage]} /\ frame[x].phase \in {"sending", "waiting"}
      BY <2>5 DEF CompactionEvent, Post, Listening
    <3>2. m = x
      BY <3>1
    <3> QED BY <3>1, <3>2 DEF IInv, HistoryInv, Unanswered
  <2>6. CASE External \/ Stop \/ Restart \/ UNCHANGED vars
    BY <2>6 DEF External, GatewayStarts, GatewayEnds, ProxyReceives, Stop, Shutdown, Exit, Crash,
                CrashInAccept, CrashInProcess, MemoryLost, Restart, vars, proxy
  <2> QED BY <2>2, <2>4, <2>5, <2>6 DEF Next
<1> QED BY <1>1, InvariantHolds, PTL DEF Spec, NoStageAfterTerminal
=============================================================================
