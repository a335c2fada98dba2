------------------------- MODULE AdapterServiceLedger -------------------------
(***************************************************************************)
(* Theorems that relate the ledger of AdapterService to its surroundings:  *)
(* what a row says of the answer the Proxy has (LedgerTellsTruth), and of  *)
(* the agent's run (SerialUntilGivenUp).                                   *)
(*                                                                         *)
(* Both are inductive only together with IInv, and with an invariant of    *)
(* their own: TruthInv follows a message from its accept to outbound_sent, *)
(* SerialInv its one run from sendChat to its end.                         *)
(***************************************************************************)
EXTENDS AdapterServiceProofs

USE ServiceAssumption DEF Transports

-----------------------------------------------------------------------------
(* Where the messages stand after the end of a process().                  *)

\* How a stack frame moves without an answer: it stays, it is gone, or the answer is still due.
Moves(x) ==
    \/ frame'[x].phase = frame[x].phase
    \/ frame'[x].phase = "idle"
    \/ frame[x].phase \in Unanswered /\ frame'[x].phase \in Unanswered

\* The frame of m is gone; the others move.
LEMMA EndMoves ==
  ASSUME IInv, NEW m \in Messages, InProcess(m), EndProcess(m)
  PROVE  /\ frame'[m].phase = "idle"
         /\ \A x \in Messages : Moves(x)
         /\ \A x \in Messages : calls'[x] = calls[x] \/ frame'[x].phase = "sending"
<1> USE DEF IInv
<1>1. CASE PumpNext(m)
  <2>0. SessionOf[m] \in Sessions /\ TypeOK
    OBVIOUS
  <2>1. Head(queue[SessionOf[m]].items) \in Messages
    BY <1>1, <2>0 DEF PumpNext, PumpContinues, TypeOK, Queue
  <2> PICK n \in Messages : n = Head(queue[SessionOf[m]].items)
    BY <2>1
  <2>2. Waiting(n) /\ n # m
    BY <1>1, QueueNext DEF InProcess, Waiting
  <2>3. /\ frame'[m] = NoFrame /\ frame'[n] = FirstFrame
        /\ \A x \in Messages \ {m, n} : frame'[x] = frame[x]
    BY <1>1, <2>2 DEF PumpNext, TypeOK
  <2>4. /\ frame'[m].phase = "idle"
        /\ frame'[n].phase = IF config.requireActivation THEN "activation" ELSE "sending"
    BY <2>3 DEF FirstFrame, InPhase, NoFrame
  <2>5. calls' = IF config.requireActivation THEN calls ELSE [calls EXCEPT ![n] = @ + 1]
    BY <1>1 DEF PumpNext, FirstCalls
  <2>6. \A x \in Messages : calls'[x] = calls[x] \/ frame'[x].phase = "sending"
    BY <2>4, <2>5 DEF TypeOK
  <2> QED BY <2>2, <2>3, <2>4, <2>6 DEF Moves, Waiting, Unanswered
<1>2. CASE PumpStops(m)
  <2>1. /\ frame'[m] = NoFrame
        /\ \A x \in Messages : frame'[x] = NoFrame \/ frame'[x] = frame[x]
        /\ UNCHANGED calls
    BY <1>2 DEF PumpStops
  <2> QED BY <2>1 DEF Moves, NoFrame
<1> QED BY <1>1, <1>2 DEF EndProcess

-----------------------------------------------------------------------------
(* The row and the answer.                                                 *)

\* TruthInv, for one message.
Truth(m) ==
    /\ finals[m] = 0 => Answers(m) = {}
    /\ frame[m].phase \in Unanswered => store[m].errorCode = NoCode
    /\ frame[m].phase \in Delivering => RowTells(m)
    /\ store[m].status = "outbound_sent" =>
          /\ frame[m].phase = "idle" /\ RowTells(m)
          /\ \E kind \in TerminalKinds : [msg |-> m, kind |-> kind] \in inbox

\* Nothing was answered, and no answer was lost on its way.
Unspoken(m) == Answers(m)' = Answers(m) /\ finals'[m] = finals[m] /\ inbox \subseteq inbox'

\* A message whose row stays keeps its truth when its frame moves.
LEMMA TruthMoves ==
  ASSUME NEW m \in Messages, Truth(m), Unspoken(m), Moves(m), store'[m] = store[m]
  PROVE  Truth(m)'
<1>1. RowTells(m)' <=> RowTells(m)
  BY DEF RowTells, Unspoken
<1> QED BY <1>1 DEF Truth, Unspoken, Moves, Unanswered, Delivering

\* A row without an error code is written before the answer, one of any kind once all is over:
\* but outbound_sent is not written here.
LEMMA TruthWrites ==
  ASSUME NEW m \in Messages, Truth(m), Unspoken(m), store'[m].status # "outbound_sent",
         \/ frame'[m].phase = "idle"
         \/ frame'[m].phase \in Unanswered /\ store'[m].errorCode = NoCode
  PROVE  Truth(m)'
  BY DEF Truth, Unspoken, Unanswered, Delivering

\* The answer leaves with the row that tells which one it is.
LEMMA TruthAnswers ==
  ASSUME IInv, NEW m \in Messages, NEW kind \in TerminalKinds, Truth(m), IssueTerminal(m, kind),
         frame[m].phase \in Unanswered, frame'[m].phase \in Delivering,
         store'[m].status # "outbound_sent",
         kind = "final" <=> store'[m].errorCode = NoCode
  PROVE  Truth(m)'
<1>1. finals[m] = 0 /\ finals'[m] = 1 /\ Answers(m) = {}
  BY DEF IInv, HistoryInv, TypeOK, IssueTerminal, Truth
<1>2. \A k \in Answers(m)' : k = kind
  BY <1>1 DEF Answers, IssueTerminal, Post
<1> QED BY <1>1, <1>2 DEF Truth, RowTells, Unanswered, Delivering

\* What a POST for one message, or for none, leaves of the others.
LEMMA Unspoken1 ==
  ASSUME NEW m \in Messages, inbox \subseteq inbox',
         \/ UNCHANGED outbox
         \/ \E kind \in PostKinds : Post(m, kind)
  PROVE  /\ \A x \in Messages \ {m} : Answers(x)' = Answers(x)
         /\ UNCHANGED outbox \/ (\E kind \in PostKinds \ TerminalKinds : Post(m, kind)) => Answers(m)' = Answers(m)
  BY DEF Answers, Post, PostKinds, TerminalKinds, StageKinds

\* What the write of a status alone says: the error code in the row stays.
LEMMA StatusSays ==
  ASSUME TypeOK, NEW m \in Messages, NEW status
  PROVE  /\ StatusOnly(m, status)[m].status = status
         /\ StatusOnly(m, status)[m].errorCode = store[m].errorCode
         /\ \A x \in Messages \ {m} : StatusOnly(m, status)[x] = store[x]
<1>1. store \in [Messages -> Record \cup {NoRecord}]
  BY DEF TypeOK
<1>2. store[m] \in Record \cup {NoRecord}
  BY <1>1
<1>3. [store[m] EXCEPT !.status = status].status = status
      /\ [store[m] EXCEPT !.status = status].errorCode = store[m].errorCode
  BY <1>2 DEF Record, NoRecord
<1> QED BY <1>1, <1>3 DEF StatusOnly

\* What the write of a status and an error code says.
LEMMA RowSays ==
  ASSUME TypeOK, NEW m \in Messages, NEW status, NEW code
  PROVE  /\ StatusAndCode(m, status, code)[m].status = status
         /\ StatusAndCode(m, status, code)[m].errorCode = code
         /\ \A x \in Messages \ {m} : StatusAndCode(m, status, code)[x] = store[x]
  BY DEF StatusAndCode, TypeOK

\* The messages a step is not about keep their truth.
LEMMA TruthOfOthers ==
  ASSUME IInv, TruthInv, NEW m \in Messages, Truth(m)', inbox \subseteq inbox',
         \A x \in Messages \ {m} : Moves(x) /\ store'[x] = store[x] /\ finals'[x] = finals[x],
         UNCHANGED outbox \/ \E kind \in PostKinds : Post(m, kind)
  PROVE  TruthInv'
<1>1. ASSUME NEW x \in Messages \ {m} PROVE Truth(x)'
  <2>1. Unspoken(x)
    BY Unspoken1 DEF Unspoken
  <2>2. Truth(x)
    BY DEF TruthInv, Truth
  <2> QED BY <2>1, <2>2, TruthMoves
<1> QED BY <1>1 DEF TruthInv, Truth

\* A step that neither writes nor posts an answer, and moves frames as above.
LEMMA TruthKept ==
  ASSUME TruthInv, UNCHANGED <<store, finals>>, inbox \subseteq inbox', \A x \in Messages : Moves(x),
         UNCHANGED outbox \/ \E m \in Messages, kind \in StageKinds : Post(m, kind)
  PROVE  TruthInv'
<1>1. ASSUME NEW x \in Messages PROVE Truth(x)'
  <2>1. Answers(x)' = Answers(x)
    BY DEF Answers, Post, StageKinds, TerminalKinds
  <2>2. Unspoken(x) /\ Truth(x)
    BY <2>1 DEF Unspoken, TruthInv, Truth
  <2> QED BY <2>2, TruthMoves
<1> QED BY <1>1 DEF TruthInv, Truth

\* acceptInbound writes the first row, without an error code.
LEMMA AcceptTruth ==
  ASSUME IInv, TruthInv, NEW m \in Messages, AcceptInbound(m)
  PROVE  TruthInv'
<1> USE DEF IInv
<1>1. UNCHANGED <<finals, inbox>> /\ (UNCHANGED outbox \/ Post(m, "queued"))
  BY DEF AcceptInbound, AcceptAndStart, AcceptBehind, proxy
<1>2. /\ store'[m].status # "outbound_sent" /\ store'[m].errorCode = NoCode
      /\ \A x \in Messages \ {m} : store'[x] = store[x]
  <2>1. \E status \in {"routing_resolved", "queued"} : store' = StatusAndCode(m, status, NoCode)
    BY DEF AcceptInbound, AcceptAndStart, AcceptBehind
  <2> QED BY <2>1, RowSays
<1>3. /\ frame'[m].phase \in Unanswered
      /\ \A x \in Messages \ {m} : frame'[x] = frame[x]
  BY DEF AcceptInbound, AcceptAndStart, AcceptBehind, FirstFrame, InPhase, NoFrame, Unanswered, TypeOK
<1>4. "queued" \in PostKinds \ TerminalKinds
  BY DEF PostKinds, TerminalKinds
<1>5. Unspoken(m) /\ Truth(m)
  BY <1>1, <1>4, Unspoken1 DEF Unspoken, TruthInv, Truth
<1>6. Truth(m)'
  BY <1>2, <1>3, <1>5, TruthWrites
<1> QED BY <1>1, <1>2, <1>3, <1>4, <1>6, TruthOfOthers DEF Moves

\* process(m) issues its answer: the others are left alone.
LEMMA AnswerTruth ==
  ASSUME IInv, TruthInv, NEW m \in Messages, NEW kind \in TerminalKinds, IssueTerminal(m, kind),
         frame[m].phase \in Unanswered, frame'[m].phase \in Delivering, UNCHANGED inbox,
         store'[m].status # "outbound_sent", kind = "final" <=> store'[m].errorCode = NoCode,
         \A x \in Messages \ {m} : frame'[x] = frame[x] /\ store'[x] = store[x]
  PROVE  TruthInv'
<1>1. Truth(m)'
  BY TruthAnswers DEF TruthInv, Truth
<1>2. kind \in PostKinds /\ Post(m, kind)
  BY DEF PostKinds, IssueTerminal
<1>3. \A x \in Messages \ {m} : finals'[x] = finals[x]
  BY DEF IInv, TypeOK, IssueTerminal
<1> QED BY <1>1, <1>2, <1>3, TruthOfOthers DEF Moves

\* The end of a process() without a write, as after shutdown() has closed the ledger.
LEMMA EndTruth ==
  ASSUME IInv, TruthInv, NEW m \in Messages, InProcess(m), EndProcess(m),
         UNCHANGED <<store, outbox, inbox, finals>>
  PROVE  TruthInv'
  BY EndMoves, TruthKept

\* The activation gate passes, answers with a refusal, or finds the ledger closed.
LEMMA ActivationTruth ==
  ASSUME IInv, TruthInv, NEW m \in Messages, Activation(m)
  PROVE  TruthInv'
<1> USE DEF IInv
<1>1. CASE ActivationOk(m)
  <2>1. /\ \A x \in Messages : Moves(x)
        /\ UNCHANGED <<store, finals, outbox, inbox>>
    BY <1>1 DEF ActivationOk, InPhase, NoFrame, Moves, Unanswered, TypeOK, proxy
  <2> QED BY <2>1, TruthKept
<1>2. CASE ActivationRejected(m) /\ mode = "up"
  <2>1. /\ frame[m].phase = "activation" /\ frame' = [frame EXCEPT ![m].phase = "gated"]
        /\ store' = StatusAndCode(m, "failed", "employee_not_activated")
        /\ IssueTerminal(m, "error") /\ UNCHANGED inbox
    BY <1>2 DEF ActivationRejected, RejectedRow
  <2>2. frame'[m].phase = "gated" /\ \A x \in Messages \ {m} : frame'[x] = frame[x]
    BY <2>1 DEF TypeOK, Frame
  <2>3. /\ store'[m].status = "failed" /\ store'[m].errorCode # NoCode
        /\ \A x \in Messages \ {m} : store'[x] = store[x]
    BY <2>1, RowSays DEF NoCode
  <2> QED BY <2>1, <2>2, <2>3, AnswerTruth DEF Unanswered, Delivering, TerminalKinds
<1>3. CASE ActivationRejected(m) /\ mode # "up"
  <2>1. InProcess(m) /\ EndProcess(m) /\ UNCHANGED <<store, outbox, inbox, finals>>
    BY <1>3 DEF ActivationRejected, InProcess
  <2> QED BY <2>1, EndTruth
<1> QED BY <1>1, <1>2, <1>3 DEF Activation

\* The terminal event: the row keeps NoCode exactly when the answer is the agent's text.
LEMMA TerminalTruth ==
  ASSUME IInv, TruthInv, NEW m \in Messages, NEW outcome \in TerminalKinds, NEW transport,
         TerminalReceived(m, outcome, transport), frame[m].phase \in {"sending", "waiting"}
  PROVE  TruthInv'
<1> USE DEF IInv
<1>1. /\ frame' = [frame EXCEPT ![m].phase = "outbound", ![m].transport = transport]
      /\ store' = StatusAndCode(m, TerminalStatus(outcome), TerminalCode(m, outcome))
      /\ IssueTerminal(m, outcome) /\ UNCHANGED inbox
  BY DEF TerminalReceived, TerminalRow
<1>2. frame'[m].phase = "outbound" /\ \A x \in Messages \ {m} : frame'[x] = frame[x]
  <2>1. [[frame[m] EXCEPT !.phase = "outbound"] EXCEPT !.transport = transport].phase = "outbound"
    BY DEF TypeOK, Frame
  <2> QED BY <1>1, <2>1 DEF TypeOK
<1>3. store[m].errorCode = NoCode
  BY DEF TruthInv, Unanswered
<1>4. outcome = "final" <=> TerminalCode(m, outcome) = NoCode
  BY <1>3 DEF TerminalCode, TerminalKinds, NoCode
<1>5. TerminalStatus(outcome) # "outbound_sent"
  BY DEF TerminalStatus, TerminalKinds
<1>6. /\ store'[m].status # "outbound_sent" /\ (outcome = "final" <=> store'[m].errorCode = NoCode)
      /\ \A x \in Messages \ {m} : store'[x] = store[x]
  BY <1>1, <1>4, <1>5, RowSays
<1> QED BY <1>1, <1>2, <1>6, AnswerTruth DEF Unanswered, Delivering

\* sendChat: the accept writes a status alone, a retry writes nothing, and the last failure is
\* answered with a row that says so.
LEMMA SendTruth ==
  ASSUME IInv, TruthInv, NEW m \in Messages, SendChat(m)
  PROVE  TruthInv'
<1> USE DEF IInv
<1>1. CASE SendChatAccepted(m)
  <2>1. /\ frame[m].phase = "sending" /\ store' = StatusOnly(m, "running")
        /\ frame' = [frame EXCEPT ![m].phase = "waiting", ![m].transport = "websocket"]
        /\ UNCHANGED <<outbox, inbox, finals>>
    BY <1>1 DEF SendChatAccepted, proxy
  <2>2. [[frame[m] EXCEPT !.phase = "waiting"] EXCEPT !.transport = "websocket"].phase = "waiting"
    BY DEF TypeOK, Frame
  <2>3. frame'[m].phase = "waiting" /\ \A x \in Messages \ {m} : frame'[x] = frame[x]
    BY <2>1, <2>2 DEF TypeOK
  <2>4. /\ store'[m].status = "running" /\ store'[m].errorCode = NoCode
        /\ \A x \in Messages \ {m} : store'[x] = store[x]
    <3>1. store[m].errorCode = NoCode
      BY <2>1 DEF TruthInv, Unanswered
    <3> QED BY <2>1, <3>1, StatusSays
  <2>5. Unspoken(m) /\ Truth(m)
    BY <2>1 DEF Unspoken, Answers, TruthInv, Truth
  <2>6. Truth(m)'
    BY <2>3, <2>4, <2>5, TruthWrites DEF Unanswered
  <2> QED BY <2>1, <2>3, <2>4, <2>6, TruthOfOthers DEF Moves
<1>2. CASE Retry(m)
  <2>1. /\ \A x \in Messages : Moves(x)
        /\ UNCHANGED <<store, finals, outbox, inbox>>
    <3>1. frame[m].phase \in Unanswered
      BY <1>2 DEF Retry, AttemptFails, Unanswered
    <3>2. [[frame[m] EXCEPT !.phase = "sending"] EXCEPT !.attempt = frame[m].attempt + 1].phase = "sending"
      BY DEF TypeOK, Frame
    <3>3. frame'[m].phase = "sending" /\ \A x \in Messages \ {m} : frame'[x] = frame[x]
      BY <1>2, <3>2 DEF Retry, TypeOK, Frame
    <3> QED BY <1>2, <3>1, <3>3 DEF Retry, Moves, Unanswered, proxy
  <2> QED BY <2>1, TruthKept
<1>3. CASE GiveUp(m) /\ mode = "up"
  <2>1. /\ frame[m].phase \in Unanswered /\ frame' = [frame EXCEPT ![m].phase = "outbound"]
        /\ store' = StatusAndCode(m, "failed", "gateway_request_failed")
        /\ IssueTerminal(m, "error") /\ UNCHANGED inbox
    BY <1>3 DEF GiveUp, GivenUpRow, AttemptFails, Unanswered
  <2>2. frame'[m].phase = "outbound" /\ \A x \in Messages \ {m} : frame'[x] = frame[x]
    BY <2>1 DEF TypeOK, Frame
  <2>3. /\ store'[m].status = "failed" /\ store'[m].errorCode # NoCode
        /\ \A x \in Messages \ {m} : store'[x] = store[x]
    BY <2>1, RowSays DEF NoCode
  <2> QED BY <2>1, <2>2, <2>3, AnswerTruth DEF Delivering, TerminalKinds
<1>4. CASE GiveUp(m) /\ mode # "up"
  <2>1. InProcess(m) /\ EndProcess(m) /\ UNCHANGED <<store, outbox, inbox, finals>>
    BY <1>4 DEF GiveUp, AttemptFails, InProcess
  <2> QED BY <2>1, EndTruth
<1>5. ASSUME NEW outcome \in {"final", "timeout"}, HttpAnswered(m, outcome) PROVE TruthInv'
  BY <1>5, TerminalTruth DEF HttpAnswered, HttpReply, TerminalKinds
<1> QED BY <1>1, <1>2, <1>3, <1>4, <1>5 DEF SendChat

\* deliverTerminal: a delivered answer adds a status only, a failed one adds an error code to a
\* row that is not outbound_sent.
LEMMA DeliveryTruth ==
  ASSUME IInv, TruthInv, NEW m \in Messages, Delivery(m)
  PROVE  TruthInv'
<1> USE DEF IInv
<1>1. /\ InProcess(m) /\ EndProcess(m) /\ UNCHANGED <<finals, outbox, inbox>>
      /\ frame[m].phase \in Delivering
  BY DEF Delivery, OutboundDelivered, OutboundSkipped, OutboundFailed, Resolve, Delivering, InProcess, proxy
<1>2. frame'[m].phase = "idle" /\ \A x \in Messages : Moves(x)
  BY <1>1, EndMoves
<1>3. Unspoken(m) /\ Truth(m)
  BY <1>1 DEF Unspoken, Answers, TruthInv, Truth
<1>4. CASE UNCHANGED store
  BY <1>1, <1>4, EndTruth
<1>5. CASE store' = StatusOnly(m, "outbound_sent") /\ AcceptedByProxy(m)
  <2>1. /\ store'[m].errorCode = store[m].errorCode
        /\ \A x \in Messages \ {m} : store'[x] = store[x]
    BY <1>5, StatusSays
  <2>2. RowTells(m)'
    BY <1>1, <1>3, <2>1 DEF RowTells, Truth, Unspoken
  <2>3. Truth(m)'
    BY <1>1, <1>2, <1>3, <1>5, <2>2 DEF Truth, Unspoken, AcceptedByProxy, Unanswered, Delivering
  <2> QED BY <1>1, <1>2, <2>1, <2>3, TruthOfOthers
<1>6. CASE \/ store' = StatusAndCode(m, "outbound_skipped", "missing_outbound_url")
           \/ store' = StatusAndCode(m, "failed", "proxy_outbound_failed")
  <2>1. store'[m].status # "outbound_sent" /\ \A x \in Messages \ {m} : store'[x] = store[x]
    BY <1>6, RowSays
  <2>2. Truth(m)'
    BY <1>2, <1>3, <2>1, TruthWrites
  <2> QED BY <1>1, <1>2, <2>1, <2>2, TruthOfOthers
<1> QED BY <1>4, <1>5, <1>6 DEF Delivery, OutboundDelivered, OutboundSkipped, OutboundFailed, Resolve

\* A process that stops or crashes leaves at most one row more, never an outbound_sent one.
LEMMA StopTruth ==
  ASSUME IInv, TruthInv, Stop
  PROVE  TruthInv'
<1> USE DEF IInv
<1>1. CASE Shutdown
  BY <1>1, TruthKept DEF Shutdown, memory, proxy, Moves
<1>2. ASSUME MemoryLost
      PROVE  /\ \A x \in Messages : frame'[x].phase = "idle" /\ Moves(x)
             /\ UNCHANGED <<outbox, inbox, finals>>
  BY <1>2 DEF MemoryLost, NoFrame, Moves, proxy
<1>3. CASE Exit \/ Crash
  BY <1>2, <1>3, TruthKept DEF Exit, Crash
<1>4. ASSUME NEW m \in Messages, MemoryLost, store'[m].status # "outbound_sent",
             \A x \in Messages \ {m} : store'[x] = store[x]
      PROVE  TruthInv'
  <2>1. Unspoken(m) /\ Truth(m)
    BY <1>2, <1>4 DEF Unspoken, Answers, TruthInv, Truth
  <2>2. Truth(m)'
    BY <1>2, <1>4, <2>1, TruthWrites
  <2> QED BY <1>2, <1>4, <2>2, TruthOfOthers
<1>5. ASSUME NEW m \in Messages, CrashInAccept(m) PROVE TruthInv'
  <2>1. \E status \in {"received", "routing_resolved"} : store' = StatusAndCode(m, status, NoCode)
    BY <1>5 DEF CrashInAccept
  <2>2. store'[m].status # "outbound_sent" /\ \A x \in Messages \ {m} : store'[x] = store[x]
    BY <2>1, RowSays
  <2> QED BY <1>4, <1>5, <2>2 DEF CrashInAccept
<1>6. ASSUME NEW m \in Messages, CrashInProcess(m) PROVE TruthInv'
  <2>1. \A outcome \in TerminalKinds : TerminalStatus(outcome) # "outbound_sent"
    BY DEF TerminalStatus, TerminalKinds
  <2>2. \/ \E status, code : status # "outbound_sent" /\ store' = StatusAndCode(m, status, code)
        \/ \E status \in {"gateway_accepted", "running"} : store' = StatusOnly(m, status)
    BY <1>6, <2>1 DEF CrashInProcess, RejectedRow, GivenUpRow, TerminalRow
  <2>3. store'[m].status # "outbound_sent" /\ \A x \in Messages \ {m} : store'[x] = store[x]
    <3>1. ASSUME NEW status, NEW code, status # "outbound_sent", store' = StatusAndCode(m, status, code)
          PROVE  store'[m].status # "outbound_sent" /\ \A x \in Messages \ {m} : store'[x] = store[x]
      BY <3>1, RowSays
    <3>2. ASSUME NEW status \in {"gateway_accepted", "running"}, store' = StatusOnly(m, status)
          PROVE  store'[m].status # "outbound_sent" /\ \A x \in Messages \ {m} : store'[x] = store[x]
      BY <3>2, StatusSays
    <3> QED BY <2>2, <3>1, <3>2
  <2> QED BY <1>4, <1>6, <2>3 DEF CrashInProcess
<1> QED BY <1>1, <1>3, <1>5, <1>6 DEF Stop

\* The row and the answers agree at first: there are none.
LEMMA TruthInitial == Init => TruthInv
  BY DEF Init, TruthInv, Answers, NoFrame, NoRecord, NoCode, Unanswered, Delivering

\* Every step keeps rows and answers in agreement.
LEMMA TruthInductive == IInv /\ TruthInv /\ [Next]_vars => TruthInv'
<1> SUFFICES ASSUME IInv, TruthInv, [Next]_vars PROVE TruthInv'
  OBVIOUS
<1>1. ASSUME NEW m \in Messages, Process(m) PROVE TruthInv'
  <2>1. ASSUME WaitForTerminal(m) PROVE TruthInv'
    <3> PICK outcome \in TerminalKinds : ChatTerminal(m, outcome)
      BY <2>1 DEF WaitForTerminal
    <3> QED BY TerminalTruth DEF ChatTerminal, ChatEvent
  <2> QED BY <1>1, <2>1, ActivationTruth, SendTruth, DeliveryTruth DEF Process
<1>2. ASSUME NEW m \in Messages, NEW x \in Messages, NEW named \in BOOLEAN, NEW kind \in StageKinds,
             CompactionEvent(m, x, named, kind)
      PROVE  TruthInv'
  <2>1. /\ \A y \in Messages : Moves(y)
        /\ UNCHANGED <<store, finals, inbox>> /\ Post(m, kind)
    BY <1>2 DEF CompactionEvent, Moves, IInv, TypeOK, Frame
  <2> QED BY <2>1, TruthKept
<1>3. CASE External \/ Restart \/ UNCHANGED vars
  <2>1. UNCHANGED <<store, finals, frame, outbox>> /\ inbox \subseteq inbox'
    BY <1>3 DEF External, GatewayStarts, GatewayEnds, ProxyReceives, Restart, vars, memory, proxy
  <2> QED BY <2>1, TruthKept DEF Moves
<1> QED BY <1>1, <1>2, <1>3, AcceptTruth, StopTruth DEF Next

\* A message's row and the answers posted for it agree at every time: there is no error code
\* before the answer, the answer leaves with the row that tells of it, and deliverTerminal
\* writes outbound_sent without touching the error code.
THEOREM RowsTellTheAnswer == Spec => []TruthInv
<1>1. Init => TruthInv
  BY TruthInitial
<1>2. IInv /\ TruthInv /\ [Next]_vars => TruthInv'
  BY TruthInductive
<1> QED BY <1>1, <1>2, InvariantHolds, PTL DEF Spec

\* An outbound_sent row is the truth: the Proxy has a terminal POST of the message, and it has
\* the agent's text exactly when the row carries no error code.
THEOREM LedgerIsTrue == Spec => []LedgerTellsTruth
<1>1. IInv /\ TruthInv => LedgerTellsTruth
  <2> SUFFICES ASSUME IInv, TruthInv, NEW m \in Messages, store[m].status = "outbound_sent"
               PROVE  /\ \E kind \in TerminalKinds : [msg |-> m, kind |-> kind] \in inbox
                      /\ [msg |-> m, kind |-> "final"] \in inbox <=> store[m].errorCode = NoCode
    BY DEF LedgerTellsTruth
  <2>1. RowTells(m)
    BY DEF TruthInv
  <2> PICK kind \in TerminalKinds : [msg |-> m, kind |-> kind] \in inbox
    BY DEF TruthInv
  <2>2. inbox \subseteq outbox
    BY DEF IInv, TypeOK
  <2>3. kind \in Answers(m) /\ ([msg |-> m, kind |-> "final"] \in inbox => "final" \in Answers(m))
    BY <2>2 DEF Answers, TerminalKinds
  <2> QED BY <2>1, <2>3 DEF RowTells
<1> QED BY <1>1, InvariantHolds, RowsTellTheAnswer, PTL

-----------------------------------------------------------------------------
(* The row and the run.  What follows is for a gateway reached over the    *)
(* websocket alone, and a process that is not stopped: over HTTP each call *)
(* of sendChat may start a run of its own, and a crash forgets the wait.   *)

WebsocketWithoutFaults == Faults = {} /\ \A cfg \in Configs : cfg.transports = {"websocket"}

\* SerialInv, for one message: a row without an error code says that the adapter waits for the
\* run, or has seen its end.
Tracked(m) ==
    calls[m] > 0 /\ store[m].errorCode = NoCode =>
        frame[m].phase \in {"sending", "waiting"} \/ 0 \in ended[m]

\* The steps of the adapter start no run and only add calls of sendChat.
LEMMA SerialKept ==
  ASSUME TypeOK, SerialInv, mode' = "up", UNCHANGED runs,
         \A x \in Messages : /\ calls'[x] = calls[x] \/ calls'[x] = calls[x] + 1
                             /\ Tracked(x)'
  PROVE  SerialInv'
<1>1. ASSUME NEW x \in Messages
      PROVE  runs'[x] \subseteq {0} /\ (calls'[x] = 0 => runs'[x] = {})
  <2>1. calls[x] \in Nat
    BY DEF TypeOK
  <2> QED BY <2>1 DEF SerialInv
<1> QED BY <1>1 DEF SerialInv, Tracked

\* A message stays tracked when its frame stays, or when it had not been sent.
LEMMA TrackedKept ==
  ASSUME SerialInv, NEW x \in Messages, calls'[x] = calls[x],
         store'[x].errorCode = store[x].errorCode, ended[x] \subseteq ended'[x],
         frame'[x].phase = frame[x].phase \/ calls[x] = 0
  PROVE  Tracked(x)'
<1>1. Tracked(x)
  BY DEF SerialInv, Tracked
<1>2. CASE calls[x] = 0
  BY <1>2 DEF Tracked
<1>3. CASE frame'[x].phase = frame[x].phase
  BY <1>1, <1>3 DEF Tracked
<1> QED BY <1>2, <1>3

\* What the end of process(m) does to the others: those that were waiting may leave the queue,
\* and sendChat is called for the one that enters process() then.
LEMMA EndOfOthers ==
  ASSUME IInv, NEW m \in Messages, InProcess(m), EndProcess(m)
  PROVE  \A x \in Messages \ {m} : frame'[x].phase = frame[x].phase \/ Waiting(x)
<1> USE DEF IInv
<1>1. CASE PumpNext(m)
  <2>1. SessionOf[m] \in Sessions /\ TypeOK
    OBVIOUS
  <2>2. Head(queue[SessionOf[m]].items) \in Messages
    BY <1>1, <2>1 DEF PumpNext, PumpContinues, TypeOK, Queue
  <2> PICK n \in Messages : n = Head(queue[SessionOf[m]].items)
    BY <2>2
  <2>3. \A x \in Messages \ {m, n} : frame'[x] = frame[x]
    BY <1>1 DEF PumpNext, TypeOK
  <2> QED BY <1>1, <2>3, QueueNext
<1>2. CASE PumpStops(m)
  <2>1. /\ \A x \in Messages : SessionOf[x] = SessionOf[m] => frame'[x].phase = "idle"
        /\ \A x \in Messages : SessionOf[x] # SessionOf[m] => frame'[x] = frame[x]
    BY <1>2, QueueStops
  <2>2. \A x \in Messages \ {m} : SessionOf[x] = SessionOf[m] => ~InProcess(x)
    BY DEF QueueInv, SessionMutex
  <2> QED BY <2>1, <2>2 DEF InProcess, Waiting
<1> QED BY <1>1, <1>2 DEF EndProcess

\* The pump calls sendChat once for the item it takes.
LEMMA EndCalls ==
  ASSUME IInv, NEW m \in Messages, EndProcess(m)
  PROVE  \A x \in Messages : calls'[x] = calls[x] \/ calls'[x] = calls[x] + 1
<1> QED BY DEF EndProcess, PumpNext, PumpStops, FirstCalls, IInv, TypeOK

\* acceptInbound: a new message has not been sent, or its sendChat is under way.
LEMMA AcceptSerial ==
  ASSUME IInv, SerialInv, NEW m \in Messages, AcceptInbound(m)
  PROVE  SerialInv'
<1> USE DEF IInv
<1>1. /\ mode' = "up" /\ UNCHANGED <<runs, ended>>
      /\ calls' = calls \/ calls' = [calls EXCEPT ![m] = @ + 1]
  BY DEF AcceptInbound, AcceptAndStart, AcceptBehind, FirstCalls, gateway
<1>2. calls[m] = 0
  BY DEF AcceptInbound, AcceptAndStart, AcceptBehind, Known, HistoryInv
<1>3. \A x \in Messages \ {m} : frame'[x] = frame[x] /\ store'[x] = store[x] /\ calls'[x] = calls[x]
  BY <1>1 DEF AcceptInbound, AcceptAndStart, AcceptBehind, StatusAndCode, TypeOK
<1>4. Tracked(m)'
  <2>1. CASE calls' = calls
    BY <1>2, <2>1 DEF Tracked
  <2>2. CASE calls' # calls
    <3>1. AcceptAndStart(m) /\ ~config.requireActivation
      BY <2>2 DEF AcceptInbound, AcceptAndStart, AcceptBehind, FirstCalls
    <3>2. frame'[m].phase = "sending"
      BY <3>1 DEF AcceptAndStart, FirstFrame, InPhase, NoFrame, TypeOK
    <3> QED BY <3>2 DEF Tracked
  <2> QED BY <2>1, <2>2
<1>5. \A x \in Messages \ {m} : Tracked(x)'
  BY <1>1, <1>3, TrackedKept
<1>6. \A x \in Messages : calls'[x] = calls[x] \/ calls'[x] = calls[x] + 1
  BY <1>1 DEF TypeOK
<1> QED BY <1>1, <1>4, <1>5, <1>6, SerialKept

\* A step of process(m) that stays in process(m).
LEMMA InnerSerial ==
  ASSUME IInv, SerialInv, UNCHANGED <<mode, runs, ended>>, NEW m \in Messages,
         \A x \in Messages \ {m} : frame'[x] = frame[x] /\ store'[x] = store[x],
         calls' = calls \/ calls' = [calls EXCEPT ![m] = @ + 1], Tracked(m)'
  PROVE  SerialInv'
<1>1. \A x \in Messages \ {m} : Tracked(x)'
  BY TrackedKept DEF IInv, TypeOK
<1>2. \A x \in Messages : calls'[x] = calls[x] \/ calls'[x] = calls[x] + 1
  BY DEF IInv, TypeOK
<1>3. mode' = "up"
  BY DEF SerialInv
<1> QED BY <1>1, <1>2, <1>3, SerialKept DEF IInv

\* While the process is up, each step of process() leaves its message waiting, with an ended
\* run, or with an error code.
LEMMA ProcessSerial ==
  ASSUME WebsocketWithoutFaults, IInv, SerialInv, NEW m \in Messages, Process(m)
  PROVE  SerialInv'
<1> USE DEF IInv
<1>1. mode = "up" /\ "http-responses" \notin config.transports
  BY DEF SerialInv, WebsocketWithoutFaults, TypeOK
<1>2. CASE ActivationOk(m)
  <2>1. frame'[m].phase = "sending" /\ \A x \in Messages \ {m} : frame'[x] = frame[x]
    BY <1>2 DEF ActivationOk, InPhase, NoFrame, TypeOK
  <2> QED BY <1>2, <2>1, InnerSerial DEF ActivationOk, Tracked, gateway
<1>3. CASE ActivationRejected(m)
  <2>1. /\ frame[m].phase = "activation" /\ frame' = [frame EXCEPT ![m].phase = "gated"]
        /\ store' = RejectedRow(m) /\ UNCHANGED <<mode, calls, runs, ended>>
    BY <1>1, <1>3 DEF ActivationRejected, gateway
  <2>2. calls[m] = 0
    BY <2>1 DEF HistoryInv
  <2>3. \A x \in Messages \ {m} : frame'[x] = frame[x] /\ store'[x] = store[x]
    BY <2>1, RowSays DEF RejectedRow, TypeOK
  <2> QED BY <2>1, <2>2, <2>3, InnerSerial DEF Tracked
<1>4. CASE SendChatAccepted(m)
  <2>1. [[frame[m] EXCEPT !.phase = "waiting"] EXCEPT !.transport = "websocket"].phase = "waiting"
    BY DEF TypeOK, Frame
  <2>2. frame'[m].phase = "waiting" /\ \A x \in Messages \ {m} : frame'[x] = frame[x]
    BY <1>4, <2>1 DEF SendChatAccepted, TypeOK
  <2>3. \A x \in Messages \ {m} : store'[x] = store[x]
    BY <1>4, StatusSays DEF SendChatAccepted
  <2> QED BY <1>4, <2>2, <2>3, InnerSerial DEF SendChatAccepted, Tracked, gateway
<1>5. CASE Retry(m)
  <2>1. [[frame[m] EXCEPT !.phase = "sending"] EXCEPT !.attempt = frame[m].attempt + 1].phase = "sending"
    BY DEF TypeOK, Frame
  <2>2. frame'[m].phase = "sending" /\ \A x \in Messages \ {m} : frame'[x] = frame[x]
    BY <1>5, <2>1 DEF Retry, TypeOK, Frame
  <2> QED BY <1>5, <2>2, InnerSerial DEF Retry, Tracked, gateway
<1>6. CASE GiveUp(m)
  <2>1. /\ frame' = [frame EXCEPT ![m].phase = "outbound"]
        /\ store' = StatusAndCode(m, "failed", "gateway_request_failed")
        /\ UNCHANGED <<mode, calls, runs, ended>>
    BY <1>1, <1>6 DEF GiveUp, GivenUpRow, gateway
  <2>2. /\ store'[m].errorCode # NoCode
        /\ \A x \in Messages \ {m} : frame'[x] = frame[x] /\ store'[x] = store[x]
    BY <2>1, RowSays DEF TypeOK, NoCode
  <2> QED BY <2>1, <2>2, InnerSerial DEF Tracked
<1>7. ASSUME NEW outcome, HttpAnswered(m, outcome) PROVE FALSE
  BY <1>1, <1>7 DEF HttpAnswered, HttpReply
<1>8. ASSUME NEW outcome \in TerminalKinds, ChatTerminal(m, outcome) PROVE SerialInv'
  <2>1. /\ store' = StatusAndCode(m, TerminalStatus(outcome), TerminalCode(m, outcome))
        /\ frame' = [frame EXCEPT ![m].phase = "outbound", ![m].transport = "websocket"]
        /\ UNCHANGED <<mode, calls, runs, ended>>
        /\ outcome \in {"final", "error"} => 0 \in ended[m]
    BY <1>8 DEF ChatTerminal, ChatEvent, TerminalReceived, TerminalRow, gateway
  <2>2. /\ store'[m].errorCode = TerminalCode(m, outcome)
        /\ \A x \in Messages \ {m} : frame'[x] = frame[x] /\ store'[x] = store[x]
    BY <2>1, RowSays DEF TypeOK
  <2>3. outcome = "timeout" => store'[m].errorCode # NoCode
    BY <2>2 DEF TerminalCode, NoCode
  <2>4. Tracked(m)'
    BY <2>1, <2>3 DEF Tracked, TerminalKinds
  <2> QED BY <2>1, <2>2, <2>4, InnerSerial
<1>9. CASE Delivery(m)
  <2>1. /\ InProcess(m) /\ EndProcess(m) /\ UNCHANGED <<mode, runs, ended>>
        /\ frame[m].phase \in Delivering
    BY <1>9 DEF Delivery, OutboundDelivered, OutboundSkipped, OutboundFailed, Resolve, Delivering,
                InProcess, gateway
  <2>2. /\ store'[m].errorCode = store[m].errorCode \/ store'[m].errorCode # NoCode
        /\ \A x \in Messages \ {m} : store'[x] = store[x]
    <3>1. \/ store' = store
          \/ store' = StatusOnly(m, "outbound_sent")
          \/ store' = StatusAndCode(m, "outbound_skipped", "missing_outbound_url")
          \/ store' = StatusAndCode(m, "failed", "proxy_outbound_failed")
      BY <1>9 DEF Delivery, OutboundDelivered, OutboundSkipped, OutboundFailed, Resolve
    <3>2. CASE store' = store
      BY <3>2
    <3>3. CASE store' = StatusOnly(m, "outbound_sent")
      BY <3>3, StatusSays
    <3>4. CASE \/ store' = StatusAndCode(m, "outbound_skipped", "missing_outbound_url")
               \/ store' = StatusAndCode(m, "failed", "proxy_outbound_failed")
      BY <3>4, RowSays DEF NoCode
    <3> QED BY <3>1, <3>2, <3>3, <3>4
  <2>3. \A x \in Messages : calls'[x] = calls[x] \/ calls'[x] = calls[x] + 1
    BY <2>1, EndCalls
  <2>4. \A x \in Messages : calls'[x] = calls[x] \/ frame'[x].phase = "sending"
    BY <2>1, EndMoves
  <2>5. Tracked(m)'
    BY <2>1, <2>2, <2>4 DEF SerialInv, Tracked, Delivering
  <2>6. ASSUME NEW x \in Messages \ {m} PROVE Tracked(x)'
    <3>1. frame'[x].phase = frame[x].phase \/ calls[x] = 0
      BY <2>1, EndOfOthers DEF HistoryInv, Waiting
    <3>2. CASE calls'[x] = calls[x]
      BY <2>1, <2>2, <3>1, <3>2, TrackedKept
    <3>3. CASE frame'[x].phase = "sending"
      BY <3>3 DEF Tracked
    <3> QED BY <2>4, <3>2, <3>3
  <2>7. mode' = "up"
    BY <1>1, <2>1
  <2> QED BY <2>1, <2>3, <2>5, <2>6, <2>7, SerialKept
<1> QED BY <1>2, <1>3, <1>4, <1>5, <1>6, <1>7, <1>8, <1>9
        DEF Process, Activation, SendChat, WaitForTerminal

\* The gateway starts at most run 0, after a call of sendChat; runs only end.
LEMMA ExternalSerial ==
  ASSUME WebsocketWithoutFaults, IInv, SerialInv, External
  PROVE  SerialInv'
<1> USE DEF IInv
<1>1. "http-responses" \notin config.transports
  BY DEF WebsocketWithoutFaults, TypeOK
<1>2. ASSUME NEW m \in Messages, NEW r \in RunIds, GatewayStarts(m, r) PROVE SerialInv'
  <2>1. r = 0 /\ calls[m] > 0
    BY <1>1, <1>2 DEF GatewayStarts, RunMayStart
  <2> QED BY <1>2, <2>1 DEF GatewayStarts, SerialInv, TypeOK, memory
<1>3. ASSUME NEW m \in Messages, NEW r \in RunIds, GatewayEnds(m, r) PROVE SerialInv'
  BY <1>3 DEF GatewayEnds, SerialInv, TypeOK, memory
<1>4. ASSUME NEW post \in outbox, ProxyReceives(post) PROVE SerialInv'
  BY <1>4 DEF ProxyReceives, SerialInv, memory, gateway
<1> QED BY <1>2, <1>3, <1>4 DEF External

\* Without faults the process stays up, and every step keeps row and run in agreement.
LEMMA SerialInductive == WebsocketWithoutFaults /\ IInv /\ SerialInv /\ [Next]_vars => SerialInv'
<1> SUFFICES ASSUME WebsocketWithoutFaults, IInv, SerialInv, [Next]_vars PROVE SerialInv'
  OBVIOUS
<1>1. ~Stop /\ ~Restart
  BY DEF WebsocketWithoutFaults, SerialInv, Stop, Shutdown, Exit, Crash, CrashInAccept, CrashInProcess, Restart
<1>2. ASSUME NEW m \in Messages, NEW x \in Messages, NEW named \in BOOLEAN, NEW kind \in StageKinds,
             CompactionEvent(m, x, named, kind)
      PROVE  SerialInv'
  <2>1. /\ \A y \in Messages : frame'[y].phase = frame[y].phase
        /\ UNCHANGED <<mode, store, calls, runs, ended>>
    BY <1>2 DEF CompactionEvent, IInv, TypeOK, Frame, gateway
  <2> QED BY <2>1 DEF SerialInv
<1>3. CASE UNCHANGED vars
  BY <1>3 DEF vars, memory, gateway, SerialInv
<1> QED BY <1>1, <1>2, <1>3, AcceptSerial, ProcessSerial, ExternalSerial DEF Next

\* Over the websocket there is at most one run per message, and as long as its row carries no
\* error code the adapter is still in process() of the message, or the run is over.
THEOREM RowsTellOfTheRun ==
  ASSUME WebsocketWithoutFaults
  PROVE  Spec => []SerialInv
<1>1. Init => SerialInv
  BY DEF Init, SerialInv
<1>2. IInv /\ SerialInv /\ [Next]_vars => SerialInv'
  BY SerialInductive
<1> QED BY <1>1, <1>2, InvariantHolds, PTL DEF Spec

\* The session queue serialises the agent's runs too: over the websocket, and while the process
\* is not stopped, two messages of a session have live runs together only if the adapter gave
\* one of them up, and its row says so.
THEOREM RunsAreSerial ==
  ASSUME WebsocketWithoutFaults
  PROVE  Spec => []SerialUntilGivenUp
<1>1. IInv /\ SerialInv => SerialUntilGivenUp
  <2> SUFFICES ASSUME IInv, SerialInv, NEW m \in Messages, NEW n \in Messages,
                      SessionOf[m] = SessionOf[n], LiveRuns(m) # {}, LiveRuns(n) # {},
                      store[m].errorCode = NoCode, store[n].errorCode = NoCode
               PROVE  m = n
    BY DEF SerialUntilGivenUp
  <2>1. ASSUME NEW x \in {m, n} PROVE InProcess(x)
    <3>1. 0 \notin ended[x] /\ runs[x] # {} /\ calls[x] \in Nat
      BY DEF LiveRuns, SerialInv, IInv, TypeOK
    <3> QED BY <3>1 DEF SerialInv, InProcess
  <2> QED BY <2>1 DEF IInv, QueueInv, SessionMutex
<1> QED BY <1>1, InvariantHolds, RowsTellOfTheRun, PTL
=============================================================================
