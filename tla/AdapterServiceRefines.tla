----------------------- MODULE AdapterServiceRefines -----------------------
(***************************************************************************)
(* AdapterService implements SessionDelivery.  The line of a session is    *)
(* the message its process() has not answered yet, followed by the items   *)
(* of its queue; by IInv there is at most one such message, so the choice  *)
(* in Line is no choice.  A step accepts one message, answers one, loses   *)
(* lines, reopens, or changes neither lines nor outcomes.                  *)
(***************************************************************************)
EXTENDS AdapterServiceProofs, SequenceTheorems

\* process(m) is running and has not answered m.
Serving(m) == frame[m].phase \in {"activation", "sending", "waiting"}

\* The line of a session, without CHOOSE.
LineInv ==
    \A s \in Sessions :
        /\ \A m \in Messages : SessionOf[m] = s /\ Serving(m) => Line(s) = <<m>> \o queue[s].items
        /\ (\A m \in Messages : SessionOf[m] = s => ~Serving(m)) => Line(s) = queue[s].items

\* IInv determines the lines.
LEMMA LineOf == IInv => LineInv
<1> SUFFICES ASSUME IInv, NEW s \in Sessions
             PROVE  /\ \A m \in Messages : SessionOf[m] = s /\ Serving(m) => Line(s) = <<m>> \o queue[s].items
                    /\ (\A m \in Messages : SessionOf[m] = s => ~Serving(m)) => Line(s) = queue[s].items
  BY DEF LineInv
<1>1. UnansweredIn(s) = {m \in Messages : SessionOf[m] = s /\ Serving(m)}
  BY DEF UnansweredIn, Serving, InProcess, Unanswered
<1>2. ASSUME NEW m \in Messages, SessionOf[m] = s, Serving(m)
      PROVE  Line(s) = <<m>> \o queue[s].items
  <2>1. UnansweredIn(s) = {m}
    BY <1>1, <1>2 DEF IInv, QueueInv, SessionMutex, InProcess, Serving
  <2>2. (CHOOSE x \in {m} : TRUE) = m
    OBVIOUS
  <2> QED BY <2>1, <2>2 DEF Line
<1>3. ASSUME \A m \in Messages : SessionOf[m] = s => ~Serving(m)
      PROVE  Line(s) = queue[s].items
  BY <1>1, <1>3 DEF Line
<1> QED BY <1>2, <1>3

LEMMA LineOfNext == IInv' => LineInv'
  BY LineOf, PTL

\* A session of which neither the queue nor the message being served changes keeps its line.
LEMMA SameLine ==
  ASSUME NEW s \in Sessions, queue'[s] = queue[s],
         \A x \in Messages : SessionOf[x] = s => (Serving(x)' <=> Serving(x))
  PROVE  Line(s)' = Line(s)
<1>1. UnansweredIn(s)' = UnansweredIn(s)
  BY DEF UnansweredIn, Serving, InProcess, Unanswered
<1> QED BY <1>1 DEF Line

\* What the outcome of a message depends on.
LEMMA SameOutcome ==
  ASSUME NEW m \in Messages, finals'[m] = finals[m],
         frame'[m].phase \in Unanswered <=> frame[m].phase \in Unanswered,
         store'[m] = NoRecord <=> store[m] = NoRecord
  PROVE  Outcome(m)' = Outcome(m)
  BY DEF Outcome

\* A step that touches no queue, answer, or row, and leaves the served messages as they are.
LEMMA Unmoved ==
  ASSUME UNCHANGED <<queue, finals, mode>>,
         \A x \in Messages : /\ frame'[x].phase \in Unanswered <=> frame[x].phase \in Unanswered
                             /\ Serving(x)' <=> Serving(x)
                             /\ store'[x] = NoRecord <=> store[x] = NoRecord
  PROVE  UNCHANGED Abstract!vars
<1>1. \A s \in Sessions : Line(s)' = Line(s)
  BY SameLine
<1>2. \A m \in Messages : Outcome(m)' = Outcome(m)
  BY SameOutcome
<1> QED BY <1>1, <1>2 DEF Abstract!vars

\* Sequences: a message appended behind a head is appended to the whole line.
LEMMA AppendBehind ==
  ASSUME NEW S, NEW h \in S, NEW m \in S, NEW items \in Seq(S)
  PROVE  <<h>> \o Append(items, m) = Append(<<h>> \o items, m)
<1>1. Append(items, m) = items \o <<m>> /\ Append(<<h>> \o items, m) = (<<h>> \o items) \o <<m>>
  BY AppendIsConcat, <<h>> \in Seq(S), <<h>> \o items \in Seq(S)
<1>2. <<h>> \o (items \o <<m>>) = (<<h>> \o items) \o <<m>>
  BY ConcatAssociative, <<h>> \in Seq(S), <<m>> \in Seq(S)
<1> QED BY <1>1, <1>2

\* acceptInbound appends the message to the line of its session.
LEMMA AcceptImplements ==
  ASSUME IInv, IInv', NEW m \in Messages, AcceptInbound(m)
  PROVE  Abstract!Accept(m)
<1> DEFINE s == SessionOf[m]
<1>1. /\ mode = "up" /\ mode' = "up" /\ UNCHANGED finals
      /\ store[m] = NoRecord /\ finals[m] = 0 /\ frame[m].phase = "idle"
      /\ s \in Sessions /\ queue[s].items \in Seq(Messages)
  <2>1. mode = "up" /\ mode' = "up" /\ UNCHANGED finals /\ store[m] = NoRecord
    BY DEF AcceptInbound, AcceptAndStart, AcceptBehind, Known
  <2>2. finals[m] = 0 /\ frame[m].phase = "idle"
    BY <2>1 DEF IInv, HistoryInv
  <2>3. s \in Sessions /\ queue[s].items \in Seq(Messages)
    BY ServiceAssumption DEF IInv, TypeOK, Queue
  <2> QED BY <2>1, <2>2, <2>3
<1>2. /\ frame'[m].phase \in Unanswered
      /\ \A x \in Messages \ {m} : frame'[x] = frame[x] /\ store'[x] = store[x]
  BY <1>1 DEF AcceptInbound, AcceptAndStart, AcceptBehind, StatusAndCode, FirstFrame, InPhase, NoFrame,
              Unanswered, IInv, TypeOK
<1>3. \A t \in Sessions \ {s} : queue'[t] = queue[t]
  BY <1>1 DEF AcceptInbound, AcceptAndStart, AcceptBehind, IInv, TypeOK
<1>4. Outcome(m) = "new" /\ Outcome(m)' = "pending"
  BY <1>1, <1>2 DEF Outcome, Unanswered
<1>5. \A x \in Messages \ {m} : Outcome(x)' = Outcome(x)
  BY <1>1, <1>2, SameOutcome
<1>6. \A t \in Sessions \ {s} : Line(t)' = Line(t)
  <2> SUFFICES ASSUME NEW t \in Sessions \ {s} PROVE Line(t)' = Line(t)
    OBVIOUS
  <2>1. \A x \in Messages : SessionOf[x] = t => (Serving(x)' <=> Serving(x))
    BY <1>2 DEF Serving
  <2> QED BY <1>3, <2>1, SameLine
<1>7. Line(s)' = Append(Line(s), m)
  <2>1. CASE AcceptAndStart(m)
    <3>1. queue[s].items = <<>> /\ queue'[s].items = <<>> /\ Serving(m)'
      BY <1>1, <2>1 DEF AcceptAndStart, FirstFrame, InPhase, NoFrame, Serving, IInv, TypeOK
    <3>2. \A x \in Messages : SessionOf[x] = s => ~Serving(x)
      BY <1>1, <2>1 DEF AcceptAndStart, PumpFree, IInv, QueueInv, InProcess, Serving
    <3>3. Line(s) = <<>>
      BY <1>1, <3>1, <3>2, LineOf DEF LineInv
    <3>4. Line(s)' = <<m>> \o queue'[s].items
      BY <1>1, <3>1, LineOfNext DEF LineInv
    <3> QED BY <3>1, <3>3, <3>4
  <2>2. CASE AcceptBehind(m)
    <3>1. queue'[s].items = Append(queue[s].items, m) /\ ~Serving(m) /\ ~Serving(m)'
      BY <1>1, <2>2 DEF AcceptBehind, InPhase, NoFrame, Serving, Push, IInv, TypeOK, Queue
    <3>2. \A x \in Messages : Serving(x)' <=> Serving(x)
      BY <1>2, <3>1 DEF Serving
    <3>3. CASE \E h \in Messages : SessionOf[h] = s /\ Serving(h)
      <4> PICK h \in Messages : SessionOf[h] = s /\ Serving(h)
        BY <3>3
      <4>1. Line(s) = <<h>> \o queue[s].items /\ Line(s)' = <<h>> \o queue'[s].items
        BY <1>1, <3>2, LineOf, LineOfNext DEF LineInv
      <4>2. <<h>> \o Append(queue[s].items, m) = Append(<<h>> \o queue[s].items, m)
        BY <1>1, AppendBehind
      <4> QED BY <3>1, <4>1, <4>2
    <3>4. CASE \A h \in Messages : SessionOf[h] = s => ~Serving(h)
      BY <1>1, <3>1, <3>2, <3>4, LineOf, LineOfNext DEF LineInv
    <3> QED BY <3>3, <3>4
  <2> QED BY <2>1, <2>2 DEF AcceptInbound
<1> QED BY <1>1, <1>4, <1>5, <1>6, <1>7 DEF Abstract!Accept

\* Only the message of process(m) itself can be served in its session.
LEMMA OneServed ==
  ASSUME IInv, NEW m \in Messages, InProcess(m), NEW x \in Messages, SessionOf[x] = SessionOf[m], Serving(x)
  PROVE  x = m
  BY DEF IInv, QueueInv, SessionMutex, InProcess, Serving

\* Issuing the terminal answer takes the message off the head of its line.
LEMMA AnswerImplements ==
  ASSUME IInv, IInv', NEW m \in Messages, Serving(m), NEW kind, IssueTerminal(m, kind),
         mode = "up", UNCHANGED <<mode, queue>>,
         frame'[m].phase \in Delivering, \A x \in Messages \ {m} : frame'[x] = frame[x],
         \A x \in Messages \ {m} : store'[x] = store[x]
  PROVE  Abstract!Answer(m)
<1> DEFINE s == SessionOf[m]
<1>1. s \in Sessions /\ queue[s].items \in Seq(Messages) /\ InProcess(m)
  BY ServiceAssumption DEF IInv, TypeOK, Queue, InProcess, Serving
<1>2. /\ finals[m] = 0 /\ finals'[m] = 1
      /\ \A x \in Messages \ {m} : finals'[x] = finals[x]
  BY DEF IInv, HistoryInv, TypeOK, IssueTerminal, Serving, Unanswered
<1>3. Outcome(m) = "pending" /\ Outcome(m)' = "answered"
  BY <1>2 DEF Outcome, Serving, Unanswered
<1>4. \A x \in Messages \ {m} : Outcome(x)' = Outcome(x)
  BY <1>2, SameOutcome
<1>5. Line(s) = <<m>> \o queue[s].items
  BY <1>1, LineOf DEF LineInv
<1>6. Line(s)' = queue[s].items
  <2>1. \A x \in Messages : SessionOf[x] = s => ~Serving(x)'
    BY <1>1, OneServed DEF Serving, Delivering
  <2> QED BY <1>1, <2>1, LineOfNext DEF LineInv
<1>7. \A t \in Sessions \ {s} : Line(t)' = Line(t)
  <2> SUFFICES ASSUME NEW t \in Sessions \ {s} PROVE Line(t)' = Line(t)
    OBVIOUS
  <2>1. \A x \in Messages : SessionOf[x] = t => (Serving(x)' <=> Serving(x))
    BY DEF Serving
  <2> QED BY <2>1, SameLine
<1>8. Line(s) # <<>> /\ m = Head(Line(s)) /\ Line(s)' = Tail(Line(s))
  BY <1>1, <1>5, <1>6
<1> QED BY <1>1, <1>3, <1>4, <1>7, <1>8 DEF Abstract!Answer

\* The pump takes its next message after an answered one: the line of the session stays.
LEMMA NextIsStutter ==
  ASSUME IInv, IInv', NEW m \in Messages, frame[m].phase \in Delivering, PumpNext(m),
         UNCHANGED <<mode, finals>>, \A x \in Messages : store'[x] = NoRecord <=> store[x] = NoRecord
  PROVE  UNCHANGED Abstract!vars
<1> DEFINE s == SessionOf[m]
<1>1. /\ s \in Sessions /\ queue[s].items \in Seq(Messages) /\ queue[s].items # <<>>
      /\ InProcess(m) /\ ~Serving(m)
  BY ServiceAssumption DEF IInv, TypeOK, Queue, InProcess, Serving, Delivering, PumpNext, PumpContinues
<1>2. PICK n \in Messages : n = Head(queue[s].items)
  BY <1>1
<1>3. SessionOf[n] = s /\ Waiting(n) /\ n # m
  BY <1>1, <1>2 DEF IInv, QueueInv, Waiting, InProcess
<1>4. /\ frame'[n] = FirstFrame /\ frame'[m] = NoFrame
      /\ \A x \in Messages \ {m, n} : frame'[x] = frame[x]
      /\ queue'[s].items = Tail(queue[s].items)
      /\ \A t \in Sessions \ {s} : queue'[t] = queue[t]
  BY <1>1, <1>2, <1>3 DEF PumpNext, IInv, TypeOK, Queue
<1>5. Serving(n)' /\ ~Serving(n) /\ ~Serving(m)'
  BY <1>2, <1>3, <1>4 DEF Serving, Waiting, FirstFrame, InPhase, NoFrame
<1>6. \A x \in Messages : Outcome(x)' = Outcome(x)
  <2>1. \A x \in Messages : frame'[x].phase \in Unanswered <=> frame[x].phase \in Unanswered
    BY <1>2, <1>3, <1>4, <1>5 DEF Serving, Waiting, Unanswered, Delivering, NoFrame
  <2> QED BY <2>1, SameOutcome
<1>7. Line(s)' = Line(s)
  <2>1. \A x \in Messages : SessionOf[x] = s => ~Serving(x)
    BY <1>1, OneServed
  <2>2. Line(s) = queue[s].items
    BY <1>1, <2>1, LineOf DEF LineInv
  <2>3. Line(s)' = <<n>> \o Tail(queue[s].items)
    BY <1>1, <1>2, <1>3, <1>4, <1>5, LineOfNext DEF LineInv
  <2>4. <<n>> \o Tail(queue[s].items) = queue[s].items
    BY <1>1, <1>2
  <2> QED BY <2>2, <2>3, <2>4
<1>8. \A t \in Sessions \ {s} : Line(t)' = Line(t)
  <2> SUFFICES ASSUME NEW t \in Sessions \ {s} PROVE Line(t)' = Line(t)
    OBVIOUS
  <2>1. \A x \in Messages : SessionOf[x] = t => (Serving(x)' <=> Serving(x))
    BY <1>2, <1>3, <1>4 DEF Serving
  <2> QED BY <1>4, <2>1, SameLine
<1> QED BY <1>6, <1>7, <1>8 DEF Abstract!vars

\* The pump of a closed ledger runs the queue empty: the session's line is lost.
LEMMA StopsLoses ==
  ASSUME IInv, IInv', NEW m \in Messages, InProcess(m), PumpStops(m), mode = "stopping",
         UNCHANGED <<mode, finals, store>>
  PROVE  Abstract!Lose({SessionOf[m]}, {})
<1> DEFINE s == SessionOf[m]
<1>1. s \in Sessions
  BY ServiceAssumption
<1>2. /\ \A x \in Messages : SessionOf[x] = s => frame'[x].phase = "idle"
      /\ \A x \in Messages : SessionOf[x] # s => frame'[x] = frame[x]
  BY QueueStops DEF IInv
<1>3. queue'[s].items = <<>> /\ \A t \in Sessions \ {s} : queue'[t] = queue[t]
  BY <1>1 DEF PumpStops, Released, NoQueue, IInv, TypeOK
<1>4. Line(s)' = <<>>
  BY <1>1, <1>2, <1>3, LineOfNext DEF LineInv, Serving
<1>5. \A t \in Sessions \ {s} : Line(t)' = Line(t)
  <2> SUFFICES ASSUME NEW t \in Sessions \ {s} PROVE Line(t)' = Line(t)
    OBVIOUS
  <2>1. \A x \in Messages : SessionOf[x] = t => (Serving(x)' <=> Serving(x))
    BY <1>2 DEF Serving
  <2> QED BY <1>3, <2>1, SameLine
<1>6. \A x \in Messages : Outcome(x)' = IF Outcome(x) = "pending" /\ SessionOf[x] = s THEN "lost" ELSE Outcome(x)
  <2> SUFFICES ASSUME NEW x \in Messages
               PROVE  Outcome(x)' = IF Outcome(x) = "pending" /\ SessionOf[x] = s THEN "lost" ELSE Outcome(x)
    OBVIOUS
  <2>1. frame[x].phase \in Unanswered => store[x] # NoRecord
    BY DEF IInv, HistoryInv, Unanswered
  <2> QED BY <1>2, <2>1 DEF Outcome, Unanswered
<1> QED BY <1>4, <1>5, <1>6 DEF Abstract!Lose

\* With the memory all lines are lost, and perhaps a message just recorded.
LEMMA MemoryLoses ==
  ASSUME IInv, IInv', MemoryLost, NEW struck \in SUBSET Messages,
         \A x \in struck : store[x] = NoRecord /\ store'[x] # NoRecord,
         \A x \in Messages \ struck : store'[x] = NoRecord <=> store[x] = NoRecord
  PROVE  Abstract!Lose(Sessions, struck)
<1>1. /\ \A s \in Sessions : queue'[s].items = <<>>
      /\ \A x \in Messages : frame'[x].phase = "idle" /\ finals'[x] = finals[x]
  BY DEF MemoryLost, NoQueue, NoFrame
<1>2. \A s \in Sessions : Line(s)' = <<>>
  BY <1>1, LineOfNext DEF LineInv, Serving
<1>3. \A x \in struck : Outcome(x) = "new"
  BY DEF IInv, HistoryInv, Outcome, Unanswered
<1>4. \A x \in Messages : Outcome(x)' = IF x \in struck \/ Outcome(x) = "pending" THEN "lost" ELSE Outcome(x)
  <2> SUFFICES ASSUME NEW x \in Messages
               PROVE  Outcome(x)' = IF x \in struck \/ Outcome(x) = "pending" THEN "lost" ELSE Outcome(x)
    OBVIOUS
  <2>1. frame[x].phase \in Unanswered => store[x] # NoRecord
    BY DEF IInv, HistoryInv, Unanswered
  <2>2. store[x] = NoRecord => finals[x] = 0
    BY DEF IInv, HistoryInv
  <2> QED BY <1>1, <2>1, <2>2 DEF Outcome, Unanswered
<1>5. mode' # "up" /\ \A x \in Messages : SessionOf[x] \in Sessions
  BY ServiceAssumption DEF MemoryLost
<1> QED BY <1>2, <1>3, <1>4, <1>5 DEF Abstract!Lose

\* With the ledger open the pump stops only when nothing waits: nothing is lost.
LEMMA StopIsStutter ==
  ASSUME IInv, IInv', NEW m \in Messages, frame[m].phase \in Delivering, PumpStops(m), mode = "up",
         UNCHANGED <<mode, finals>>, \A x \in Messages : store'[x] = NoRecord <=> store[x] = NoRecord
  PROVE  UNCHANGED Abstract!vars
<1> DEFINE s == SessionOf[m]
<1>1. s \in Sessions /\ queue[s].items = <<>> /\ InProcess(m) /\ ~Serving(m)
  BY ServiceAssumption DEF InProcess, Serving, Delivering, PumpStops, PumpContinues
<1>2. /\ \A x \in Messages : SessionOf[x] = s => frame'[x].phase = "idle"
      /\ \A x \in Messages : SessionOf[x] # s => frame'[x] = frame[x]
  BY <1>1, QueueStops DEF IInv
<1>3. queue'[s].items = <<>> /\ \A t \in Sessions \ {s} : queue'[t] = queue[t]
  BY <1>1 DEF PumpStops, Released, NoQueue, IInv, TypeOK
<1>4. \A x \in Messages : SessionOf[x] = s => frame[x].phase \notin Unanswered
  <2> SUFFICES ASSUME NEW x \in Messages, SessionOf[x] = s PROVE frame[x].phase \notin Unanswered
    OBVIOUS
  <2>1. ~Waiting(x)
    BY <1>1 DEF IInv, QueueInv
  <2>2. ~Serving(x)
    BY <1>1, OneServed
  <2> QED BY <2>1, <2>2 DEF Waiting, Serving, Unanswered
<1>5. \A x \in Messages : Outcome(x)' = Outcome(x)
  <2>1. \A x \in Messages : frame'[x].phase \in Unanswered <=> frame[x].phase \in Unanswered
    BY <1>2, <1>4 DEF Unanswered
  <2> QED BY <2>1, SameOutcome
<1>6. \A x \in Messages : Serving(x)' <=> Serving(x)
  BY <1>2, <1>4 DEF Serving, Unanswered
<1>7. Line(s)' = Line(s)
  <2>1. Line(s) = <<>> /\ Line(s)' = <<>>
    BY <1>1, <1>3, <1>4, <1>6, LineOf, LineOfNext DEF LineInv, Serving, Unanswered
  <2> QED BY <2>1
<1>8. \A t \in Sessions \ {s} : Line(t)' = Line(t)
  BY <1>3, <1>6, SameLine
<1> QED BY <1>5, <1>7, <1>8 DEF Abstract!vars

-----------------------------------------------------------------------------
(* Every step of the service is a step of SessionDelivery, or none.        *)

Implements == [Abstract!Next]_(Abstract!vars)

\* Only a live process runs process().
LEMMA Alive ==
  ASSUME IInv, NEW m \in Messages, InProcess(m)
  PROVE  mode \in {"up", "stopping"} /\ store[m] # NoRecord
  BY DEF IInv, TypeOK, DownInv, HistoryInv, InProcess, NoFrame

\* The delivery of an answer ends without a trace, unless the ledger is closed.
LEMMA DeliveryImplements ==
  ASSUME IInv, IInv', NEW m \in Messages, Delivery(m)
  PROVE  Implements
<1>1. frame[m].phase \in Delivering /\ InProcess(m)
  BY DEF Delivery, OutboundDelivered, OutboundSkipped, OutboundFailed, Delivering, InProcess
<1>2. PICK row : /\ Resolve(m, row)
                 /\ \A x \in Messages : row[x] = NoRecord <=> store[x] = NoRecord
  BY <1>1, Alive, RowWritten DEF IInv, Delivery, OutboundDelivered, OutboundSkipped, OutboundFailed, Statuses
<1>3. /\ UNCHANGED <<mode, finals>> /\ EndProcess(m)
      /\ \A x \in Messages : store'[x] = NoRecord <=> store[x] = NoRecord
      /\ mode = "stopping" => UNCHANGED store
  BY <1>2 DEF Resolve
<1>4. CASE PumpNext(m)
  BY <1>1, <1>3, <1>4, NextIsStutter DEF Implements
<1>5. CASE PumpStops(m) /\ mode = "up"
  BY <1>1, <1>3, <1>5, StopIsStutter DEF Implements
<1>6. CASE PumpStops(m) /\ mode = "stopping"
  <2>1. Abstract!Lose({SessionOf[m]}, {})
    BY <1>1, <1>3, <1>6, StopsLoses
  <2> QED BY <2>1, ServiceAssumption DEF Implements, Abstract!Next
<1> QED BY <1>1, <1>3, <1>4, <1>5, <1>6, Alive DEF EndProcess

\* process() thrown out of by the closed ledger.
LEMMA ThrownImplements ==
  ASSUME IInv, IInv', NEW m \in Messages, InProcess(m), mode = "stopping", EndProcess(m),
         UNCHANGED <<mode, finals, store>>
  PROVE  Implements
<1>1. PumpStops(m)
  BY DEF EndProcess, PumpNext, PumpContinues
<1>2. Abstract!Lose({SessionOf[m]}, {})
  BY <1>1, StopsLoses
<1> QED BY <1>2, ServiceAssumption DEF Implements, Abstract!Next

\* The terminal event answers.
LEMMA TerminalImplements ==
  ASSUME IInv, IInv', NEW m \in Messages, NEW outcome \in TerminalKinds, NEW transport \in Transports,
         frame[m].phase \in {"sending", "waiting"}, TerminalReceived(m, outcome, transport)
  PROVE  Implements
<1>1. frame'[m].phase = "outbound" /\ \A x \in Messages \ {m} : frame'[x] = frame[x]
  BY DEF TerminalReceived, IInv, TypeOK, Frame
<1>2. TerminalStatus(outcome) \in Statuses
  BY DEF TerminalStatus, TerminalKinds, Statuses
<1>3. \A x \in Messages \ {m} : store'[x] = store[x]
  BY <1>2, RowWritten DEF TerminalReceived, TerminalRow, IInv
<1>4. Abstract!Answer(m)
  BY <1>1, <1>3, AnswerImplements DEF TerminalReceived, Serving, Delivering
<1> QED BY <1>4 DEF Implements, Abstract!Next

\* The activation gate answers, or lets the message pass.
LEMMA ActivationImplements ==
  ASSUME IInv, IInv', NEW m \in Messages, Activation(m)
  PROVE  Implements
<1>1. frame[m].phase = "activation" /\ InProcess(m)
  BY DEF Activation, ActivationOk, ActivationRejected, InProcess
<1>2. CASE ActivationOk(m)
  <2>1. /\ frame'[m].phase = "sending" /\ \A x \in Messages \ {m} : frame'[x] = frame[x]
        /\ UNCHANGED <<queue, finals, mode, store>>
    BY <1>2 DEF ActivationOk, InPhase, NoFrame, IInv, TypeOK
  <2>2. UNCHANGED Abstract!vars
    BY <1>1, <2>1, Unmoved DEF Serving, Unanswered
  <2> QED BY <2>2 DEF Implements
<1>3. CASE ActivationRejected(m) /\ mode = "up"
  <2>1. /\ frame' = [frame EXCEPT ![m].phase = "gated"] /\ store' = RejectedRow(m)
        /\ IssueTerminal(m, "error") /\ UNCHANGED <<queue, mode>>
    BY <1>3 DEF ActivationRejected
  <2>2. frame'[m].phase = "gated" /\ \A x \in Messages \ {m} : frame'[x] = frame[x]
    BY <2>1 DEF IInv, TypeOK, Frame
  <2>3. \A x \in Messages \ {m} : store'[x] = store[x]
    BY <2>1, RowWritten DEF RejectedRow, Statuses, IInv
  <2>4. Abstract!Answer(m)
    BY <1>1, <1>3, <2>1, <2>2, <2>3, AnswerImplements DEF Serving, Delivering
  <2> QED BY <2>4 DEF Implements, Abstract!Next
<1>4. CASE ActivationRejected(m) /\ mode # "up"
  BY <1>1, <1>4, ThrownImplements DEF ActivationRejected
<1> QED BY <1>2, <1>3, <1>4 DEF Activation

\* The attempt loop answers when it ends; before that it moves nothing.
LEMMA SendChatImplements ==
  ASSUME IInv, IInv', NEW m \in Messages, SendChat(m)
  PROVE  Implements
<1>1. frame[m].phase \in {"sending", "waiting"} /\ InProcess(m)
  BY DEF SendChat, SendChatAccepted, Retry, GiveUp, AttemptFails, HttpAnswered, HttpReply, InProcess
<1>2. CASE SendChatAccepted(m) \/ Retry(m)
  <2>1. /\ frame'[m].phase \in {"sending", "waiting"} /\ \A x \in Messages \ {m} : frame'[x] = frame[x]
        /\ UNCHANGED <<queue, finals, mode>>
    BY <1>2 DEF SendChatAccepted, Retry, IInv, TypeOK, Frame
  <2>2. \A x \in Messages : store'[x] = NoRecord <=> store[x] = NoRecord
    BY <1>1, <1>2, Alive, RowWritten DEF SendChatAccepted, Retry, Statuses, IInv
  <2>3. UNCHANGED Abstract!vars
    BY <1>1, <2>1, <2>2, Unmoved DEF Serving, Unanswered
  <2> QED BY <2>3 DEF Implements
<1>3. CASE GiveUp(m) /\ mode = "up"
  <2>1. /\ frame' = [frame EXCEPT ![m].phase = "outbound"] /\ store' = GivenUpRow(m)
        /\ IssueTerminal(m, "error") /\ UNCHANGED <<queue, mode>>
    BY <1>3 DEF GiveUp
  <2>2. frame'[m].phase = "outbound" /\ \A x \in Messages \ {m} : frame'[x] = frame[x]
    BY <2>1 DEF IInv, TypeOK, Frame
  <2>3. \A x \in Messages \ {m} : store'[x] = store[x]
    BY <2>1, RowWritten DEF GivenUpRow, Statuses, IInv
  <2>4. Abstract!Answer(m)
    BY <1>1, <1>3, <2>1, <2>2, <2>3, AnswerImplements DEF Serving, Delivering
  <2> QED BY <2>4 DEF Implements, Abstract!Next
<1>4. CASE GiveUp(m) /\ mode # "up"
  BY <1>1, <1>4, ThrownImplements DEF GiveUp
<1>5. ASSUME NEW outcome \in {"final", "timeout"}, HttpAnswered(m, outcome) PROVE Implements
  BY <1>1, <1>5, TerminalImplements DEF HttpAnswered, TerminalKinds, Transports
<1> QED BY <1>2, <1>3, <1>4, <1>5 DEF SendChat

\* Stopping closes the adapter; what ends the process empties every line.
LEMMA StopImplements ==
  ASSUME IInv, IInv', Stop
  PROVE  Implements
<1>1. CASE Shutdown
  <2>1. \A s \in Sessions : Line(s)' = Line(s)
    BY <1>1, SameLine DEF Shutdown, memory, Serving
  <2>2. \A x \in Messages : Outcome(x)' = Outcome(x)
    BY <1>1, SameOutcome DEF Shutdown, memory
  <2>3. Abstract!Lose({}, {})
    BY <1>1, <2>1, <2>2 DEF Shutdown, Abstract!Lose
  <2> QED BY <2>3 DEF Implements, Abstract!Next
<1>2. ASSUME MemoryLost, \A x \in Messages : store'[x] = NoRecord <=> store[x] = NoRecord
      PROVE  Implements
  <2>1. Abstract!Lose(Sessions, {})
    BY <1>2, MemoryLoses
  <2> QED BY <2>1 DEF Implements, Abstract!Next
<1>3. CASE Exit \/ Crash
  BY <1>2, <1>3 DEF Exit, Crash
<1>4. ASSUME NEW m \in Messages, CrashInAccept(m) PROVE Implements
  <2>1. /\ MemoryLost /\ store[m] = NoRecord /\ store'[m] # NoRecord
        /\ \A x \in Messages \ {m} : store'[x] = store[x]
    BY <1>4, RowWritten DEF CrashInAccept, Known, Statuses, IInv
  <2>2. Abstract!Lose(Sessions, {m})
    BY <2>1, MemoryLoses
  <2> QED BY <2>2 DEF Implements, Abstract!Next
<1>5. ASSUME NEW m \in Messages, CrashInProcess(m) PROVE Implements
  <2>1. InProcess(m) /\ MemoryLost
    BY <1>5 DEF CrashInProcess, AttemptFails, HttpReply, ChatEvent, InProcess
  <2>2. \A outcome \in TerminalKinds : TerminalStatus(outcome) \in Statuses
    BY DEF TerminalStatus, TerminalKinds, Statuses
  <2>3. store'[m] # NoRecord /\ \A x \in Messages \ {m} : store'[x] = store[x]
    BY <1>5, <2>2, RowWritten DEF CrashInProcess, RejectedRow, GivenUpRow, TerminalRow, Statuses, IInv
  <2>4. store[m] # NoRecord
    BY <2>1, Alive
  <2> QED BY <1>2, <2>1, <2>3, <2>4
<1> QED BY <1>1, <1>3, <1>4, <1>5 DEF Stop

\* The queues are empty at the start and after a stop, so the lines are.
LEMMA StepImplements == IInv /\ IInv' /\ [Next]_vars => [Abstract!Next]_(Abstract!vars)
<1> SUFFICES ASSUME IInv, IInv', [Next]_vars PROVE Implements
  BY DEF Implements
<1>1. ASSUME NEW m \in Messages, AcceptInbound(m) PROVE Implements
  <2>1. Abstract!Accept(m)
    BY <1>1, AcceptImplements
  <2> QED BY <2>1 DEF Implements, Abstract!Next
<1>2. ASSUME NEW m \in Messages, Process(m) PROVE Implements
  <2>1. CASE WaitForTerminal(m)
    <3> PICK outcome \in TerminalKinds : ChatTerminal(m, outcome)
      BY <2>1 DEF WaitForTerminal
    <3> QED BY TerminalImplements DEF ChatTerminal, ChatEvent, Transports
  <2> QED BY <1>2, <2>1, ActivationImplements, SendChatImplements, DeliveryImplements DEF Process
<1>3. ASSUME NEW m \in Messages, NEW x \in Messages, NEW named \in BOOLEAN, NEW kind \in StageKinds,
             CompactionEvent(m, x, named, kind)
      PROVE  Implements
  <2>1. /\ \A y \in Messages : frame'[y].phase = frame[y].phase
        /\ UNCHANGED <<queue, finals, mode, store>>
    BY <1>3 DEF CompactionEvent, IInv, TypeOK, Frame
  <2>2. UNCHANGED Abstract!vars
    BY <2>1, Unmoved DEF Serving
  <2> QED BY <2>2 DEF Implements
<1>4. CASE External \/ UNCHANGED vars
  <2>1. UNCHANGED <<queue, finals, mode, frame, store>>
    BY <1>4 DEF External, GatewayStarts, GatewayEnds, ProxyReceives, memory, vars
  <2>2. UNCHANGED Abstract!vars
    BY <2>1, Unmoved DEF Serving
  <2> QED BY <2>2 DEF Implements
<1>5. CASE Restart
  <2>1. /\ mode = "down" /\ mode' = "up" /\ UNCHANGED <<queue, finals, frame, store>>
        /\ \A s \in Sessions : queue[s].items = <<>>
        /\ \A m \in Messages : ~Serving(m)
    BY <1>5 DEF Restart, memory, IInv, DownInv, NoQueue, NoFrame, Serving
  <2>2. \A s \in Sessions : Line(s) = <<>>
    BY <2>1, LineOf DEF LineInv
  <2>3. \A s \in Sessions : Line(s)' = Line(s)
    BY <2>1, SameLine DEF Serving
  <2>4. \A m \in Messages : Outcome(m)' = Outcome(m)
    BY <2>1, SameOutcome
  <2>5. Abstract!Reopen
    BY <2>1, <2>2, <2>3, <2>4 DEF Abstract!Reopen
  <2> QED BY <2>5 DEF Implements, Abstract!Next
<1> QED BY <1>1, <1>2, <1>3, <1>4, <1>5, StopImplements DEF Next

\* At the start nothing is recorded and all lines are empty.
LEMMA InitImplements == Init => Abstract!Init
<1> SUFFICES ASSUME Init PROVE Abstract!Init
  OBVIOUS
<1>1. \A s \in Sessions : Line(s) = <<>>
  BY InvInitial, LineOf DEF LineInv, Init, NoQueue, NoFrame, Serving
<1>2. \A m \in Messages : Outcome(m) = "new"
  BY DEF Init, Outcome, NoFrame, Unanswered
<1> QED BY <1>1, <1>2 DEF Init, Abstract!Init

\* The service keeps its promise for every value of the constants: each session's messages are
\* answered in the order acceptInbound took them, one at a time and at most once, and none is
\* dropped while the process is up.
THEOREM ServiceImplementsDelivery == Spec => AnsweredInOrder
  BY InitImplements, StepImplements, InvariantHolds, PTL DEF Spec, AnsweredInOrder, Abstract!Spec
=============================================================================
