------------------------- MODULE AdapterServerProofs -------------------------
(***************************************************************************)
(* Theorems about AdapterServer, for every number of requests in flight,   *)
(* every set of payloads, every normalization of agent ids, and every      *)
(* number of crashes, restarts and lost replies.                           *)
(***************************************************************************)
EXTENDS AdapterServer, TLAPS

-----------------------------------------------------------------------------
(* What the payloads are, and what routing makes of them.                  *)

\* What is no inbound payload is none of those the Proxy sends, and no row stands for it.
LEMMA OthersAreNoPosts ==
  /\ Junk \notin Posts /\ Message \notin Posts
  /\ \A p \in Posts : Routed(p) # NoRow /\ Routed(p).post = p
<1>1. \A p \in Posts : p.user # None
  BY ServerAssumption DEF Post
<1>2. Junk.user = None /\ Message.user = None
  BY DEF Junk, Message, Other
<1>3. \A p \in Posts : Routed(p).post = p /\ NoRow.post = Junk
  BY DEF Routed, NoRow
<1> QED BY <1>1, <1>2, <1>3

\* Whichever way the session key was found, it names the agent the message goes to.
LEMMA KeyNamesAgent ==
  ASSUME NEW p \in Posts, ~RoutingError(p)
  PROVE  SessionKey(p).agent = AgentId(p)
  BY DEF RoutingError, SessionKey

\* A key that was asked for by neither the Proxy nor the deployment names the user.
LEMMA KeyNamesUser ==
  ASSUME NEW p \in Posts, NEW q \in Posts, SessionKey(p) = SessionKey(q), ~Shared(p), ~Shared(q)
  PROVE  p.user = q.user
<1>1. /\ SessionKey(p).scope = <<"knox", "dm", p.user>>
      /\ SessionKey(q).scope = <<"knox", "dm", q.user>>
  BY DEF SessionKey, Shared, DirectMessage
<1>2. \A u, v : <<"knox", "dm", u>> = <<"knox", "dm", v>> => u = v
  OBVIOUS
<1> QED BY <1>1, <1>2

-----------------------------------------------------------------------------
(* Type correctness.                                                       *)

Statuses == {0, 200, 202, 400, 401}

Request == [phase  : {"idle", "reading", "forwarding", "replying"},
            kind   : {None, "inbound", "core"},
            body   : Bodies,
            status : Statuses]

\* The states of a request handler are well typed.
LEMMA RequestType ==
  /\ Idle \in Request
  /\ \A p \in Posts : Reading("inbound", p) \in Request
  /\ Reading("inbound", Junk) \in Request
  /\ \A body \in {Junk, Message} : Reading("core", body) \in Request
  BY DEF Idle, Reading, Request, Bodies, Statuses

\* So is a handler that replies or forwards.
LEMMA RepliedType ==
  ASSUME NEW r \in Requests, req \in [Requests -> Request]
  PROVE  /\ \A status \in Statuses : Replied(r, status) \in [Requests -> Request]
         /\ [req EXCEPT ![r].phase = "forwarding"] \in [Requests -> Request]
<1>1. req[r] \in Request
  OBVIOUS
<1>2. ASSUME NEW status \in Statuses PROVE Replied(r, status) \in [Requests -> Request]
  <2>1. Replied(r, status) = [req EXCEPT ![r] = [req[r] EXCEPT !.phase = "replying", !.status = status]]
    BY DEF Replied
  <2>2. [req[r] EXCEPT !.phase = "replying", !.status = status] \in Request
    BY <1>1 DEF Request
  <2> QED BY <2>1, <2>2
<1>3. [req[r] EXCEPT !.phase = "forwarding"] \in Request
  BY <1>1 DEF Request
<1> QED BY <1>2, <1>3

\* The initial states are well typed.
LEMMA TypeInitial == Init => TypeOK
<1> SUFFICES ASSUME Init PROVE TypeOK
  OBVIOUS
<1>1. req \in [Requests -> Request]
  BY RequestType DEF Init
<1> QED BY <1>1, ServerAssumption DEF Init, TypeOK, Request, Statuses

\* The process ends, stops or starts again.
LEMMA ProcessType ==
  ASSUME TypeOK, \/ Unhandled /\ (Mishap \/ UNCHANGED mishaps)
                 \/ Signal \/ Restart
  PROVE  TypeOK'
<1>1. mishaps' \in 0..MaxMishaps
  BY ServerAssumption DEF TypeOK, Mishap, Signal, Restart
<1>2. [r \in Requests |-> Idle] \in [Requests -> Request]
  BY RequestType
<1> QED BY <1>1, <1>2 DEF TypeOK, Unhandled, ProcessEnds, Signal, Restart, Request, Statuses, Routed, AgentId,
           SessionKey, SessionMode, DirectMessage

\* A step of one request changes the handler, perhaps the ledger, perhaps what the Proxy knows.
LEMMA RequestKeepsType ==
  ASSUME TypeOK, UNCHANGED <<config, mode>>,
         req' \in [Requests -> Request],
         row' = row \/ \E p \in Posts : row' = [row EXCEPT ![p.id] = Routed(p)],
         heard' \in [Posts -> SUBSET Verdicts],
         fresh' = fresh \/ \E p \in Posts : fresh' = [fresh EXCEPT ![p.id] = @ + 1],
         Mishap \/ UNCHANGED mishaps
  PROVE  TypeOK'
<1>1. mishaps' \in 0..MaxMishaps
  BY ServerAssumption DEF TypeOK, Mishap
<1>2. row' \in [Ids -> {NoRow} \cup {Routed(p) : p \in Posts}]
  BY DEF TypeOK
<1>3. fresh' \in [Ids -> Nat]
  BY DEF TypeOK
<1>4. \A p \in Posts : Routed(p)' = Routed(p)
  BY DEF Routed, AgentId, SessionKey, SessionMode, DirectMessage
<1>5. row' \in [Ids -> {NoRow} \cup {Routed(p)' : p \in Posts}]
  BY <1>2, <1>4
<1> QED BY <1>1, <1>3, <1>5 DEF TypeOK, Request, Statuses

\* Every step keeps the types.
LEMMA TypeInductive == TypeOK /\ [Next]_vars => TypeOK'
<1> SUFFICES ASSUME TypeOK, [Next]_vars PROVE TypeOK'
  OBVIOUS
<1>1. req \in [Requests -> Request]
  BY DEF TypeOK, Request, Statuses
<1>2. CASE UNCHANGED vars
  BY <1>2 DEF vars, TypeOK, Routed, AgentId, SessionKey, SessionMode, DirectMessage
<1>3. CASE Signal \/ Exit \/ Crash \/ Restart
  BY <1>3, ProcessType DEF Exit, Crash
<1>4. ASSUME NEW r \in Requests, \/ \E p \in Posts : Posted(r, p)
                                 \/ OthersPost(r)
      PROVE  TypeOK'
  <2>1. req' \in [Requests -> Request]
    BY <1>1, <1>4, RequestType DEF Posted, OthersPost, Arrives
  <2> QED BY <1>4, <2>1, RequestKeepsType DEF Posted, OthersPost, Arrives, TypeOK
<1>5. ASSUME NEW r \in Requests, Probe(r) \/ LedgerClosed(r) \/ ForwardFails(r) \/ ClientAborts(r)
      PROVE  TypeOK'
  BY <1>5, ProcessType DEF Probe, LedgerClosed, ForwardFails, ClientAborts
<1>6. ASSUME NEW r \in Requests, Unverified(r) \/ InvalidInbound(r) \/ CoreSend(r) \/ Forwarded(r)
      PROVE  TypeOK'
  <2>1. req' \in [Requests -> Request]
    <3>1. /\ Replied(r, 202) \in [Requests -> Request] /\ Replied(r, 400) \in [Requests -> Request]
          /\ Replied(r, 401) \in [Requests -> Request]
          /\ [req EXCEPT ![r].phase = "forwarding"] \in [Requests -> Request]
      BY <1>1, RepliedType DEF Statuses
    <3> QED BY <1>6, <3>1 DEF Unverified, InvalidInbound, CoreSend, Forwarded
  <2>2. /\ UNCHANGED <<config, mode, row, heard, fresh>>
        /\ Mishap \/ UNCHANGED mishaps
    BY <1>6 DEF Unverified, InvalidInbound, Verified, CoreSend, Forwarded, Handles
  <2> QED BY <2>1, <2>2, RequestKeepsType DEF TypeOK
<1>7. ASSUME NEW r \in Requests, ReplyArrives(r) \/ ReplyLost(r)
      PROVE  TypeOK'
  <2>1. req' \in [Requests -> Request]
    BY <1>1, <1>7, RequestType DEF ReplyArrives, ReplyLost
  <2>2. heard' \in [Posts -> SUBSET Verdicts]
    BY <1>7 DEF ReplyArrives, ReplyLost, Arrived, TypeOK
  <2> QED BY <1>7, <2>1, <2>2, RequestKeepsType DEF ReplyArrives, ReplyLost
<1>8. ASSUME NEW r \in Requests, NEW p \in Posts, Duplicate(r, p) \/ Refused(r, p) \/ Accepted(r, p)
      PROVE  TypeOK'
  <2>1. /\ Replied(r, 200) \in [Requests -> Request] /\ Replied(r, 202) \in [Requests -> Request]
        /\ Replied(r, 400) \in [Requests -> Request]
    <3>1. \A status \in Statuses : Replied(r, status) \in [Requests -> Request]
      BY <1>1, RepliedType
    <3>2. 200 \in Statuses /\ 202 \in Statuses /\ 400 \in Statuses
      BY DEF Statuses
    <3> QED BY <3>1, <3>2
  <2>2. CASE ProcessEnds /\ row' = [row EXCEPT ![p.id] = Routed(p)] /\ Mishap /\ UNCHANGED fresh
    <3>1. mishaps' \in 0..MaxMishaps
      BY <2>2, ServerAssumption DEF TypeOK, Mishap
    <3>2. row' \in [Ids -> {NoRow} \cup {Routed(q) : q \in Posts}]
      <4>1. row \in [Ids -> {NoRow} \cup {Routed(q) : q \in Posts}]
        BY DEF TypeOK
      <4> QED BY <2>2, <4>1
    <3>3. \A q \in Posts : Routed(q)' = Routed(q)
      BY <2>2 DEF ProcessEnds, Routed, AgentId, SessionKey, SessionMode, DirectMessage
    <3>4. row' \in [Ids -> {NoRow} \cup {Routed(q)' : q \in Posts}]
      BY <3>2, <3>3
    <3>5. req' \in [Requests -> Request]
      BY <2>2, RequestType DEF ProcessEnds
    <3> QED BY <2>2, <3>1, <3>4, <3>5 DEF TypeOK, ProcessEnds, Request, Statuses
  <2>3. CASE ~(ProcessEnds /\ row' = [row EXCEPT ![p.id] = Routed(p)] /\ Mishap /\ UNCHANGED fresh)
    <3>1. req' \in [Requests -> Request]
      BY <1>8, <2>1, <2>3 DEF Duplicate, DuplicateStatus, Refused, Accepted
    <3>2. /\ UNCHANGED <<config, mode, heard, mishaps>>
          /\ row' = row \/ row' = [row EXCEPT ![p.id] = Routed(p)]
          /\ fresh' = fresh \/ fresh' = [fresh EXCEPT ![p.id] = @ + 1]
      BY <1>8, <2>3 DEF Duplicate, Refused, RowsOfRefused, Accepted, Accepting, Verified, Handles
    <3> QED BY <3>1, <3>2, RequestKeepsType DEF TypeOK
  <2> QED BY <2>2, <2>3
<1> QED BY <1>2, <1>3, <1>4, <1>5, <1>6, <1>7, <1>8 DEF Next, Inbound, Core

\* Every variable keeps its type: a row is NoRow or what routing made of a payload, and a reply
\* carries one of the documented statuses.
THEOREM TypeCorrect == Spec => []TypeOK
  BY TypeInitial, TypeInductive, PTL DEF Spec

-----------------------------------------------------------------------------
(* The invariant.                                                          *)

\* ReplyInv, for one request handler.
Truthful(x) ==
    /\ x.kind = "core" \/ x.phase = "forwarding" => x.body \notin Posts
    /\ x.phase = "replying" /\ x.body \in Posts => Truth(x.body, x.status)

\* What no step does to the ledger: a row, once written, stays as it is.
RowsKept ==
    /\ UNCHANGED config
    /\ \A id \in Ids : row[id] # NoRow => row'[id] = row[id]

\* What was true of a payload stays true: rows stay, and routing is a function of the payload
\* and the configuration.
LEMMA TruthStays ==
  ASSUME RowsKept
  PROVE  /\ \A p \in Posts : RoutingError(p)' = RoutingError(p)
         /\ \A p \in Posts : \A status : Truth(p, status) => Truth(p, status)'
         /\ \A x : Truthful(x) => Truthful(x)'
<1>1. \A p \in Posts : RoutingError(p)' = RoutingError(p)
  BY DEF RowsKept, RoutingError, AgentId
<1>2. \A p \in Posts : \A status : Truth(p, status) => Truth(p, status)'
  BY <1>1 DEF RowsKept, Truth, Ids
<1> QED BY <1>1, <1>2 DEF Truthful

\* So what the ledger and the Proxy know stays true after a step that writes rows for accepted
\* payloads only; replies must be looked at.
LEMMA RowsAfter ==
  ASSUME IInv, RowsKept,
         UNCHANGED row \/ \E p \in Posts : ~RoutingError(p) /\ row' = [row EXCEPT ![p.id] = Routed(p)],
         \A r \in Requests : Truthful(req[r])'
  PROVE  RowInv' /\ ReplyInv' /\ (UNCHANGED heard => HeardInv')
<1>1. RowInv'
  <2> SUFFICES ASSUME NEW id \in Ids, row'[id] # NoRow
               PROVE  (row[id].post.id = id /\ ~RoutingError(row[id].post))'
    BY DEF RowInv, Ids
  <2>1. CASE row'[id] = row[id]
    <3>1. row[id] \in {NoRow} \cup {Routed(p) : p \in Posts}
      BY DEF IInv, TypeOK
    <3>2. row[id].post \in Posts
      BY <2>1, <3>1, OthersAreNoPosts
    <3> QED BY <2>1, <3>2, TruthStays DEF IInv, RowInv
  <2>2. CASE row'[id] # row[id]
    <3>1. PICK p \in Posts : ~RoutingError(p) /\ row' = [row EXCEPT ![p.id] = Routed(p)]
      BY <2>2
    <3>2. row'[id] = Routed(p) /\ p.id = id
      BY <2>2, <3>1 DEF IInv, TypeOK
    <3> QED BY <3>1, <3>2, OthersAreNoPosts, TruthStays
  <2> QED BY <2>1, <2>2
<1>2. ReplyInv'
  BY DEF ReplyInv, Truthful
<1>3. UNCHANGED heard => HeardInv'
  BY TruthStays DEF IInv, HeardInv
<1> QED BY <1>1, <1>2, <1>3

\* If it tells nothing new, the invariant holds.
LEMMA InvKept ==
  ASSUME IInv, TypeOK', RowsKept,
         UNCHANGED row \/ \E p \in Posts : ~RoutingError(p) /\ row' = [row EXCEPT ![p.id] = Routed(p)],
         \A r \in Requests : Truthful(req[r])',
         UNCHANGED <<heard, fresh>>
  PROVE  IInv'
<1>1. FreshInv'
  BY DEF IInv, FreshInv, RowsKept
<1> QED BY <1>1, RowsAfter DEF IInv

\* No reply is under way that was not already.
LEMMA SameOrIdle ==
  ASSUME IInv, RowsKept, \A r \in Requests : req'[r] = req[r] \/ req'[r] = Idle
  PROVE  \A r \in Requests : Truthful(req[r])'
<1> SUFFICES ASSUME NEW r \in Requests PROVE Truthful(req[r])'
  OBVIOUS
<1>1. CASE req'[r] = req[r]
  <2>1. Truthful(req[r])
    BY DEF IInv, ReplyInv, Truthful
  <2> QED BY <1>1, <2>1, TruthStays
<1>2. CASE req'[r] = Idle
  BY <1>2 DEF Truthful, Idle, None
<1> QED BY <1>1, <1>2

\* The process ends, stops or starts again: the ledger and what the Proxy knows stay.
LEMMA ProcessKeeps ==
  ASSUME IInv, TypeOK', Unhandled \/ Signal \/ Restart
  PROVE  IInv'
<1>1. RowsKept /\ UNCHANGED <<row, heard, fresh>>
  BY DEF RowsKept, Unhandled, ProcessEnds, Signal, Restart
<1>2. \A r \in Requests : req'[r] = req[r] \/ req'[r] = Idle
  BY DEF Unhandled, ProcessEnds, Signal, Restart
<1> QED BY <1>1, <1>2, SameOrIdle, InvKept

\* A step of one handler: the others stay truthful.
LEMMA OneRequest ==
  ASSUME IInv, RowsKept, NEW r \in Requests, Truthful(req[r])',
         \A q \in Requests \ {r} : req'[q] = req[q]
  PROVE  \A q \in Requests : Truthful(req[q])'
<1> SUFFICES ASSUME NEW q \in Requests, q # r PROVE Truthful(req[q])'
  OBVIOUS
<1>1. req'[q] = req[q] /\ Truthful(req[q])
  BY DEF IInv, ReplyInv, Truthful
<1> QED BY <1>1, TruthStays

\* What a handler that replies looks like.
LEMMA RepliedMeans ==
  ASSUME TypeOK, NEW r \in Requests, NEW status, req' = Replied(r, status)
  PROVE  /\ req'[r].phase = "replying" /\ req'[r].status = status
         /\ req'[r].body = req[r].body /\ req'[r].kind = req[r].kind
         /\ \A q \in Requests \ {r} : req'[q] = req[q]
<1>1. req \in [Requests -> Request] /\ req[r] \in Request
  BY DEF TypeOK, Request, Statuses
<1>2. req' = [req EXCEPT ![r] = [req[r] EXCEPT !.phase = "replying", !.status = status]]
  BY <1>1 DEF Replied
<1> QED BY <1>1, <1>2 DEF Request

\* The steps of a handler that judge nothing.
LEMMA HandlerKeeps ==
  ASSUME IInv, TypeOK', NEW r \in Requests,
         \/ OthersPost(r) \/ \E p \in Posts : Posted(r, p)
         \/ Unverified(r) \/ InvalidInbound(r) \/ CoreSend(r) \/ Forwarded(r)
  PROVE  IInv'
<1>1. RowsKept /\ UNCHANGED <<row, heard, fresh>>
  BY DEF RowsKept, OthersPost, Posted, Arrives, Unverified, InvalidInbound, Verified, CoreSend,
     Forwarded, Handles
<1>2. TypeOK /\ req \in [Requests -> Request] /\ req[r] \in Request /\ Truthful(req[r])
  BY DEF IInv, TypeOK, Request, Statuses, ReplyInv, Truthful
<1>3. Truthful(req[r])' /\ \A q \in Requests \ {r} : req'[q] = req[q]
  <2>1. CASE \E p \in Posts : Posted(r, p)
    BY <1>2, <2>1 DEF Posted, Arrives, Reading, Truthful
  <2>2. CASE OthersPost(r)
    BY <1>2, <2>2, OthersAreNoPosts DEF OthersPost, Arrives, Reading, Truthful
  <2>3. CASE Unverified(r)
    <3>1. req' = Replied(r, 401) /\ req[r].kind = "inbound"
      BY <2>3 DEF Unverified, Handles
    <3>2. /\ req'[r].phase = "replying" /\ req'[r].status = 401 /\ req'[r].kind = "inbound"
          /\ \A q \in Requests \ {r} : req'[q] = req[q]
      BY <1>2, <3>1, RepliedMeans
    <3> QED BY <3>2 DEF Truthful, Truth
  <2>4. CASE InvalidInbound(r)
    <3>1. req' = Replied(r, 400) /\ req[r].body = Junk
      BY <2>4 DEF InvalidInbound
    <3>2. req'[r].body = Junk /\ \A q \in Requests \ {r} : req'[q] = req[q]
      BY <1>2, <3>1, RepliedMeans
    <3> QED BY <3>2, OthersAreNoPosts DEF Truthful
  <2>5. CASE Forwarded(r) \/ CoreSend(r)
    <3>1. req'[r].body = req[r].body /\ \A q \in Requests \ {r} : req'[q] = req[q]
      <4>1. CASE req' = [req EXCEPT ![r].phase = "forwarding"]
        BY <1>2, <4>1 DEF Request
      <4>2. CASE \E status : req' = Replied(r, status)
        BY <1>2, <4>2, RepliedMeans
      <4> QED BY <2>5, <4>1, <4>2 DEF Forwarded, CoreSend
    <3>2. req[r].body \notin Posts
      BY <1>2, <2>5 DEF Forwarded, CoreSend, Handles, Truthful
    <3> QED BY <3>1, <3>2 DEF Truthful
  <2> QED BY <2>1, <2>2, <2>3, <2>4, <2>5
<1> QED BY <1>1, <1>3, OneRequest, InvKept

\* The verdict on a payload: the row is there, or routing refuses it, or the row is written.
LEMMA VerdictKeeps ==
  ASSUME IInv, TypeOK', NEW r \in Requests, NEW p \in Posts,
         Duplicate(r, p) \/ Refused(r, p) \/ Accepted(r, p)
  PROVE  IInv'
<1>1. /\ TypeOK /\ Truthful(req[r]) /\ UNCHANGED <<config, heard>> /\ p.id \in Ids
      /\ req[r].kind = "inbound" /\ req[r].body = p
  BY DEF IInv, ReplyInv, Truthful, Duplicate, Refused, Accepted, Accepting, Verified, Handles,
     ProcessEnds, Ids
<1>2. ASSUME NEW status, req' = Replied(r, status), RowsKept, Truth(p, status)'
      PROVE  \A q \in Requests : Truthful(req[q])'
  <2>1. /\ req'[r].phase = "replying" /\ req'[r].status = status
        /\ req'[r].body = p /\ req'[r].kind = "inbound"
        /\ \A q \in Requests \ {r} : req'[q] = req[q]
    BY <1>1, <1>2, RepliedMeans
  <2>2. Truthful(req[r])'
    BY <1>2, <2>1 DEF Truthful
  <2> QED BY <1>2, <2>1, <2>2, OneRequest
<1>3. CASE Duplicate(r, p)
  <2>1. /\ RowsKept /\ UNCHANGED <<row, fresh>> /\ row[p.id] # NoRow /\ req' = Replied(r, 200)
    BY <1>1, <1>3 DEF Duplicate, DuplicateStatus, Known, RowsKept
  <2>2. Truth(p, 200)'
    BY <2>1 DEF Truth
  <2> QED BY <1>1, <1>2, <2>1, <2>2, InvKept
<1>4. CASE Refused(r, p)
  <2>1. /\ RowsKept /\ UNCHANGED <<row, fresh>> /\ RoutingError(p) /\ req' = Replied(r, 400)
    BY <1>1, <1>4 DEF Refused, RowsOfRefused, RowsKept
  <2>2. Truth(p, 400)'
    BY <2>1, TruthStays DEF Truth
  <2> QED BY <1>1, <1>2, <2>1, <2>2, InvKept
<1>5. CASE Accepted(r, p)
  <2>1. /\ row[p.id] = NoRow /\ ~RoutingError(p)
        /\ row' = [row EXCEPT ![p.id] = Routed(p)]
    BY <1>5 DEF Accepted, Known
  <2>2. row'[p.id] = Routed(p) /\ row'[p.id] # NoRow /\ RowsKept
    BY <1>1, <2>1, OthersAreNoPosts DEF TypeOK, RowsKept
  <2>3. \A q \in Requests : Truthful(req[q])'
    <3>1. CASE ProcessEnds
      BY <2>2, <3>1, SameOrIdle DEF ProcessEnds
    <3>2. CASE req' = Replied(r, 202)
      <4>1. Truth(p, 202)'
        BY <2>2 DEF Truth
      <4> QED BY <1>2, <2>2, <3>2, <4>1
    <3> QED BY <1>5, <3>1, <3>2 DEF Accepted
  <2>4. CASE UNCHANGED fresh
    BY <1>1, <2>1, <2>2, <2>3, <2>4, InvKept
  <2>5. CASE fresh' = [fresh EXCEPT ![p.id] = @ + 1]
    <3>1. /\ \A id \in Ids : fresh[id] \in Nat /\ fresh[id] <= 1 /\ (fresh[id] > 0 => row[id] # NoRow)
          /\ fresh \in [Ids -> Nat]
      BY DEF IInv, FreshInv, TypeOK
    <3>2. FreshInv'
      <4> SUFFICES ASSUME NEW id \in Ids
                   PROVE  fresh'[id] <= 1 /\ (fresh'[id] > 0 => row'[id] # NoRow)
        BY DEF FreshInv, Ids
      <4>1. CASE id = p.id
        BY <2>1, <2>2, <2>5, <3>1, <4>1
      <4>2. CASE id # p.id
        BY <2>2, <2>5, <3>1, <4>2 DEF RowsKept
      <4> QED BY <4>1, <4>2
    <3>3. RowInv' /\ ReplyInv' /\ HeardInv'
      BY <1>1, <2>1, <2>2, <2>3, RowsAfter
    <3> QED BY <3>2, <3>3 DEF IInv
  <2> QED BY <1>5, <2>4, <2>5 DEF Accepted
<1> QED BY <1>3, <1>4, <1>5

\* A reply arrives or is lost: what arrives is what was said.
LEMMA ReplyKeeps ==
  ASSUME IInv, TypeOK', NEW r \in Requests, ReplyArrives(r) \/ ReplyLost(r)
  PROVE  IInv'
<1>1. RowsKept /\ UNCHANGED <<row, fresh>> /\ req[r].phase = "replying"
  BY DEF ReplyArrives, ReplyLost, RowsKept
<1>2. \A q \in Requests : req'[q] = req[q] \/ req'[q] = Idle
  BY DEF ReplyArrives, ReplyLost, IInv, TypeOK
<1>3. RowInv' /\ ReplyInv'
  BY <1>1, <1>2, SameOrIdle, RowsAfter
<1>4. FreshInv'
  BY <1>1 DEF IInv, FreshInv
<1>5. HeardInv'
  <2> SUFFICES ASSUME NEW p \in Posts, NEW status \in heard'[p] PROVE Truth(p, status)'
    BY DEF HeardInv
  <2>1. CASE status \in heard[p]
    BY <1>1, <2>1, TruthStays DEF IInv, HeardInv
  <2>2. CASE status \notin heard[p]
    <3>1. req[r].body = p /\ status = req[r].status
      BY <2>2 DEF ReplyArrives, ReplyLost, Arrived, IInv, TypeOK
    <3>2. Truth(p, status)
      BY <1>1, <3>1 DEF IInv, ReplyInv
    <3> QED BY <1>1, <3>2, TruthStays
  <2> QED BY <2>1, <2>2
<1> QED BY <1>3, <1>4, <1>5 DEF IInv

\* The initial states satisfy the invariant.
LEMMA InvInitial == Init => IInv
<1> SUFFICES ASSUME Init PROVE IInv
  OBVIOUS
<1>1. RowInv /\ HeardInv /\ FreshInv
  BY DEF Init, RowInv, HeardInv, FreshInv
<1>2. ReplyInv
  BY DEF Init, ReplyInv, Idle, None
<1> QED BY <1>1, <1>2, TypeInitial DEF IInv

\* Every step keeps it.
LEMMA InvInductive == IInv /\ [Next]_vars => IInv'
<1> SUFFICES ASSUME IInv, [Next]_vars PROVE IInv'
  OBVIOUS
<1>1. TypeOK'
  BY TypeInductive DEF IInv
<1>2. CASE UNCHANGED vars
  <2>1. RowsKept /\ UNCHANGED <<row, req, heard, fresh>>
    BY <1>2 DEF vars, RowsKept
  <2> QED BY <1>1, <2>1, SameOrIdle, InvKept
<1>3. CASE Signal \/ Exit \/ Crash \/ Restart
  BY <1>1, <1>3, ProcessKeeps DEF Exit, Crash
<1>4. ASSUME NEW r \in Requests, Probe(r) \/ LedgerClosed(r) \/ ForwardFails(r) \/ ClientAborts(r)
      PROVE  IInv'
  BY <1>1, <1>4, ProcessKeeps DEF Probe, LedgerClosed, ForwardFails, ClientAborts
<1> QED BY <1>1, <1>2, <1>3, <1>4, HandlerKeeps, VerdictKeeps, ReplyKeeps DEF Next, Inbound, Core

\* What the adapter has said of a payload, on its way or heard, is what the ledger holds.
THEOREM InvariantHolds == Spec => []IInv
  BY InvInitial, InvInductive, PTL DEF Spec

\* A message is reported as new at most once, over concurrent and repeated POSTs, lost replies
\* and restarts; and whatever the Proxy heard of as taken is on the ledger.
THEOREM NewOnce == Spec => []AcceptedOnce
<1>1. IInv => AcceptedOnce
  BY DEF IInv, FreshInv, HeardInv, Truth, AcceptedOnce
<1> QED BY <1>1, InvariantHolds, PTL

\* A payload the Proxy was told is refused is in no row: a repetition with the same messageId
\* and another payload may be taken, this one never was.
THEOREM RefusalLeavesNoRow == Spec => []RefusedNotRecorded
<1>1. ASSUME IInv, NEW p \in Posts, 400 \in heard[p] PROVE row[p.id].post # p
  <2>1. RoutingError(p) /\ p.id \in Ids
    BY <1>1 DEF IInv, HeardInv, Truth, Ids
  <2>2. CASE row[p.id] = NoRow
    BY <2>2, OthersAreNoPosts DEF NoRow
  <2>3. CASE row[p.id] # NoRow
    BY <1>1, <2>1, <2>3 DEF IInv, RowInv
  <2> QED BY <2>2, <2>3
<1>2. IInv => RefusedNotRecorded
  BY <1>1 DEF RefusedNotRecorded
<1> QED BY <1>2, InvariantHolds, PTL

\* Two messages in one session go to one agent, and without sharing they come from one user,
\* whatever the normalization makes of agent ids.
THEOREM SessionsStayApart == Spec => []SessionsApart
<1>1. ASSUME IInv, NEW i \in Ids, NEW j \in Ids, row[i] # NoRow, row[j] # NoRow, row[i].key = row[j].key
      PROVE  /\ row[i].agent = row[j].agent
             /\ row[i].post.user = row[j].post.user \/ Shared(row[i].post) \/ Shared(row[j].post)
  <2>1. PICK p \in Posts : row[i] = Routed(p)
    BY <1>1 DEF IInv, TypeOK
  <2>2. PICK q \in Posts : row[j] = Routed(q)
    BY <1>1 DEF IInv, TypeOK
  <2>3. /\ row[i].post = p /\ row[i].agent = AgentId(p) /\ row[i].key = SessionKey(p)
        /\ row[j].post = q /\ row[j].agent = AgentId(q) /\ row[j].key = SessionKey(q)
    BY <2>1, <2>2 DEF Routed
  <2>4. ~RoutingError(p) /\ ~RoutingError(q)
    BY <1>1, <2>3 DEF IInv, RowInv
  <2>5. SessionKey(p) = SessionKey(q) /\ AgentId(p) = SessionKey(p).agent /\ AgentId(q) = SessionKey(q).agent
    BY <1>1, <2>3, <2>4, KeyNamesAgent
  <2>6. p.user = q.user \/ Shared(p) \/ Shared(q)
    BY <2>5, KeyNamesUser
  <2> QED BY <2>3, <2>5, <2>6
<1>2. IInv => SessionsApart
  BY <1>1 DEF SessionsApart
<1> QED BY <1>2, InvariantHolds, PTL
=============================================================================
