---------------------------- MODULE AdapterServer ----------------------------
(***************************************************************************)
(* server.ts and what it calls before a message belongs to the service:    *)
(* the signature check (auth.ts), the schemas, resolveRouting (routing.ts) *)
(* and the dedupe check and insert of acceptInbound; core-send with        *)
(* sendCoreOutbound (outbound-client.ts); the probes; and how the process  *)
(* ends, by a signal or because a handler rejects and nobody catches it.   *)
(*                                                                         *)
(* A step is the code between two awaits of one request handler.  On the   *)
(* other side stands a Proxy that repeats a POST until it hears a verdict. *)
(***************************************************************************)
EXTENDS Naturals, Sequences

CONSTANTS
    Requests,     \* bound: the HTTP requests in flight at one time
    Posts,        \* the inbound payloads the Proxy may send: a set of Post records
    Names,        \* Knox user ids, local parts of addresses, and agent ids
    NormalAgent,  \* normalizeAgentId, as a function on Names
    Configs,      \* the deployments considered: a set of Config records
    MaxMishaps    \* bound: how often something ends the process or loses a reply

None    == "none"
NoKey   == [agent |-> None, scope |-> <<>>]
Keys    == [agent : Names, scope : Seq(Names \cup {"main", "knox", "dm", "room"})] \cup {NoKey}

\* What knoxInboundSchema lets through, as far as routing and the ledger look at it.  The key
\* "agent:<agent>:<scope>" is split at its second colon: no agent id contains one.
Post == [id    : STRING,
         user  : Names,                        \* sender.knoxUserId
         email : Names \cup {None},            \* local part of sender.employeeEmail
         agent : Names \cup {None},            \* agentId
         key   : Keys,                         \* sessionKey
         mode  : {"shared_main", "isolated_dm", None}]

Config == [hmac        : BOOLEAN,   \* REQUIRE_PROXY_HMAC
           secret      : BOOLEAN,   \* PROXY_SHARED_SECRET is set
           outboundUrl : BOOLEAN,   \* PROXY_OUTBOUND_URL is set
           mode        : {"shared_main", "isolated_dm"}]

ASSUME ServerAssumption ==
    /\ None \notin Names
    /\ NormalAgent \in [Names -> Names]
    /\ \A n \in Names : NormalAgent[NormalAgent[n]] = NormalAgent[n]
    /\ Posts \subseteq Post
    /\ Configs \subseteq Config /\ MaxMishaps \in Nat

VARIABLES
    config,   \* the deployment's configuration
    mode,     \* "up"; "stopping": shutdown() ran, the ledger is closed; "down"
    row,      \* row[id]: the message's row in the ledger, NoRow if there is none
    req,      \* req[r]: where the handler of request r is
    heard,    \* heard[p]: the verdicts the Proxy has seen on p
    fresh,    \* fresh[id]: how many replies have told of a new message (history)
    mishaps

vars == <<config, mode, row, req, heard, fresh, mishaps>>

Ids     == {p.id : p \in Posts}
\* Bodies that are no inbound payload: what no schema lets through, and a core-send.
Other(what) == [id |-> what, user |-> None, email |-> None, agent |-> None, key |-> NoKey,
                mode |-> None]
Junk    == Other("junk")
Message == Other("message")
Bodies  == Posts \cup {Junk, Message}

Idle          == [phase |-> "idle", kind |-> None, body |-> Junk, status |-> 0]
Reading(k, b) == [phase |-> "reading", kind |-> k, body |-> b, status |-> 0]
\* sendJson: the reply is on its way.
Replied(r, status) == [req EXCEPT ![r].phase = "replying", ![r].status = status]
NoRow         == [post |-> Junk, agent |-> None, key |-> NoKey]

Init ==
    /\ config \in Configs
    /\ mode = "up"
    /\ row = [id \in Ids |-> NoRow]
    /\ req = [r \in Requests |-> Idle]
    /\ heard = [p \in Posts |-> {}]
    /\ fresh = [id \in Ids |-> 0]
    /\ mishaps = 0

Mishap == mishaps < MaxMishaps /\ mishaps' = mishaps + 1

-----------------------------------------------------------------------------
(* resolveRouting.                                                         *)

AgentId(p) ==
    NormalAgent[IF p.agent # None THEN p.agent
                ELSE IF p.email # None THEN p.email ELSE p.user]

SessionMode(p) == IF p.mode # None THEN p.mode ELSE config.mode

\* An explicit key needs an explicit agent, must name it in its normal form, and needs a scope.
RoutingError(p) ==
    /\ p.key # NoKey
    /\ p.agent = None \/ p.key.agent # AgentId(p) \/ p.key.scope = <<>>

\* Mutant: the scope is built from the agent, which several users may share.
DirectByAgent(p) == <<"knox", "dm", AgentId(p)>>
DirectMessage(p) == <<"knox", "dm", p.user>>

SessionKey(p) ==
    IF p.key # NoKey THEN p.key
    ELSE [agent |-> AgentId(p),
          scope |-> IF SessionMode(p) = "shared_main" THEN <<"main">> ELSE DirectMessage(p)]

Routed(p) == [post |-> p, agent |-> AgentId(p), key |-> SessionKey(p)]

-----------------------------------------------------------------------------
(* The process.                                                            *)

\* Memory and connections are gone, and with them the replies that were on their way.
ProcessEnds ==
    /\ mode' = "down"
    /\ req' = [r \in Requests |-> Idle]
    /\ UNCHANGED <<config, heard>>

\* An exception nobody catches, in a handler or in the signal handler, ends the process.
Unhandled == ProcessEnds /\ UNCHANGED <<row, fresh>>

\* SIGTERM or SIGINT: shutdown() closes the ledger and stops listening.  At the second signal
\* close() of the closed ledger throws.
Signal ==
    /\ Mishap
    /\ \/ /\ mode = "up" /\ mode' = "stopping"
          /\ UNCHANGED <<config, row, req, heard, fresh>>
       \/ mode = "stopping" /\ Unhandled

\* The callback of server.close: no request is in flight, and the connections that were kept
\* alive have timed out.
Exit ==
    /\ mode = "stopping" /\ \A r \in Requests : req[r] = Idle
    /\ Unhandled /\ UNCHANGED mishaps

Crash == mode # "down" /\ Mishap /\ Unhandled

Restart ==
    /\ mode = "down" /\ mode' = "up"
    /\ UNCHANGED <<config, row, req, heard, fresh, mishaps>>

-----------------------------------------------------------------------------
(* The requests.                                                           *)

\* A handler starts.  After shutdown() no connection is accepted, but requests can still come
\* on those kept alive; nobody is bound to have one.
Arrives(r, request) ==
    /\ mode # "down" /\ req[r] = Idle
    /\ req' = [req EXCEPT ![r] = request]
    /\ UNCHANGED <<config, mode, row, heard, fresh, mishaps>>

\* The Proxy posts p, for the first time or once more: external.
Posted(r, p) == Arrives(r, Reading("inbound", p))

\* Others post what no schema accepts, and the agent's core sends messages of its own.
OthersPost(r) ==
    \/ Arrives(r, Reading("inbound", Junk))
    \/ \E body \in {Junk, Message} : Arrives(r, Reading("core", body))

\* What /readyz answers while the ledger is open.
Ready == config.outboundUrl /\ (config.hmac => config.secret)

\* /healthz and /readyz ask the ledger, which throws once it is closed.  While it is open they
\* change nothing, as little as an unknown endpoint or a core-send without its token.
Probe(r) ==
    /\ mode = "stopping" /\ req[r] = Idle
    /\ Unhandled /\ UNCHANGED mishaps

Handles(r, kind) ==
    /\ req[r].phase = "reading" /\ req[r].kind = kind
    /\ UNCHANGED config

\* verifyProxyRequest: without a secret nothing passes; a valid signature may be too old, or
\* too new, when it is checked, and junk is not signed.
Unverified(r) ==
    /\ Handles(r, "inbound") /\ config.hmac
    /\ \/ (~config.secret \/ req[r].body = Junk) /\ UNCHANGED mishaps
       \/ config.secret /\ req[r].body # Junk /\ Mishap
    /\ req' = Replied(r, 401)
    /\ UNCHANGED <<mode, row, heard, fresh>>

Verified(r) == Handles(r, "inbound") /\ (config.hmac => config.secret)

InvalidInbound(r) ==
    /\ Verified(r) /\ req[r].body = Junk
    /\ req' = Replied(r, 400)
    /\ UNCHANGED <<mode, row, heard, fresh, mishaps>>

\* acceptInbound with a closed ledger: the error is no RoutingError, and the handler rejects.
LedgerClosed(r) ==
    /\ Verified(r) /\ req[r].body # Junk
    /\ mode = "stopping"
    /\ Unhandled /\ UNCHANGED mishaps

Accepting(r, p) == Verified(r) /\ req[r].body = p /\ mode = "up"

\* Mutant: the row is inserted or replaced, without looking for it first.
Upserted(p) == FALSE
Known(p) == row[p.id] # NoRow

\* Mutant: a duplicate is reported as a conflict.
Conflict == 409
DuplicateStatus == 200

\* Mutant: the connection is closed without a reply.
DuplicateIgnored(r, p) ==
    /\ Accepting(r, p) /\ Known(p)
    /\ req' = [req EXCEPT ![r] = Idle]
    /\ UNCHANGED <<mode, row, heard, fresh, mishaps>>
Duplicate(r, p) ==
    /\ Accepting(r, p) /\ Known(p)
    /\ req' = Replied(r, DuplicateStatus)
    /\ UNCHANGED <<mode, row, heard, fresh, mishaps>>

\* Mutant: the row is written before the routing is resolved.
RecordedAtOnce(p) == [row EXCEPT ![p.id] = Routed(p)]
RowsOfRefused(p)  == row

Refused(r, p) ==
    /\ Accepting(r, p) /\ ~Known(p) /\ RoutingError(p)
    /\ row' = RowsOfRefused(p)
    /\ req' = Replied(r, 400)
    /\ UNCHANGED <<mode, heard, fresh, mishaps>>

\* The row is written, the message is queued, the reply is 202: no await in between.  A crash
\* may come between the row and the reply.
Accepted(r, p) ==
    /\ Accepting(r, p) /\ ~Known(p) /\ ~RoutingError(p)
    /\ row' = [row EXCEPT ![p.id] = Routed(p)]
    /\ \/ /\ req' = Replied(r, 202)
          /\ fresh' = [fresh EXCEPT ![p.id] = @ + 1]
          /\ UNCHANGED <<mode, heard, mishaps>>
       \/ Mishap /\ ProcessEnds /\ UNCHANGED fresh

\* core-send: an invalid body, or nowhere to send to, or on to the Proxy.
CoreSend(r) ==
    /\ Handles(r, "core")
    /\ req' = IF req[r].body = Junk THEN Replied(r, 400)
              ELSE IF ~config.outboundUrl THEN Replied(r, 202)
              ELSE [req EXCEPT ![r].phase = "forwarding"]
    /\ UNCHANGED <<mode, row, heard, fresh, mishaps>>

Forwarded(r) ==
    /\ req[r].phase = "forwarding"
    /\ req' = Replied(r, 202)
    /\ UNCHANGED <<config, mode, row, heard, fresh, mishaps>>

\* The Proxy does not answer 2xx, or not in time: sendCoreOutbound throws out of the handler.
ForwardFails(r) == req[r].phase = "forwarding" /\ Mishap /\ Unhandled

\* The client goes away while its body is read: readRawBody throws out of the handler.
ClientAborts(r) == req[r].phase = "reading" /\ Mishap /\ Unhandled

\* The statuses that judge the payload, not the signature.
Verdicts == {200, 202, 400}

Arrived(r) ==
    heard' = IF req[r].body \in Posts /\ req[r].status \in Verdicts
             THEN [heard EXCEPT ![req[r].body] = @ \cup {req[r].status}] ELSE heard

ReplyArrives(r) ==
    /\ req[r].phase = "replying"
    /\ Arrived(r)
    /\ req' = [req EXCEPT ![r] = Idle]
    /\ UNCHANGED <<config, mode, row, fresh, mishaps>>

ReplyLost(r) ==
    /\ req[r].phase = "replying" /\ Mishap
    /\ req' = [req EXCEPT ![r] = Idle]
    /\ UNCHANGED <<config, mode, row, heard, fresh>>

-----------------------------------------------------------------------------
Inbound(r) ==
    \/ Unverified(r) \/ InvalidInbound(r) \/ LedgerClosed(r)
    \/ \E p \in Posts : Duplicate(r, p) \/ Refused(r, p) \/ Accepted(r, p)

Core(r) == CoreSend(r) \/ Forwarded(r) \/ ForwardFails(r)

Next ==
    \/ \E r \in Requests, p \in Posts : Posted(r, p)
    \/ \E r \in Requests : \/ OthersPost(r) \/ Probe(r) \/ Inbound(r) \/ Core(r)
                           \/ ClientAborts(r) \/ ReplyArrives(r) \/ ReplyLost(r)
    \/ Signal \/ Exit \/ Crash \/ Restart

Spec == Init /\ [][Next]_vars

\* Handlers go on, replies arrive, a process that is down is started again, and one that is
\* stopping and left alone exits.  While the adapter is up, the Proxy repeats a POST that has
\* not been judged; Requests is a bound of the model, not of the server, so that competition
\* for a request must not keep the Proxy away: hence SF.
Fairness ==
    /\ \A r \in Requests : WF_vars(Inbound(r)) /\ WF_vars(Core(r)) /\ WF_vars(ReplyArrives(r))
    /\ \A p \in Posts :
           SF_vars(mode = "up" /\ heard[p] = {} /\ \E r \in Requests : Posted(r, p))
    /\ WF_vars(Exit) /\ WF_vars(Restart)

FairSpec == Spec /\ Fairness

-----------------------------------------------------------------------------
(* Properties.                                                             *)

\* Every variable keeps its type; replies carry the statuses KNOX_PROXY_API.ko.md lists.
TypeOK ==
    /\ config \in Configs /\ mode \in {"up", "stopping", "down"}
    /\ row \in [Ids -> {NoRow} \cup {Routed(p) : p \in Posts}]
    /\ req \in [Requests -> [phase  : {"idle", "reading", "forwarding", "replying"},
                             kind   : {None, "inbound", "core"},
                             body   : Bodies,
                             status : {0, 200, 202, 400, 401}]]
    /\ heard \in [Posts -> SUBSET Verdicts]
    /\ fresh \in [Ids -> Nat] /\ mishaps \in 0..MaxMishaps

\* A message is reported as new at most once, over concurrent and repeated POSTs, lost replies
\* and restarts; and whatever the Proxy heard of as taken is on the ledger.
AcceptedOnce ==
    /\ \A id \in Ids : fresh[id] <= 1
    /\ \A p \in Posts : heard[p] \cap {200, 202} # {} => row[p.id] # NoRow

\* A payload the Proxy was told is refused has left nothing in the ledger: its row, if there
\* is one, came with another payload of the same messageId.
RefusedNotRecorded ==
    \A p \in Posts : 400 \in heard[p] => row[p.id].post # p

Shared(p) == p.key # NoKey \/ SessionMode(p) = "shared_main"

\* Messages that meet in a session go to one agent; and they come from one Knox user, even if
\* several users have the same agent, unless the Proxy or the deployment asked to share it.
SessionsApart ==
    \A i, j \in Ids :
        row[i] # NoRow /\ row[j] # NoRow /\ row[i].key = row[j].key =>
            /\ row[i].agent = row[j].agent
            /\ \/ row[i].post.user = row[j].post.user
               \/ Shared(row[i].post) \/ Shared(row[j].post)

\* Requests on connections kept alive do not hold a process in its shutdown for ever: from
\* some time on, one that is stopping is left alone.  server.close() sets no limit to that.
LeftToStop == <>[](mode = "stopping" => \A r \in Requests : req[r] = Idle)

\* An adapter that calls itself ready judges every payload in the end, although any request,
\* an agent's message or a probe may end the process under the others, and although it hears
\* nothing of the Proxy while it is stopping.
EveryPostJudged ==
    Ready /\ LeftToStop => \A p \in Posts : <>(heard[p] # {})

\* What ADAPTER_PLAN.ko.md:17 and :784 ask for, and the code does not do: a request whose
\* handler rejects, or that comes during a shutdown, leaves the other requests alone.
FailureStaysLocal ==
    [][\A r \in Requests :
          ForwardFails(r) \/ ClientAborts(r) \/ LedgerClosed(r) \/ Probe(r) =>
              \A q \in Requests \ {r} : req'[q] = req[q]]_vars

-----------------------------------------------------------------------------
(* The inductive invariant behind the safety properties.                   *)

\* A row was written for a payload of its messageId that routing accepts.
RowInv ==
    \A id \in Ids : row[id] # NoRow => row[id].post.id = id /\ ~RoutingError(row[id].post)

\* The verdict on a payload tells what the ledger holds, from the moment it is written.
Truth(p, status) ==
    /\ status \in {200, 202} => row[p.id] # NoRow
    /\ status = 400 => RoutingError(p)

\* It still does while the reply is on its way; only inbound requests carry payloads.
ReplyInv ==
    \A r \in Requests :
        /\ req[r].kind = "core" \/ req[r].phase = "forwarding" => req[r].body \notin Posts
        /\ req[r].phase = "replying" /\ req[r].body \in Posts => Truth(req[r].body, req[r].status)

\* And it does for ever after.
HeardInv == \A p \in Posts : \A status \in heard[p] : Truth(p, status)

\* A message that was reported as new is on the ledger, and is not new again.
FreshInv == \A id \in Ids : fresh[id] <= 1 /\ (fresh[id] > 0 => row[id] # NoRow)

IInv == TypeOK /\ RowInv /\ ReplyInv /\ HeardInv /\ FreshInv
=============================================================================
