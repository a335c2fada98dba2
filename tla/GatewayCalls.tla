---------------------------- MODULE GatewayCalls ----------------------------
(***************************************************************************)
(* What PlatformClawGatewayClient promises to process(), without saying    *)
(* how: a call of sendChat is under way until the gateway has accepted it, *)
(* then waitForTerminal waits for the run to end.  These are the guards    *)
(* that AdapterService puts on SendChatAccepted, ChatEvent and HttpReply.  *)
(* A step may settle several calls at once: the client flushes all its     *)
(* pending requests when a socket closes.                                  *)
(***************************************************************************)
CONSTANT Calls

VARIABLES
    stage,   \* stage[c]: what process() awaits
    run,     \* run[c]: what the gateway has made of the request under way
    result   \* result[c]: how the call ended

vars == <<stage, run, result>>

Stages  == {"idle", "sending", "waiting"}
Runs    == {"none", "refused", "started", "ended"}
Results == {"none", "final", "error", "timeout", "failed"}

Init ==
    /\ stage = [c \in Calls |-> "idle"]
    /\ run = [c \in Calls |-> "none"]
    /\ result = [c \in Calls |-> "none"]

Begins(c) ==
    /\ stage[c] = "idle" /\ result[c] = "none" /\ stage'[c] = "sending"
    /\ run'[c] = "none" /\ result'[c] = "none"

\* sendChat throws at once: the call is over before it is under way.
BeginsInVain(c) ==
    /\ stage[c] = "idle" /\ result[c] = "none" /\ stage'[c] = "idle"
    /\ run'[c] = "none" /\ result'[c] = "failed"

\* process() goes on with the result.
Taken(c) ==
    /\ stage[c] = "idle" /\ stage'[c] = "idle"
    /\ run'[c] = "none" /\ result'[c] = "none"

\* The gateway refuses the request, or starts and ends its run, while the call is under way.
GatewayActs(c) ==
    /\ stage[c] # "idle" /\ stage'[c] = stage[c] /\ result'[c] = result[c]
    /\ <<run[c], run'[c]>> \in {<<"none", "refused">>, <<"none", "started">>,
                                <<"started", "ended">>, <<"refused", "none">>}

\* sendChat resolves: the run exists.
Accepted(c) ==
    /\ stage[c] = "sending" /\ stage'[c] = "waiting"
    /\ run[c] \in {"started", "ended"} /\ run'[c] = run[c]
    /\ result'[c] = result[c]

\* The terminal is handed over.  Only an ended run gives the agent's text or its error; the
\* client itself answers "timeout", and "error" to those who wait when it is closed.
Settled(c) ==
    /\ stage[c] # "idle" /\ stage'[c] = "idle" /\ run'[c] = "none"
    /\ \/ result'[c] = "final" /\ run[c] = "ended"
       \/ result'[c] = "error" /\ stage[c] = "waiting"
       \/ result'[c] = "timeout"
       \/ result'[c] = "failed" /\ stage[c] = "sending"     \* sendChat throws

Same(c) == stage'[c] = stage[c] /\ run'[c] = run[c] /\ result'[c] = result[c]

Next == \A c \in Calls : \/ Begins(c) \/ BeginsInVain(c) \/ GatewayActs(c)
                         \/ Accepted(c) \/ Settled(c) \/ Taken(c) \/ Same(c)

Spec == Init /\ [][Next]_vars
=============================================================================
