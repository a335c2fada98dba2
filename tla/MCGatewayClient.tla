--------------------------- MODULE MCGatewayClient ---------------------------
(***************************************************************************)
(* The instances of GatewayClient that TLC checks: which deployments are   *)
(* considered.                                                             *)
(***************************************************************************)
EXTENDS GatewayClient

\* Everything over the websocket.
WebSocketOnly == [transport |-> "websocket", preferHttp |-> FALSE, secret |-> TRUE,
                  stageUpdates |-> FALSE]

PlainConfigs == {WebSocketOnly}
\* The ways to the POST: as a fallback, after waiting for the stage channel; as the first
\* choice; and without a secret to authenticate it.
Auto == [WebSocketOnly EXCEPT !.transport = "auto"]
MixedConfigs == {[Auto EXCEPT !.stageUpdates = TRUE],
                 [Auto EXCEPT !.preferHttp = TRUE],
                 [WebSocketOnly EXCEPT !.transport = "http-responses", !.secret = FALSE]}
\* For recovery: a connection is needed, and the POST that waits for the stage channel.
StagedConfigs == {WebSocketOnly, [Auto EXCEPT !.stageUpdates = TRUE]}
=============================================================================
