-------------------------- MODULE MCAdapterService --------------------------
(***************************************************************************)
(* The instances of AdapterService that TLC checks: who sends to which     *)
(* session, and which deployments are considered.                          *)
(***************************************************************************)
EXTENDS AdapterService, TLC

\* All messages go to one session: sessions share nothing in the service but the store.
OneSession == [m \in Messages |-> CHOOSE s \in Sessions : TRUE]

\* The deployment the documents describe: retry once, final answers only, Proxy configured.
FinalOnly == [maxRetry |-> 1, transports |-> {"websocket"}, stageUpdates |-> FALSE,
              requireActivation |-> FALSE, outboundUrl |-> TRUE]

PlainConfigs == {FinalOnly}
GatedConfigs == {[FinalOnly EXCEPT !.requireActivation = TRUE, !.maxRetry = 0]}
\* One deployment per way to differ from it: stage updates over either transport, the activation
\* gate in front of the retries, and retries that change the transport, without a Proxy URL.
VariedConfigs == {[FinalOnly EXCEPT !.transports = {t}, !.stageUpdates = TRUE, !.maxRetry = 0] :
                     t \in Transports} \cup
                 {[FinalOnly EXCEPT !.requireActivation = TRUE],
                  [FinalOnly EXCEPT !.transports = Transports, !.outboundUrl = FALSE]}
\* For liveness: every await of process(), with and without a Proxy to answer to.
LiveConfigs == {[FinalOnly EXCEPT !.requireActivation = TRUE, !.outboundUrl = FALSE],
                [FinalOnly EXCEPT !.transports = {"http-responses"}, !.maxRetry = 0]}

Interchangeable == Permutations(Messages)
=============================================================================
