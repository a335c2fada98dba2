---------------------------- MODULE GatewayBlame ----------------------------
(***************************************************************************)
(* GatewayClient with a history of who has suffered a mishap: what the     *)
(* documents promise about failed calls, and the code does not keep.       *)
(***************************************************************************)
EXTENDS MCGatewayClient

VARIABLE hurt   \* the calls under way that have lived through a mishap

BlameInit == Init /\ hurt = {}

BlameNext ==
    /\ Next
    /\ hurt' = {c \in Calls : call'[c].phase # "idle" /\ (c \in hurt \/ mishaps' > mishaps)}

BlameSpec == BlameInit /\ [][BlameNext]_<<vars, hurt>>

\* "A momentary failure of the gateway loses nothing at once", "one retry" (ADAPTER_PLAN.ko.md,
\* 17.2 and 10.3.1): a call fails only if something goes wrong while it is under way, so that
\* the retry after a mishap succeeds if the gateway is well again.
FailsOnlyWithCause ==
    [][\A c \in Calls : FailsNow(c) => c \in hurt \/ mishaps' > mishaps]_<<vars, hurt>>
=============================================================================
