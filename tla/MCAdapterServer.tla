--------------------------- MODULE MCAdapterServer ---------------------------
(***************************************************************************)
(* The instance of AdapterServer that TLC checks: who writes, and how the  *)
(* adapter is deployed.                                                    *)
(***************************************************************************)
EXTENDS AdapterServer

\* Two Knox users whose ids have the same normal form.
People == {"kim.lee", "kim_lee"}
Underscored == [n \in People |-> "kim_lee"]

FromKim == [id |-> "m1", user |-> "kim.lee", email |-> None, agent |-> None, key |-> NoKey,
            mode |-> None]
\* The other user's message; and the first again, with a key that does not fit its agent.
Sent == {FromKim,
         [FromKim EXCEPT !.id = "m2", !.user = "kim_lee"],
         [FromKim EXCEPT !.agent = "kim.lee", !.key = [agent |-> "kim.lee", scope |-> <<"room">>]]}

Isolated == [hmac |-> TRUE, secret |-> TRUE, outboundUrl |-> TRUE, mode |-> "isolated_dm"]
Deployments == {Isolated,
                [Isolated EXCEPT !.secret = FALSE],
                [Isolated EXCEPT !.hmac = FALSE, !.outboundUrl = FALSE, !.mode = "shared_main"]}
=============================================================================
