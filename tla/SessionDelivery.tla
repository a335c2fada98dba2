-------------------------- MODULE SessionDelivery --------------------------
(***************************************************************************)
(* What the adapter promises to the Knox Proxy, without saying how.  Every *)
(* accepted message joins the line of its session; the line is answered    *)
(* from its head, one message at a time, and a message is answered at most *)
(* once.  While the adapter is up no message is dropped.  When it stops,   *)
(* messages are lost for good: it keeps no line on disk, so whole lines    *)
(* are emptied, and a message recorded in that very moment is struck       *)
(* before it joins its line.                                               *)
(***************************************************************************)
EXTENDS Sequences

CONSTANTS Messages, Sessions, SessionOf

VARIABLES
    line,     \* line[s]: the unanswered messages of session s, oldest first
    outcome,  \* outcome[m]: how far m has come
    open      \* whether the adapter is up

vars == <<line, outcome, open>>

Outcomes == {"new", "pending", "answered", "lost"}

TypeOK ==
    /\ line \in [Sessions -> Seq(Messages)]
    /\ outcome \in [Messages -> Outcomes]
    /\ open \in BOOLEAN

Init ==
    /\ line = [s \in Sessions |-> <<>>]
    /\ outcome = [m \in Messages |-> "new"]
    /\ open = TRUE

Accept(m) ==
    /\ open /\ UNCHANGED open
    /\ outcome[m] = "new"
    /\ line' = [line EXCEPT ![SessionOf[m]] = Append(@, m)]
    /\ outcome' = [outcome EXCEPT ![m] = "pending"]

Answer(m) ==
    /\ open /\ UNCHANGED open
    /\ outcome[m] = "pending"
    /\ line[SessionOf[m]] # <<>>
    /\ m = Head(line[SessionOf[m]])
    /\ line' = [line EXCEPT ![SessionOf[m]] = Tail(@)]
    /\ outcome' = [outcome EXCEPT ![m] = "answered"]

\* The adapter stops, or is stopping: the lines of the sessions in dropped disappear, and so
\* do the messages of struck, which were recorded but never stood in a line.
Lose(dropped, struck) ==
    /\ open' = FALSE
    /\ \A m \in struck : outcome[m] = "new"
    /\ line' = [s \in Sessions |-> IF s \in dropped THEN <<>> ELSE line[s]]
    /\ outcome' = [m \in Messages |->
                     IF \/ m \in struck
                        \/ outcome[m] = "pending" /\ SessionOf[m] \in dropped
                     THEN "lost" ELSE outcome[m]]

\* The adapter starts again, with nothing in line.
Reopen ==
    /\ ~open /\ open' = TRUE
    /\ \A s \in Sessions : line[s] = <<>>
    /\ UNCHANGED <<line, outcome>>

Next ==
    \/ \E m \in Messages : Accept(m) \/ Answer(m)
    \/ \E dropped \in SUBSET Sessions, struck \in SUBSET Messages : Lose(dropped, struck)
    \/ Reopen

Spec == Init /\ [][Next]_vars
=============================================================================
