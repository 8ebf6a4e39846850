-------------------------- MODULE MessageChannel --------------------------
(***************************************************************************)
(* What the framing of a session promises: the messages that the peer      *)
(* sends are received one by one, whole and in the order in which they     *)
(* were sent.  A message may have something after it that was not sent     *)
(* (clean is FALSE); when that may happen is said by the implementation.   *)
(***************************************************************************)
EXTENDS Naturals, Sequences

CONSTANTS
    Messages,
    MaxSent   \* bound: the messages of a session

VARIABLES sent, received

vars == <<sent, received>>

Init == sent = <<>> /\ received = <<>>

Send(m) ==
    /\ Len(sent) < MaxSent
    /\ sent' = Append(sent, m)
    /\ UNCHANGED received

Receive(clean) ==
    /\ Len(received) < Len(sent)
    /\ received' = Append(received,
                          [msg |-> sent[Len(received) + 1], clean |-> clean])
    /\ UNCHANGED sent

Next ==
    \/ \E m \in Messages : Send(m)
    \/ \E clean \in BOOLEAN : Receive(clean)

(* What was sent is received, whatever else is sent.                       *)
Spec ==
    /\ Init /\ [][Next]_vars
    /\ WF_vars(\E clean \in BOOLEAN : Receive(clean))
=============================================================================
