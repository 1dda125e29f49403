-------------------------------- MODULE Pipe --------------------------------
(***************************************************************************)
(* What a proxied flow promises its two peers, whatever lies in between:   *)
(* in each direction a peer is given the chunks of the other in order and  *)
(* without a gap, the direction ends once, nothing comes after its end,    *)
(* and it ends "complete" only when everything sent has been handed over   *)
(* and no more will be.  The proxy may cut a direction short at any time.  *)
(* Relay implements it.                                                    *)
(***************************************************************************)
EXTENDS Naturals, Sequences

CONSTANT Sides

VARIABLES
    sent,    \* chunks a peer has put on its connection
    recvd,   \* the chunks handed to a peer, by their numbers
    status   \* of the direction towards a peer: "open", "complete" or "cut"

pipeVars == <<sent, recvd, status>>

\* The first chunk of a peer may have come with the request.
Init ==
    /\ sent \in [Sides -> {0, 1}]
    /\ recvd = [s \in Sides |-> <<>>]
    /\ status = [s \in Sides |-> "open"]

\* Peer s sends towards peer r, which has not been told that all was sent.
Send(s, r) ==
    /\ status[r] # "complete"
    /\ sent' = [sent EXCEPT ![s] = @ + 1]
    /\ UNCHANGED <<recvd, status>>

\* The next chunk of s is handed to r.
Deliver(s, r) ==
    /\ status[r] = "open" /\ Len(recvd[r]) < sent[s]
    /\ recvd' = [recvd EXCEPT ![r] = Append(@, Len(@) + 1)]
    /\ UNCHANGED <<sent, status>>

\* The direction from s to r ends after its last chunk ...
Complete(s, r) ==
    /\ status[r] = "open" /\ Len(recvd[r]) = sent[s]
    /\ status' = [status EXCEPT ![r] = "complete"]
    /\ UNCHANGED <<sent, recvd>>

\* ... or is cut short: a peer reset, a deadline, a refused or failed dial.
Cut(r) ==
    /\ status[r] = "open"
    /\ status' = [status EXCEPT ![r] = "cut"]
    /\ UNCHANGED <<sent, recvd>>

Next == \E s \in Sides : \E r \in Sides \ {s} :
            Send(s, r) \/ Deliver(s, r) \/ Complete(s, r) \/ Cut(r)

Spec == Init /\ [][Next]_pipeVars
=============================================================================
