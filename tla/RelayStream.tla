----------------------------- MODULE RelayStream -----------------------------
(***************************************************************************)
(* What proxyBidirectional promises to the two peers it relays between, as *)
(* they see it from outside:                                               *)
(*                                                                         *)
(*   - each is given what the other sent, nothing twice and nothing that   *)
(*     was not sent, and nothing more once a chunk was lost;               *)
(*   - each is told the end only after the other has ended and everything  *)
(*     that it sent was given;                                             *)
(*   - two healthy peers are cut off only after one direction is over, or  *)
(*     by an idle timeout if there is one;                                 *)
(*   - a relay is over only when both directions are.                      *)
(*                                                                         *)
(* A direction has the name of the peer that sends in it.                  *)
(***************************************************************************)
EXTENDS Naturals

CONSTANTS Relay, Dir

VARIABLES
    stream,     \* the directions of each relay
    severed,    \* Relay -> the relay has closed both of its connections
    watched     \* there is an idle timeout

vars == <<stream, severed, watched>>

Phase == {"none", "open", "ended", "cut"}
NoStream == [phase |-> "none", sent |-> 0, given |-> 0, peer |-> "open"]
NewStream == [phase |-> "open", sent |-> 0, given |-> 0, peer |-> "open"]

Init ==
    /\ stream = [c \in Relay |-> [d \in Dir |-> NoStream]]
    /\ severed = [c \in Relay |-> FALSE]
    /\ watched \in BOOLEAN

Over(c, d) == stream[c][d].phase \in {"ended", "cut"}

Start(c) ==
    /\ stream[c] = [d \in Dir |-> NoStream]
    /\ stream' = [stream EXCEPT ![c] = [d \in Dir |-> NewStream]]
    /\ UNCHANGED <<severed, watched>>

Finish(c) ==
    /\ \A d \in Dir : Over(c, d)
    /\ stream' = [stream EXCEPT ![c] = [d \in Dir |-> NoStream]]
    /\ severed' = [severed EXCEPT ![c] = FALSE]
    /\ UNCHANGED watched

Sever(c) ==
    /\ stream[c] # [d \in Dir |-> NoStream]
    /\ watched \/ \E d \in Dir : Over(c, d)
    /\ severed' = [severed EXCEPT ![c] = TRUE]
    /\ UNCHANGED <<stream, watched>>

Send(c, d) ==
    /\ stream[c][d].phase # "none"
    /\ stream[c][d].peer = "open"
    /\ stream' = [stream EXCEPT ![c][d].sent = @ + 1]

\* The peer says that it will not send any more, or goes away.
Leave(c, d) ==
    /\ stream[c][d].phase # "none"
    /\ \/ stream[c][d].peer = "open" /\ stream' = [stream EXCEPT ![c][d].peer = "shut"]
       \/ stream[c][d].peer # "broken" /\ stream' = [stream EXCEPT ![c][d].peer = "broken"]

Give(c, d) ==
    /\ stream[c][d].phase = "open"
    /\ stream[c][d].given < stream[c][d].sent
    /\ stream' = [stream EXCEPT ![c][d].given = @ + 1]

End(c, d) ==
    /\ stream[c][d].phase = "open"
    /\ stream[c][d].peer # "open"
    /\ stream[c][d].given = stream[c][d].sent
    /\ stream' = [stream EXCEPT ![c][d].phase = "ended"]

Cut(c, d) ==
    /\ stream[c][d].phase = "open"
    /\ severed[c] \/ \E e \in Dir : stream[c][e].peer = "broken"
    /\ stream' = [stream EXCEPT ![c][d].phase = "cut"]

Next ==
    \/ \E c \in Relay : Start(c) \/ Finish(c) \/ Sever(c)
    \/ \E c \in Relay, d \in Dir :
         /\ Send(c, d) \/ Leave(c, d) \/ Give(c, d) \/ End(c, d) \/ Cut(c, d)
         /\ UNCHANGED <<severed, watched>>

Spec == Init /\ [][Next]_vars

=============================================================================
