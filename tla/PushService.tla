----------------------------- MODULE PushService -----------------------------
(***************************************************************************)
(* What the WebSocket manager of server/ws/ws.go promises to a browser,    *)
(* without queues, goroutines or connections.  Messages are numbered.  A   *)
(* client is pushed every message from the one after it joined, in order   *)
(* and without a gap, until it leaves; what it had not seen by then may    *)
(* still come, in order, or be given up.                                   *)
(***************************************************************************)
EXTENDS Naturals

CONSTANTS Clients

VARIABLES
    sent,    \* number of messages pushed
    seen,    \* the last message a client has seen
    upto,    \* the last message a client is to see
    member   \* absent, joined, gone

vars == <<sent, seen, upto, member>>

Joined == {c \in Clients : member[c] = "joined"}

Init ==
    /\ sent = 0
    /\ seen = [c \in Clients |-> 0]
    /\ upto = [c \in Clients |-> 0]
    /\ member = [c \in Clients |-> "absent"]

Join(c) ==
    /\ member[c] = "absent"
    /\ member' = [member EXCEPT ![c] = "joined"]
    /\ seen' = [seen EXCEPT ![c] = sent]
    /\ upto' = [upto EXCEPT ![c] = sent]
    /\ UNCHANGED sent

(* A message goes to all who have joined, except to those it drops.         *)
Push ==
    \E dropped \in SUBSET Joined :
        /\ sent' = sent + 1
        /\ member' = [c \in Clients |-> IF c \in dropped THEN "gone" ELSE member[c]]
        /\ \A c \in Clients \ dropped :
              upto'[c] = IF c \in Joined THEN sent + 1 ELSE upto[c]
        /\ \A c \in dropped : upto'[c] \in seen[c]..upto[c]
        /\ DOMAIN upto' = Clients
        /\ UNCHANGED seen

Deliver(c) ==
    /\ seen[c] < upto[c]
    /\ seen' = [seen EXCEPT ![c] = @ + 1]
    /\ UNCHANGED <<sent, upto, member>>

Leave(c) ==
    /\ c \in Joined
    /\ member' = [member EXCEPT ![c] = "gone"]
    /\ \E last \in seen[c]..upto[c] : upto' = [upto EXCEPT ![c] = last]
    /\ UNCHANGED <<sent, seen>>

GiveUp(c) ==
    /\ member[c] = "gone"
    /\ upto' = [upto EXCEPT ![c] = seen[c]]
    /\ UNCHANGED <<sent, seen, member>>

Next == Push \/ \E c \in Clients : Join(c) \/ Deliver(c) \/ Leave(c) \/ GiveUp(c)

(* A client that is behind sees the next message, or is let go.             *)
Fairness ==
    \A c \in Clients :
        WF_vars(c \in Joined /\ seen[c] < sent /\ (Deliver(c) \/ Leave(c)))

Spec == Init /\ [][Next]_vars /\ Fairness

==============================================================================
