--------------------------- MODULE WsManagerProofs ---------------------------
(***************************************************************************)
(* Proofs about WsManager for any number of browsers, feeds and streams,   *)
(* any size of the queues and any number of messages: WsInv is inductive,  *)
(* no closed queue is used, one candle stream runs, requests for streams   *)
(* do not cross, and every step of the manager is one of PushService.      *)
(***************************************************************************)
EXTENDS WsManager, SequenceTheorems, TLAPS

ConnStates   == {"none", "open", "closed"}
WriterStates == {"off", "loop", "writing", "drain", "ended"}
ReaderStates == {"off", "read", "subscribe", "dial", "ended"}
StreamStates == {"free", "live", "dead", "stopped"}

ClientTypeOK ==
    /\ clients \subseteq Clients /\ closed \subseteq Clients
    /\ send \in [Clients -> Seq(Nat)]
    /\ conn \in [Clients -> ConnStates]
    /\ writer \in [Clients -> WriterStates]
    /\ hand \in [Clients -> Nat]
    /\ sent \in Nat /\ seen \in [Clients -> Nat]

StreamTypeOK ==
    /\ reader \in [Clients -> ReaderStates]
    /\ want \in [Clients -> Feeds \cup {Nobody}]
    /\ owner \in Clients \cup {Nobody, "server"}
    /\ active \in Feeds \cup {Nobody}
    /\ stopC \in Streams \cup {Nobody}
    /\ stream \in [Streams -> [state : StreamStates, feed : Feeds \cup {Nobody}]]

(* A client that has not come yet has no goroutine and no queue.            *)
NotYetThere ==
    \A c \in Clients : conn[c] = "none" =>
        /\ c \notin clients \cup closed
        /\ writer[c] = "off" /\ send[c] = <<>> /\ seen[c] = 0

(* What a browser has seen with the message that is on its way to it.       *)
Reached(c) == IF writer[c] = "writing" THEN seen[c] + 1 ELSE seen[c]

(* The queue of a client goes on, without a gap, where its browser is, and  *)
(* it goes as far as the messages that were sent while it is registered.    *)
QueueGoesOn ==
    \A c \in Clients :
        /\ seen[c] <= sent
        /\ writer[c] = "writing" => hand[c] = seen[c] + 1
        /\ writer[c] \in {"loop", "writing"} =>
              /\ \A k \in 1..Len(send[c]) : send[c][k] = Reached(c) + k
              /\ Reached(c) + Len(send[c]) <= sent
              /\ c \in clients => Reached(c) + Len(send[c]) = sent

(* The numbers after b up to last, in a queue.                              *)
RunsUpTo(q, b, last) ==
    (\A k \in 1..Len(q) : q[k] = b + k) /\ b + Len(q) = last

ClientInv == ClientTypeOK /\ RegisteredIsServed /\ NotYetThere /\ QueueGoesOn

(* Whoever dials holds streamMu, has asked for the active feed and finds no *)
(* stream to stop.                                                          *)
DialHoldsLock ==
    \A c \in Clients :
        /\ reader[c] = "dial" <=> owner = c
        /\ reader[c] \in {"subscribe", "dial"} => want[c] \in Feeds
        /\ reader[c] = "dial" => active = want[c] /\ stopC = Nobody

(* The stream that can be stopped is the only one that may be live, and it  *)
(* carries the active feed.                                                 *)
StreamIsActive ==
    /\ stopC # Nobody => stream[stopC].feed = active
    /\ \A s \in Streams : stream[s].state = "dead" => s = stopC

StreamInv == StreamTypeOK /\ OneCandleStream /\ DialHoldsLock /\ StreamIsActive

(* There is no reader before its client has come.                           *)
ReaderWaits == \A c \in Clients : conn[c] = "none" => reader[c] = "off"

WsInv == ClientInv /\ StreamInv /\ ReaderWaits

-----------------------------------------------------------------------------
(* The initial states.                                                      *)

LEMMA InitInv == Init => WsInv
<1> SUFFICES ASSUME Init PROVE WsInv
  OBVIOUS
<1>1. ClientTypeOK
  BY DEF Init, ClientTypeOK, ConnStates, WriterStates
<1>2. StreamTypeOK
  BY DEF Init, StreamTypeOK, ReaderStates, StreamStates
<1>3. RegisteredIsServed /\ NotYetThere /\ QueueGoesOn
  BY DEF Init, RegisteredIsServed, NotYetThere, QueueGoesOn
<1>4. OneCandleStream /\ DialHoldsLock /\ StreamIsActive
  BY WsAssumption DEF Init, OneCandleStream, DialHoldsLock, StreamIsActive
<1>5. ReaderWaits
  BY DEF Init, ReaderWaits
<1> QED BY <1>1, <1>2, <1>3, <1>4, <1>5 DEF WsInv, ClientInv, StreamInv

-----------------------------------------------------------------------------
(* The steps of clients, their writers and the broadcasts.                  *)

LEMMA AddClientKeeps ==
  ASSUME ClientInv, NEW c \in Clients, AddClient(c)
  PROVE  ClientInv'
<1> USE DEF ClientInv, AddClient
<1>1. ClientTypeOK'
  BY DEF ClientTypeOK, ConnStates, WriterStates
<1>2. RegisteredIsServed'
  BY DEF RegisteredIsServed, NotYetThere, ClientTypeOK
<1>3. NotYetThere'
  BY DEF NotYetThere, ClientTypeOK
<1>4. QueueGoesOn'
  <2>1. /\ send'[c] = <<>> /\ writer'[c] = "loop" /\ seen'[c] = sent /\ sent' = sent
        /\ sent \in Nat /\ Reached(c)' = sent
    BY DEF NotYetThere, Reached, ClientTypeOK
  <2>2. \A d \in Clients \ {c} :
           /\ writer'[d] = writer[d] /\ seen'[d] = seen[d] /\ (d \in clients' <=> d \in clients)
           /\ Reached(d)' = Reached(d)
    BY DEF Reached, ClientTypeOK
  <2>3. Len(send'[c]) = 0 /\ 1..0 = {}
    BY <2>1
  <2> QED BY <2>1, <2>2, <2>3 DEF QueueGoesOn
<1> QED BY <1>1, <1>2, <1>3, <1>4

(* The next number, at the end of a queue.                                  *)
LEMMA AppendRuns ==
  ASSUME NEW q \in Seq(Nat), NEW b \in Nat, NEW last \in Nat, RunsUpTo(q, b, last)
  PROVE  RunsUpTo(Append(q, last + 1), b, last + 1)
<1>1. Len(Append(q, last + 1)) = Len(q) + 1 /\ Len(q) \in Nat /\ b + Len(q) = last
  BY DEF RunsUpTo
<1>2. ASSUME NEW k \in 1..(Len(q) + 1) PROVE Append(q, last + 1)[k] = b + k
  <2>1. CASE k = Len(q) + 1
    BY <1>1, <2>1
  <2>2. CASE k # Len(q) + 1
    <3>1. k \in 1..Len(q) /\ Append(q, last + 1)[k] = q[k]
      BY <1>1, <2>2
    <3> QED BY <3>1 DEF RunsUpTo
  <2> QED BY <2>1, <2>2
<1> QED BY <1>1, <1>2 DEF RunsUpTo

LEMMA BroadcastKeeps ==
  ASSUME ClientInv, Broadcast
  PROVE  ClientInv'
<1> USE DEF ClientInv, Broadcast, RemoveLocked
<1>1. sent \in Nat /\ sent' = sent + 1 /\ Full \subseteq clients /\ clients' = clients \ Full
  BY DEF ClientTypeOK, Full
<1>2. ClientTypeOK'
  <2>1. \A c \in Clients : send'[c] \in Seq(Nat)
    BY <1>1 DEF ClientTypeOK
  <2> QED BY <1>1, <2>1 DEF ClientTypeOK
<1>3. RegisteredIsServed'
  BY <1>1 DEF RegisteredIsServed
<1>4. NotYetThere'
  BY <1>1 DEF NotYetThere, ClientTypeOK
<1>5. QueueGoesOn'
  <2> SUFFICES ASSUME NEW c \in Clients
               PROVE  /\ seen'[c] <= sent'
                      /\ writer'[c] = "writing" => hand'[c] = seen'[c] + 1
                      /\ writer'[c] \in {"loop", "writing"} =>
                            /\ \A k \in 1..Len(send'[c]) : send'[c][k] = Reached(c)' + k
                            /\ Reached(c)' + Len(send'[c]) <= sent'
                            /\ c \in clients' => Reached(c)' + Len(send'[c]) = sent'
    BY DEF QueueGoesOn
  <2>1. seen[c] \in Nat /\ send[c] \in Seq(Nat) /\ Reached(c)' = Reached(c) /\ Reached(c) \in Nat
    BY DEF ClientTypeOK, Reached
  <2>2. CASE c \in clients \ Full
    <3>1. send'[c] = Append(send[c], sent + 1) /\ sent' = sent + 1 /\ sent \in Nat
      BY <1>1, <2>2
    <3>2. /\ seen[c] <= sent
          /\ writer[c] = "writing" => hand[c] = seen[c] + 1
          /\ writer[c] \in {"loop", "writing"} => RunsUpTo(send[c], Reached(c), sent)
      BY <2>2 DEF QueueGoesOn, Full, RunsUpTo
    <3>3. seen'[c] = seen[c] /\ writer'[c] = writer[c] /\ hand'[c] = hand[c]
      OBVIOUS
    <3>4. writer[c] \in {"loop", "writing"} => RunsUpTo(send'[c], Reached(c), sent + 1)
      BY ONLY <2>1, <3>1, <3>2, AppendRuns
    <3>5. seen'[c] <= sent'
      BY ONLY <2>1, <3>1, <3>2, <3>3
    <3> QED BY ONLY <2>1, <3>1, <3>2, <3>3, <3>4, <3>5 DEF RunsUpTo
  <2>3. CASE c \notin clients \ Full
    <3>1. send'[c] = send[c] /\ c \notin clients'
      BY <1>1, <2>3
    <3> QED BY <1>1, <2>1, <3>1 DEF QueueGoesOn
  <2> QED BY <2>2, <2>3
<1> QED BY <1>2, <1>3, <1>4, <1>5

(* Taking the first message off a queue.                                    *)
LEMMA TailOfQueue ==
  ASSUME NEW q \in Seq(Nat), q # <<>>
  PROVE  /\ Head(q) = q[1] /\ Head(q) \in Nat /\ Tail(q) \in Seq(Nat)
         /\ Len(q) \in Nat \ {0} /\ Len(Tail(q)) = Len(q) - 1
         /\ \A k \in 1..Len(Tail(q)) : Tail(q)[k] = q[k + 1]
  OBVIOUS

LEMMA WriterTakesKeeps ==
  ASSUME ClientInv, NEW c \in Clients, WriterTakes(c)
  PROVE  ClientInv'
<1> USE DEF ClientInv, WriterTakes
<1>1. /\ send[c] \in Seq(Nat) /\ send[c] # <<>> /\ seen[c] \in Nat
      /\ send'[c] = Tail(send[c]) /\ hand'[c] = send[c][1]
      /\ writer[c] = "loop" /\ writer'[c] = "writing" /\ seen' = seen
  BY TailOfQueue DEF ClientTypeOK
<1>2. ClientTypeOK'
  BY <1>1, TailOfQueue DEF ClientTypeOK, WriterStates
<1>3. RegisteredIsServed' /\ NotYetThere'
  BY <1>1 DEF RegisteredIsServed, NotYetThere, ClientTypeOK
<1>4. QueueGoesOn'
  <2>1. \A d \in Clients \ {c} :
           /\ send'[d] = send[d] /\ hand'[d] = hand[d] /\ writer'[d] = writer[d]
           /\ Reached(d)' = Reached(d)
    BY DEF ClientTypeOK, Reached
  <2>2. Reached(c) = seen[c] /\ Reached(c)' = seen[c] + 1
    BY <1>1 DEF Reached
  <2>3. /\ Len(send'[c]) = Len(send[c]) - 1 /\ Len(send[c]) \in Nat \ {0}
        /\ \A k \in 1..Len(send'[c]) : send'[c][k] = send[c][k + 1]
    BY <1>1, TailOfQueue
  <2>4. /\ \A k \in 1..Len(send[c]) : send[c][k] = seen[c] + k
        /\ seen[c] + Len(send[c]) <= sent
        /\ c \in clients => seen[c] + Len(send[c]) = sent
    BY <1>1, <2>2 DEF QueueGoesOn
  <2>5. ASSUME NEW k \in 1..Len(send'[c]) PROVE send'[c][k] = Reached(c)' + k
    <3>1. k \in Nat /\ k + 1 \in 1..Len(send[c]) /\ send'[c][k] = send[c][k + 1]
      BY ONLY <2>3, <2>5
    <3>2. send[c][k + 1] = seen[c] + (k + 1)
      BY ONLY <2>4, <3>1
    <3> QED BY ONLY <1>1, <2>2, <3>1, <3>2
  <2>6. hand'[c] = seen[c] + 1
    <3>1. 1 \in 1..Len(send[c])
      BY ONLY <2>3
    <3> QED BY ONLY <1>1, <2>4, <3>1
  <2>7. Reached(c)' + Len(send'[c]) = seen[c] + Len(send[c])
    BY ONLY <1>1, <2>2, <2>3
  <2> QED BY <1>1, <2>1, <2>4, <2>5, <2>6, <2>7 DEF QueueGoesOn
<1> QED BY <1>2, <1>3, <1>4

LEMMA WriterWritesKeeps ==
  ASSUME ClientInv, NEW c \in Clients, WriterWrites(c)
  PROVE  ClientInv'
<1> USE DEF ClientInv, WriterWrites
<1>1. ClientTypeOK'
  BY DEF ClientTypeOK, WriterStates
<1>2. RegisteredIsServed' /\ NotYetThere'
  BY DEF RegisteredIsServed, NotYetThere, ClientTypeOK
<1>3. seen[c] \in Nat /\ Len(send[c]) \in Nat /\ sent \in Nat
  BY DEF ClientTypeOK
<1>4. QueueGoesOn'
  <2>1. seen'[c] = seen[c] + 1 /\ Reached(c) = seen[c] + 1 /\ Reached(c)' = seen[c] + 1
    BY DEF QueueGoesOn, Reached, ClientTypeOK
  <2>2. \A d \in Clients \ {c} :
           hand'[d] = hand[d] /\ writer'[d] = writer[d] /\ seen'[d] = seen[d]
             /\ Reached(d)' = Reached(d)
    BY DEF ClientTypeOK, Reached
  <2>3. writer[c] = "writing" /\ writer'[c] = "loop" /\ send' = send
    BY DEF ClientTypeOK
  <2> QED BY <1>3, <2>1, <2>2, <2>3 DEF QueueGoesOn
<1> QED BY <1>1, <1>2, <1>4

(* A step that ends a writer's work for its browser and leaves messages     *)
(* where they are needs nothing of the numbers.                             *)
LEMMA WriterFailsKeeps ==
  ASSUME ClientInv, NEW c \in Clients, WriterFails(c)
  PROVE  ClientInv'
<1> USE DEF ClientInv, WriterFails, AfterFailure
<1>1. ClientTypeOK'
  BY DEF ClientTypeOK, WriterStates, ConnStates
<1>2. RegisteredIsServed' /\ NotYetThere'
  BY DEF RegisteredIsServed, NotYetThere, ClientTypeOK
<1>3. QueueGoesOn'
  BY DEF QueueGoesOn, Reached, ClientTypeOK
<1> QED BY <1>1, <1>2, <1>3

LEMMA WriterDrainsKeeps ==
  ASSUME ClientInv, NEW c \in Clients, WriterDrains(c)
  PROVE  ClientInv'
<1> USE DEF ClientInv, WriterDrains
<1>1. ClientTypeOK'
  BY TailOfQueue DEF ClientTypeOK
<1>2. RegisteredIsServed' /\ NotYetThere'
  BY DEF RegisteredIsServed, NotYetThere, ClientTypeOK
<1>3. QueueGoesOn'
  <2>1. \A d \in Clients \ {c} : send'[d] = send[d]
    BY DEF ClientTypeOK
  <2> QED BY <2>1 DEF QueueGoesOn, Reached
<1> QED BY <1>1, <1>2, <1>3

LEMMA WriterEndsKeeps ==
  ASSUME ClientInv, NEW c \in Clients, WriterEnds(c)
  PROVE  ClientInv'
<1> USE DEF ClientInv, WriterEnds, ConnAtEnd
<1>1. ClientTypeOK'
  BY DEF ClientTypeOK, WriterStates, ConnStates
<1>2. RegisteredIsServed' /\ NotYetThere'
  BY DEF RegisteredIsServed, NotYetThere, ClientTypeOK
<1>3. QueueGoesOn'
  BY DEF QueueGoesOn, Reached, ClientTypeOK
<1> QED BY <1>1, <1>2, <1>3

LEMMA ReadFailsKeeps ==
  ASSUME ClientInv, NEW c \in Clients, ReadFails(c)
  PROVE  ClientInv'
<1> USE DEF ClientInv, ReadFails, RemoveLocked
<1>1. ClientTypeOK'
  BY DEF ClientTypeOK
<1>2. RegisteredIsServed' /\ NotYetThere'
  BY DEF RegisteredIsServed, NotYetThere, ClientTypeOK
<1>3. QueueGoesOn'
  BY DEF QueueGoesOn, Reached
<1> QED BY <1>1, <1>2, <1>3

LEMMA ClientsUnchanged ==
  ASSUME ClientInv, UNCHANGED <<clientVars, sent>>
  PROVE  ClientInv'
  BY DEF ClientInv, ClientTypeOK, RegisteredIsServed, NotYetThere, QueueGoesOn, Reached,
         clientVars

-----------------------------------------------------------------------------
(* The steps of the requests for streams.                                   *)

LEMMA StreamsUnchanged ==
  ASSUME StreamInv, UNCHANGED <<reader, want, streamVars>>
  PROVE  StreamInv'
  BY DEF StreamInv, StreamTypeOK, OneCandleStream, DialHoldsLock, StreamIsActive, streamVars

(* A reader that goes to or from a place other than the dial.               *)
LEMMA ReaderMoves ==
  ASSUME StreamInv, NEW c \in Clients, UNCHANGED streamVars,
         reader[c] # "dial",
         NEW r \in {"read", "subscribe", "ended"}, reader' = [reader EXCEPT ![c] = r],
         NEW w \in Feeds \cup {Nobody}, want' = [want EXCEPT ![c] = w],
         r = "subscribe" => w \in Feeds
  PROVE  StreamInv'
<1>1. StreamTypeOK'
  BY DEF StreamInv, StreamTypeOK, ReaderStates, streamVars
<1>2. OneCandleStream' /\ StreamIsActive'
  BY DEF StreamInv, OneCandleStream, StreamIsActive, streamVars
<1>3. DialHoldsLock'
  BY DEF StreamInv, StreamTypeOK, DialHoldsLock, streamVars
<1> QED BY <1>1, <1>2, <1>3 DEF StreamInv

LEMMA SwitchStreamKeeps ==
  ASSUME StreamInv, NEW c \in Clients, SwitchStream(c)
  PROVE  StreamInv'
<1> USE DEF StreamInv, SwitchStream, StopCAfterClose
<1>1. want[c] \in Feeds /\ owner = Nobody
  BY DEF DialHoldsLock
<1>2. \A s \in Streams :
         /\ stream'[s] \in [state : StreamStates, feed : Feeds \cup {Nobody}]
         /\ stream'[s].state \notin {"live", "dead"}
  BY DEF OldStopped, StreamTypeOK, StreamStates, OneCandleStream, StreamIsActive
<1>3. StreamTypeOK'
  <2>1. stream' = [s \in Streams |-> stream'[s]]
    BY DEF OldStopped
  <2>2. stream' \in [Streams -> [state : StreamStates, feed : Feeds \cup {Nobody}]]
    BY <1>2, <2>1
  <2> QED BY <1>1, <2>2 DEF StreamTypeOK, ReaderStates
<1>4. OneCandleStream' /\ StreamIsActive'
  BY <1>2 DEF OneCandleStream, StreamIsActive
<1>5. DialHoldsLock'
  BY <1>1, WsAssumption DEF DialHoldsLock, StreamTypeOK
<1> QED BY <1>3, <1>4, <1>5

LEMMA DialSucceedsKeeps ==
  ASSUME StreamInv, NEW c \in Clients, DialSucceeds(c)
  PROVE  StreamInv'
<1> USE DEF StreamInv
<1>1. PICK s \in Streams :
         /\ stream[s].state = "free"
         /\ stream' = [stream EXCEPT ![s] = [state |-> "live", feed |-> want[c]]]
         /\ stopC' = s
  BY DEF DialSucceeds
<1>2. /\ reader[c] = "dial" /\ owner' = Nobody /\ active' = active
      /\ reader' = [reader EXCEPT ![c] = "read"] /\ want' = [want EXCEPT ![c] = Nobody]
  BY DEF DialSucceeds, Return
<1>3. want[c] \in Feeds /\ active = want[c] /\ stopC = Nobody /\ owner = c
  BY <1>2 DEF DialHoldsLock
<1>4. StreamTypeOK'
  BY <1>1, <1>2, <1>3 DEF StreamTypeOK, ReaderStates, StreamStates
<1>5. OneCandleStream' /\ StreamIsActive'
  BY <1>1, <1>2, <1>3, WsAssumption DEF OneCandleStream, StreamIsActive, StreamTypeOK
<1>6. DialHoldsLock'
  BY <1>2, <1>3, WsAssumption DEF DialHoldsLock, StreamTypeOK
<1> QED BY <1>4, <1>5, <1>6

LEMMA DialFailsKeeps ==
  ASSUME StreamInv, NEW c \in Clients, DialFails(c)
  PROVE  StreamInv'
<1> USE DEF StreamInv, DialFails, Return
<1>1. StreamTypeOK'
  BY DEF StreamTypeOK, ReaderStates
<1>2. OneCandleStream' /\ StreamIsActive'
  BY DEF OneCandleStream, StreamIsActive
<1>3. DialHoldsLock'
  BY WsAssumption DEF DialHoldsLock, StreamTypeOK
<1> QED BY <1>1, <1>2, <1>3

LEMMA TickerKeeps ==
  ASSUME StreamInv, TickerLocks \/ TickerDialled
  PROVE  StreamInv'
<1> USE DEF StreamInv, TickerLocks, TickerDialled, readerVars
<1>1. StreamTypeOK'
  BY DEF StreamTypeOK
<1>2. OneCandleStream' /\ StreamIsActive'
  BY DEF OneCandleStream, StreamIsActive
<1>3. DialHoldsLock'
  BY WsAssumption DEF DialHoldsLock
<1> QED BY <1>1, <1>2, <1>3

LEMMA StreamEndKeeps ==
  ASSUME StreamInv, NEW s \in Streams, StreamEnds(s) \/ StoppedStreamEnds(s)
  PROVE  StreamInv'
<1> USE DEF StreamInv, StreamEnds, StoppedStreamEnds, readerVars
<1>1. StreamTypeOK'
  BY DEF StreamTypeOK, StreamStates
<1>2. OneCandleStream' /\ StreamIsActive'
  BY DEF OneCandleStream, StreamIsActive, StreamTypeOK
<1>3. DialHoldsLock'
  BY DEF DialHoldsLock
<1> QED BY <1>1, <1>2, <1>3

-----------------------------------------------------------------------------
(* WsInv is inductive.                                                      *)

LEMMA ReaderWaitsKept == WsInv /\ [Next]_vars => ReaderWaits'
<1> SUFFICES ASSUME WsInv, [Next]_vars, NEW c \in Clients, conn'[c] = "none"
             PROVE  reader'[c] = "off"
  BY DEF ReaderWaits
<1> USE DEF WsInv, ClientInv, StreamInv
<1>1. /\ conn \in [Clients -> ConnStates] /\ reader \in [Clients -> ReaderStates]
      /\ \A d \in Clients : conn[d] = "none" => reader[d] = "off" /\ writer[d] = "off"
  BY DEF ClientTypeOK, StreamTypeOK, ReaderWaits, NotYetThere
<1>2. CASE UNCHANGED <<conn, reader>>
  BY <1>1, <1>2
<1>3. ASSUME NEW d \in Clients, AddClient(d) PROVE reader'[c] = "off"
  BY <1>1, <1>3 DEF AddClient
<1>4. ASSUME NEW d \in Clients, Writer(d) PROVE reader'[c] = "off"
  BY <1>1, <1>4 DEF Writer, WriterTakes, WriterWrites, WriterFails, WriterDrains, WriterEnds,
                    ConnAtEnd, readerVars
<1>5. ASSUME NEW d \in Clients,
             \/ ReadFails(d) \/ AlreadySubscribed(d) \/ SwitchStream(d) \/ Dialled(d)
             \/ \E f \in Feeds : ReadSubscribe(d, f)
      PROVE  reader'[c] = "off"
  BY <1>1, <1>5 DEF ReadFails, AlreadySubscribed, SwitchStream, Dialled, DialSucceeds, DialFails,
                    ReadSubscribe, Return, clientVars
<1>6. CASE \/ NotifierBroadcasts \/ StreamBroadcasts \/ TickerLocks \/ TickerDialled
           \/ \E s \in Streams : StreamEnds(s) \/ StoppedStreamEnds(s)
  BY <1>2, <1>6 DEF NotifierBroadcasts, StreamBroadcasts, Broadcast, TickerLocks, TickerDialled,
                    StreamEnds, StoppedStreamEnds, clientVars, readerVars
<1> QED BY <1>2, <1>3, <1>4, <1>5, <1>6 DEF Next, Locks, vars, clientVars, readerVars

LEMMA NextInv == WsInv /\ [Next]_vars => WsInv'
<1> SUFFICES ASSUME WsInv, [Next]_vars PROVE ClientInv' /\ StreamInv'
  BY ReaderWaitsKept DEF WsInv
<1> USE DEF WsInv
<1>1. CASE UNCHANGED vars
  BY <1>1, ClientsUnchanged, StreamsUnchanged DEF vars, clientVars, readerVars
<1>2. CASE NotifierBroadcasts \/ StreamBroadcasts
  BY <1>2, BroadcastKeeps, StreamsUnchanged
     DEF NotifierBroadcasts, StreamBroadcasts, Broadcast, readerVars
<1>3. CASE TickerLocks \/ TickerDialled
  BY <1>3, ClientsUnchanged, TickerKeeps DEF TickerLocks, TickerDialled
<1>4. ASSUME NEW s \in Streams, StreamEnds(s) \/ StoppedStreamEnds(s)
      PROVE  ClientInv' /\ StreamInv'
  BY <1>4, ClientsUnchanged, StreamEndKeeps DEF StreamEnds, StoppedStreamEnds
<1>5. ASSUME NEW c \in Clients, AddClient(c)
      PROVE  ClientInv' /\ StreamInv'
  <2>1. reader[c] # "dial" /\ want[c] \in Feeds \cup {Nobody} /\ want' = [want EXCEPT ![c] = want[c]]
    BY <1>5 DEF AddClient, ReaderWaits, StreamInv, StreamTypeOK
  <2>2. StreamInv'
    BY <1>5, <2>1, ReaderMoves DEF AddClient
  <2> QED BY <1>5, <2>2, AddClientKeeps
<1>6. ASSUME NEW c \in Clients, Writer(c)
      PROVE  ClientInv' /\ StreamInv'
  BY <1>6, WriterTakesKeeps, WriterWritesKeeps, WriterFailsKeeps, WriterDrainsKeeps,
     WriterEndsKeeps, StreamsUnchanged
     DEF Writer, WriterTakes, WriterWrites, WriterFails, WriterDrains, WriterEnds, readerVars
<1>7. ASSUME NEW c \in Clients, ReadFails(c)
      PROVE  ClientInv' /\ StreamInv'
  <2>1. want[c] \in Feeds \cup {Nobody} /\ want' = [want EXCEPT ![c] = want[c]]
    BY <1>7 DEF StreamInv, StreamTypeOK, ReadFails
  <2>2. StreamInv'
    BY <1>7, <2>1, ReaderMoves DEF ReadFails
  <2> QED BY <1>7, <2>2, ReadFailsKeeps
<1>8. ASSUME NEW c \in Clients, NEW f \in Feeds, ReadSubscribe(c, f)
      PROVE  ClientInv' /\ StreamInv'
  BY <1>8, ClientsUnchanged, ReaderMoves DEF ReadSubscribe
<1>9. ASSUME NEW c \in Clients, AlreadySubscribed(c)
      PROVE  ClientInv' /\ StreamInv'
  BY <1>9, ClientsUnchanged, ReaderMoves DEF AlreadySubscribed, Return
<1>10. ASSUME NEW c \in Clients, SwitchStream(c)
      PROVE  ClientInv' /\ StreamInv'
  BY <1>10, ClientsUnchanged, SwitchStreamKeeps DEF SwitchStream
<1>11. ASSUME NEW c \in Clients, Dialled(c)
      PROVE  ClientInv' /\ StreamInv'
  BY <1>11, ClientsUnchanged, DialSucceedsKeeps, DialFailsKeeps
     DEF Dialled, DialSucceeds, DialFails
<1> QED BY <1>1, <1>2, <1>3, <1>4, <1>5, <1>6, <1>7, <1>8, <1>9, <1>10, <1>11 DEF Next, Locks

(* The inductive invariant holds in every reachable state of the manager.  *)
THEOREM WsInvCorrect == Spec => []WsInv
  BY InitInv, NextInv, PTL DEF Spec

(* Nobody sends on or closes a queue of clients that has been closed: a     *)
(* registered client's queue is open and its writer is there.               *)
THEOREM ServedCorrect == Spec => []RegisteredIsServed
<1>1. WsInv => RegisteredIsServed
  BY DEF WsInv, ClientInv
<1> QED BY <1>1, WsInvCorrect, PTL

(* candleStopC is never closed twice and no candle stream runs on that      *)
(* nobody can stop, whatever browsers ask for and whichever dials fail.     *)
THEOREM OneStreamCorrect == Spec => []OneCandleStream
<1>1. WsInv => OneCandleStream
  BY DEF WsInv, StreamInv
<1> QED BY <1>1, WsInvCorrect, PTL

(* A subscription that returns has its own feed active: nobody overtakes    *)
(* StartCandleSubscription while it dials.                                  *)
THEOREM AnsweredCorrect == Spec => SubscriptionsAnswered
<1> DEFINE Answered(c) ==
      reader[c] \in {"subscribe", "dial"} /\ reader'[c] = "read" =>
          /\ active' = want[c]
          /\ stopC' # Nobody => stream'[stopC'].feed = want[c]
<1>1. ASSUME WsInv, Next, NEW c \in Clients, reader[c] \in {"subscribe", "dial"},
             reader'[c] = "read"
      PROVE  AlreadySubscribed(c) \/ Dialled(c)
  <2>1. reader[c] # reader'[c] /\ reader \in [Clients -> ReaderStates]
    BY <1>1 DEF WsInv, StreamInv, StreamTypeOK
  <2>2. PICK d \in Clients :
           \/ AddClient(d) \/ ReadFails(d) \/ AlreadySubscribed(d) \/ SwitchStream(d)
           \/ Dialled(d) \/ \E f \in Feeds : ReadSubscribe(d, f)
    BY <1>1, <2>1 DEF Next, Locks, NotifierBroadcasts, StreamBroadcasts, Broadcast, TickerLocks,
       TickerDialled, StreamEnds, StoppedStreamEnds, Writer, WriterTakes, WriterWrites,
       WriterFails, WriterDrains, WriterEnds, readerVars
  <2>3. d = c
    BY <2>1, <2>2 DEF AddClient, ReadFails, AlreadySubscribed, SwitchStream, Dialled,
       DialSucceeds, DialFails, ReadSubscribe, Return
  <2>4. ~SwitchStream(c) /\ ~ReadFails(c) /\ \A f \in Feeds : ~ReadSubscribe(c, f)
    BY <1>1, <2>1 DEF SwitchStream, ReadFails, ReadSubscribe
  <2>5. ~AddClient(c)
    BY <1>1 DEF AddClient, WsInv, ReaderWaits
  <2> QED BY <2>2, <2>3, <2>4, <2>5
<1>2. ASSUME WsInv, NEW c \in Clients, AlreadySubscribed(c) PROVE Answered(c)
  BY <1>2, WsAssumption
     DEF AlreadySubscribed, Subscribed, WsInv, StreamInv, StreamIsActive, streamVars
<1>3. ASSUME WsInv, NEW c \in Clients, DialSucceeds(c) PROVE Answered(c)
  <2>1. PICK s \in Streams :
           stream' = [stream EXCEPT ![s] = [state |-> "live", feed |-> want[c]]] /\ stopC' = s
    BY <1>3 DEF DialSucceeds
  <2>2. active' = want[c]
    BY <1>3 DEF DialSucceeds, WsInv, StreamInv, DialHoldsLock
  <2> QED BY <1>3, <2>1, <2>2 DEF WsInv, StreamInv, StreamTypeOK
<1>4. ASSUME WsInv, NEW c \in Clients, DialFails(c) PROVE Answered(c)
  BY <1>4 DEF DialFails, WsInv, StreamInv, DialHoldsLock
<1> HIDE DEF Answered
<1>5. WsInv /\ [Next]_vars => [\A c \in Clients : Answered(c)]_vars
  <2> SUFFICES ASSUME WsInv, Next, NEW c \in Clients PROVE Answered(c)
    OBVIOUS
  <2>1. CASE reader[c] \in {"subscribe", "dial"} /\ reader'[c] = "read"
    BY <1>1, <1>2, <1>3, <1>4, <2>1 DEF Dialled
  <2>2. CASE ~(reader[c] \in {"subscribe", "dial"} /\ reader'[c] = "read")
    BY <2>2 DEF Answered
  <2> QED BY <2>1, <2>2
<1>6. Spec => [][\A c \in Clients : Answered(c)]_vars
  BY <1>5, WsInvCorrect, PTL DEF Spec
<1> QED BY <1>6 DEF SubscriptionsAnswered, Answered

-----------------------------------------------------------------------------
(* WsManager implements PushService.                                        *)

(* Where the messages of a client end: with the last one that was sent, or, *)
(* once it has been let go, with what is still on its way.                  *)
Ends(c) ==
    CASE c \in clients -> sent
      [] c \notin clients /\ writer[c] \in {"loop", "writing"} -> Reached(c) + Len(send[c])
      [] OTHER -> seen[c]

LEMMA UptoIsEnds == ClientInv => \A c \in Clients : Upto(c) = Ends(c)
<1> SUFFICES ASSUME ClientInv, NEW c \in Clients, c \notin clients
             PROVE  Upto(c) = Ends(c)
  BY DEF Upto, Ends
<1>1. send[c] \in Seq(Nat) /\ Len(send[c]) \in Nat /\ seen[c] \in Nat /\ hand[c] \in Nat
  BY DEF ClientInv, ClientTypeOK
<1>2. CASE writer[c] = "loop"
  <2>1. Pending(c) = send[c] /\ Reached(c) = seen[c]
    BY <1>2 DEF Pending, Reached
  <2>2. CASE send[c] = <<>>
    BY <1>1, <1>2, <2>1, <2>2 DEF Upto, Ends
  <2>3. CASE send[c] # <<>>
    <3>1. Len(send[c]) \in 1..Len(send[c])
      BY <1>1, <2>3
    <3>2. send[c][Len(send[c])] = Reached(c) + Len(send[c])
      BY <1>2, <3>1 DEF ClientInv, QueueGoesOn
    <3> QED BY <1>2, <2>1, <2>3, <3>2 DEF Upto, Ends
  <2> QED BY <2>2, <2>3
<1>3. CASE writer[c] = "writing"
  <2> DEFINE q == <<hand[c]>> \o send[c]
  <2>1. Pending(c) = q /\ Reached(c) = seen[c] + 1 /\ hand[c] = seen[c] + 1
    BY <1>3 DEF Pending, Reached, ClientInv, QueueGoesOn
  <2>2. Len(q) = Len(send[c]) + 1 /\ q # <<>>
    BY <1>1
  <2>3. q[Len(q)] = Reached(c) + Len(send[c])
    <3>1. CASE send[c] = <<>>
      <4>1. Len(q) = 1 /\ q[1] = hand[c] /\ Len(send[c]) = 0
        BY <1>1, <3>1
      <4> QED BY <1>1, <2>1, <4>1
    <3>2. CASE send[c] # <<>>
      <4>1. Len(send[c]) \in 1..Len(send[c]) /\ q[Len(q)] = send[c][Len(send[c])]
        BY <1>1, <2>2, <3>2
      <4> QED BY <1>3, <4>1 DEF ClientInv, QueueGoesOn
    <3> QED BY <3>1, <3>2
  <2> HIDE DEF q
  <2> QED BY <1>3, <2>1, <2>2, <2>3 DEF Upto, Ends
<1>4. CASE writer[c] \notin {"loop", "writing"}
  BY <1>4 DEF Upto, Ends, Pending
<1> QED BY <1>2, <1>3, <1>4

LEMMA EndsBounds ==
  ASSUME ClientInv, NEW c \in Clients
  PROVE  seen[c] \in Nat /\ Ends(c) \in Nat /\ seen[c] <= Ends(c) /\ Ends(c) <= sent
<1>1. seen[c] \in Nat /\ Len(send[c]) \in Nat /\ sent \in Nat /\ seen[c] <= sent
  BY DEF ClientInv, ClientTypeOK, QueueGoesOn
<1>2. Reached(c) \in Nat /\ seen[c] <= Reached(c)
  BY <1>1 DEF Reached
<1>3. writer[c] \in {"loop", "writing"} => Reached(c) + Len(send[c]) <= sent
  BY DEF ClientInv, QueueGoesOn
<1> QED BY <1>1, <1>2, <1>3 DEF Ends

(* A step that leaves what browsers have seen, where their messages end and *)
(* who they are is none of PushService.                                     *)
LEMMA Stutters ==
  ASSUME UNCHANGED <<sent, seen>>,
         \A c \in Clients : Upto(c)' = Upto(c) /\ Member(c)' = Member(c)
  PROVE  UNCHANGED Promise!vars
  BY DEF Promise!vars

LEMMA UptoIsEndsNext == ClientInv' => \A c \in Clients : Upto(c)' = Ends(c)'
<1>1. ClientInv' => (\A c \in Clients : Upto(c) = Ends(c))'
  BY UptoIsEnds, PTL
<1> QED BY <1>1

(* The same, for two states of which both satisfy the invariant.            *)
LEMMA StuttersIf ==
  ASSUME ClientInv, ClientInv', UNCHANGED <<sent, seen>>,
         \A c \in Clients : Ends(c)' = Ends(c) /\ Member(c)' = Member(c)
  PROVE  UNCHANGED Promise!vars
  BY UptoIsEnds, UptoIsEndsNext, Stutters

LEMMA JoinStep ==
  ASSUME ClientInv, ClientInv', NEW c \in Clients, AddClient(c)
  PROVE  Promise!Join(c)
<1> USE DEF AddClient
<1>1. /\ Member(c) = "absent" /\ Member(c)' = "joined"
      /\ \A d \in Clients \ {c} : Member(d)' = Member(d)
  <2>1. conn[c] = "none" /\ c \notin clients /\ conn'[c] = "open" /\ c \in clients'
    BY DEF ClientInv, ClientTypeOK, NotYetThere
  <2>2. ASSUME NEW d \in Clients \ {c} PROVE Member(d)' = Member(d)
    <3>1. conn'[d] = conn[d] /\ (d \in clients' <=> d \in clients)
      BY DEF ClientInv, ClientTypeOK
    <3> QED BY <3>1 DEF Member
  <2>3. Member(c) = "absent"
    BY <2>1 DEF Member
  <2>4. Member(c)' = "joined"
    <3>1. conn'[c] # "none" /\ c \in clients'
      BY <2>1
    <3> QED BY ONLY <3>1 DEF Member
  <2> QED BY <2>2, <2>3, <2>4
<1>2. Ends(c)' = sent /\ \A d \in Clients \ {c} : Ends(d)' = Ends(d)
  BY DEF Ends, Reached, ClientInv, ClientTypeOK
<1>3. Upto(c)' = sent /\ \A d \in Clients \ {c} : Upto(d)' = Upto(d)
  BY <1>2, UptoIsEnds, UptoIsEndsNext
<1> QED BY <1>1, <1>3 DEF Promise!Join

LEMMA PushStep ==
  ASSUME ClientInv, ClientInv', Broadcast
  PROVE  Promise!Push
<1> USE DEF Broadcast, RemoveLocked
<1>1. /\ clients \subseteq Clients /\ Full \subseteq clients /\ clients' = clients \ Full
      /\ \A c \in Clients : conn[c] = "none" => c \notin clients
      /\ \A c \in clients : conn[c] # "none"
  BY DEF Full, ClientInv, ClientTypeOK, NotYetThere
<1>2. \A c \in Clients : Member(c)' = IF c \in Full THEN "gone" ELSE Member(c)
  BY <1>1 DEF Member
<1>3. Promise!Joined = clients
  BY <1>1 DEF Promise!Joined, Member
<1>4. ASSUME NEW c \in Clients \ Full
      PROVE  Upto(c)' = IF c \in clients THEN sent + 1 ELSE Upto(c)
  <2>1. Ends(c)' = IF c \in clients THEN sent + 1 ELSE Ends(c)
    BY <1>1, <1>4 DEF Ends, Reached
  <2> QED BY <2>1, UptoIsEnds, UptoIsEndsNext
<1>5. ASSUME NEW c \in Full
      PROVE  Upto(c)' \in seen[c]..Upto(c)
  <2>1. c \in Clients /\ seen' = seen /\ sent \in Nat
    BY <1>1 DEF ClientInv, ClientTypeOK
  <2>2. seen[c] \in Nat /\ seen[c] <= sent /\ Ends(c) = sent
    BY <1>1, <2>1, EndsBounds DEF Ends
  <2>3. Ends(c)' \in {sent, seen[c]}
    BY <1>1, <2>1 DEF Ends, Reached, ClientInv, QueueGoesOn
  <2> QED BY <2>1, <2>2, <2>3, UptoIsEnds, UptoIsEndsNext
<1>6. Full \in SUBSET clients /\ Full \subseteq Clients /\ sent' = sent + 1 /\ seen' = seen
  BY <1>1
<1> QED BY <1>1, <1>2, <1>3, <1>4, <1>5, <1>6 DEF Promise!Push

LEMMA WriterTakesStutters ==
  ASSUME ClientInv, ClientInv', NEW c \in Clients, WriterTakes(c)
  PROVE  UNCHANGED Promise!vars
<1> USE DEF WriterTakes
<1>1. send[c] \in Seq(Nat) /\ seen[c] \in Nat /\ Len(Tail(send[c])) = Len(send[c]) - 1
         /\ Len(send[c]) \in Nat
  BY TailOfQueue DEF ClientInv, ClientTypeOK
<1>2. Ends(c)' = Ends(c)
  BY <1>1 DEF Ends, Reached, ClientInv, ClientTypeOK
<1>3. \A d \in Clients \ {c} : Ends(d)' = Ends(d)
  BY DEF Ends, Reached, ClientInv, ClientTypeOK
<1>4. \A d \in Clients : Member(d)' = Member(d)
  BY DEF Member
<1> QED BY <1>2, <1>3, <1>4, StuttersIf

LEMMA DeliverStep ==
  ASSUME ClientInv, ClientInv', NEW c \in Clients, WriterWrites(c)
  PROVE  Promise!Deliver(c)
<1> USE DEF WriterWrites
<1>1. /\ hand[c] = seen[c] + 1 /\ Reached(c) = seen[c] + 1
      /\ Len(send[c]) \in Nat /\ seen[c] \in Nat /\ sent \in Nat
      /\ Reached(c) + Len(send[c]) <= sent
  BY DEF Reached, ClientInv, ClientTypeOK, QueueGoesOn
<1>2. Ends(c) = (IF c \in clients THEN sent ELSE Reached(c) + Len(send[c]))
  BY DEF Ends
<1>3. seen[c] < Ends(c) /\ seen' = [seen EXCEPT ![c] = seen[c] + 1]
  BY <1>1, <1>2
<1>4. Reached(c)' = Reached(c)
  BY <1>1 DEF Reached, ClientInv, ClientTypeOK
<1>5. Ends(c)' = Ends(c)
  BY <1>2, <1>4 DEF Ends, ClientInv, ClientTypeOK
<1>6. \A d \in Clients \ {c} : Ends(d)' = Ends(d)
  BY DEF Ends, Reached, ClientInv, ClientTypeOK
<1>7. \A d \in Clients : Member(d)' = Member(d)
  BY DEF Member
<1>8. \A d \in Clients : Upto(d)' = Upto(d) /\ Upto(d) = Ends(d)
  BY <1>5, <1>6, UptoIsEnds, UptoIsEndsNext
<1> QED BY <1>3, <1>7, <1>8 DEF Promise!Deliver

(* A write that fails is an answer that is given up, if the client has been *)
(* let go already.                                                          *)
LEMMA WriterFailsStep ==
  ASSUME ClientInv, ClientInv', NEW c \in Clients, WriterFails(c)
  PROVE  Promise!GiveUp(c) \/ UNCHANGED Promise!vars
<1> USE DEF WriterFails, AfterFailure
<1>1. conn[c] # "none" /\ conn'[c] # "none" /\ writer'[c] = "drain" /\ clients' = clients
  BY DEF ClientInv, ClientTypeOK, NotYetThere
<1>2. \A d \in Clients : Member(d)' = Member(d)
  <2>1. \A d \in Clients \ {c} : conn'[d] = conn[d]
    BY DEF ClientInv, ClientTypeOK
  <2> QED BY <1>1, <2>1 DEF Member
<1>3. \A d \in Clients \ {c} : Ends(d)' = Ends(d)
  BY DEF Ends, Reached, ClientInv, ClientTypeOK
<1>4. CASE c \in clients
  <2>1. Ends(c)' = Ends(c)
    BY <1>4 DEF Ends
  <2> QED BY <1>2, <1>3, <2>1, StuttersIf
<1>5. CASE c \notin clients
  <2>1. Member(c) = "gone"
    BY <1>1, <1>5 DEF Member
  <2>2. Ends(c)' = seen[c]
    BY <1>1, <1>5 DEF Ends
  <2>3. Upto(c)' = seen[c] /\ \A d \in Clients \ {c} : Upto(d)' = Upto(d)
    BY <1>3, <2>2, UptoIsEnds, UptoIsEndsNext
  <2> QED BY <1>2, <2>1, <2>3 DEF Promise!GiveUp
<1> QED BY <1>4, <1>5

LEMMA WriterRestStutters ==
  ASSUME ClientInv, ClientInv', NEW c \in Clients, WriterDrains(c) \/ WriterEnds(c)
  PROVE  UNCHANGED Promise!vars
<1> USE DEF WriterDrains, WriterEnds, ConnAtEnd
<1>1. clients' = clients /\ seen' = seen /\ sent' = sent
  OBVIOUS
<1>2. \A d \in Clients : Member(d)' = Member(d)
  <2>1. \A d \in Clients : conn'[d] = "none" <=> conn[d] = "none"
    BY DEF ClientInv, ClientTypeOK, NotYetThere
  <2> QED BY <1>1, <2>1 DEF Member
<1>3. \A d \in Clients \ {c} : Ends(d)' = Ends(d)
  BY DEF Ends, Reached, ClientInv, ClientTypeOK
<1>4. Ends(c)' = Ends(c)
  <2>1. CASE WriterDrains(c)
    BY <2>1 DEF Ends
  <2>2. CASE WriterEnds(c)
    <3>1. c \notin clients /\ Len(send[c]) = 0 /\ seen[c] \in Nat /\ writer'[c] = "ended"
      BY <2>2 DEF ClientInv, ClientTypeOK, RegisteredIsServed
    <3>2. Ends(c)' = seen[c]
      BY <2>2, <3>1 DEF Ends
    <3>3. Ends(c) = seen[c]
      BY <2>2, <3>1 DEF Ends, Reached
    <3> QED BY <3>2, <3>3
  <2> QED BY <2>1, <2>2
<1> QED BY <1>1, <1>2, <1>3, <1>4, StuttersIf

LEMMA LeaveStep ==
  ASSUME ClientInv, ClientInv', NEW c \in Clients, ReadFails(c), ReaderWaits
  PROVE  Promise!Leave(c) \/ UNCHANGED Promise!vars
<1> USE DEF ReadFails, RemoveLocked
<1>1. conn[c] # "none" /\ clients' = clients \ {c}
  BY DEF ReaderWaits
<1>2. \A d \in Clients \ {c} : Ends(d)' = Ends(d) /\ Member(d)' = Member(d)
  BY <1>1 DEF Ends, Reached, Member
<1>3. CASE c \notin clients
  <2>1. clients' = clients
    BY <1>1, <1>3
  <2> QED BY <2>1, StuttersIf DEF Ends, Reached, Member
<1>4. CASE c \in clients
  <2>1. Member(c) = "joined" /\ Member(c)' = "gone"
    BY <1>1, <1>4 DEF Member
  <2>2. Ends(c)' = IF writer[c] \in {"loop", "writing"} THEN Reached(c) + Len(send[c]) ELSE seen[c]
    BY <1>1 DEF Ends, Reached
  <2>3. seen[c] \in Nat /\ sent \in Nat /\ seen[c] <= sent /\ Ends(c) = sent
    BY <1>4, EndsBounds DEF Ends, ClientInv, ClientTypeOK
  <2>4. Ends(c)' \in {seen[c], sent}
    BY <1>4, <2>2 DEF ClientInv, QueueGoesOn
  <2>5. Upto(c) = sent /\ Upto(c)' \in {seen[c], sent}
    BY <2>3, <2>4, UptoIsEnds, UptoIsEndsNext
  <2>6. Upto(c)' \in seen[c]..Upto(c)
    BY <2>3, <2>5
  <2>7. \A d \in Clients \ {c} : Upto(d)' = Upto(d)
    BY <1>2, UptoIsEnds, UptoIsEndsNext
  <2> QED BY <1>2, <2>1, <2>6, <2>7 DEF Promise!Leave, Promise!Joined
<1> QED BY <1>3, <1>4

LEMMA OthersStutter ==
  ASSUME UNCHANGED <<clientVars, sent>>
  PROVE  UNCHANGED Promise!vars
  BY Stutters DEF clientVars, Upto, Member, Pending

LEMMA InitRefines == Init => Promise!Init
  BY DEF Init, Promise!Init, Upto, Member, Pending

(* Every step of the manager is a step of PushService, or none.             *)
LEMMA NextRefines == WsInv /\ WsInv' /\ [Next]_vars => [Promise!Next]_(Promise!vars)
<1> SUFFICES ASSUME ClientInv, ClientInv', ReaderWaits, [Next]_vars
             PROVE  Promise!Next \/ UNCHANGED Promise!vars
  BY DEF WsInv
<1>1. CASE NotifierBroadcasts \/ StreamBroadcasts
  BY <1>1, PushStep DEF NotifierBroadcasts, StreamBroadcasts, Promise!Next
<1>2. ASSUME NEW c \in Clients, AddClient(c)
      PROVE  Promise!Next
  BY <1>2, JoinStep DEF Promise!Next
<1>3. ASSUME NEW c \in Clients, Writer(c)
      PROVE  Promise!Next \/ UNCHANGED Promise!vars
  BY <1>3, WriterTakesStutters, DeliverStep, WriterFailsStep, WriterRestStutters
     DEF Writer, Promise!Next
<1>4. ASSUME NEW c \in Clients, ReadFails(c)
      PROVE  Promise!Next \/ UNCHANGED Promise!vars
  BY <1>4, LeaveStep DEF Promise!Next
<1>5. CASE UNCHANGED <<clientVars, sent>>
  BY <1>5, OthersStutter
<1>6. CASE \/ TickerLocks \/ TickerDialled \/ UNCHANGED vars
           \/ \E s \in Streams : StreamEnds(s) \/ StoppedStreamEnds(s)
           \/ \E c \in Clients : \/ \E f \in Feeds : ReadSubscribe(c, f)
                                 \/ Locks(c) \/ Dialled(c)
  BY <1>5, <1>6 DEF TickerLocks, TickerDialled, StreamEnds, StoppedStreamEnds, ReadSubscribe,
     Locks, AlreadySubscribed, SwitchStream, Dialled, DialSucceeds, DialFails, vars
<1> QED BY <1>1, <1>2, <1>3, <1>4, <1>6 DEF Next

(* The manager implements the part of PushService that says what happens:   *)
(* browsers get every message in order and without a gap until they are let *)
(* go, for any number of browsers and any size of their queues.             *)
THEOREM OrderKept == Spec => KeepsOrder
<1>1. Spec => Promise!Init
  BY InitRefines DEF Spec
<1>2. Spec => [][Promise!Next]_(Promise!vars)
  BY NextRefines, WsInvCorrect, PTL DEF Spec
<1> QED BY <1>1, <1>2 DEF KeepsOrder

=============================================================================
