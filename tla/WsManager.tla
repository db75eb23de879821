------------------------------ MODULE WsManager ------------------------------
(***************************************************************************)
(* MarketWebsocketManager (server/ws/ws.go) with the handler that serves   *)
(* /ws/market (server/handler/ws.go): every browser has a reader, which    *)
(* may ask for another candle stream, and a writer, which empties a        *)
(* bounded queue; Binance streams and the bots of sessions (WsNotifier)    *)
(* broadcast.  clients and the queues are used under clientsMu, one action *)
(* per critical section; streamMu is held while a stream is dialled.       *)
(*                                                                         *)
(* Messages are numbered: their contents are left out.  The connections    *)
(* (gorilla/websocket) and streams (go-binance) are modelled by what the   *)
(* code relies on.                                                         *)
(***************************************************************************)
EXTENDS Integers, Sequences, FiniteSets

CONSTANTS
    Clients,       \* browsers; each connects at most once
    Feeds,         \* what can be subscribed to: a pair and a timeframe
    BufferSize,    \* clientBufferSize
    Streams,       \* candle streams that exist at once
    MaxMessages,   \* bound on the messages of a behaviour
    Nobody         \* nil, and nobody

ASSUME WsAssumption ==
    /\ BufferSize \in Nat \ {0} /\ MaxMessages \in Nat
    /\ Nobody \notin Clients \cup Feeds \cup Streams \cup {"server"}
    /\ "server" \notin Clients

VARIABLES
    clients,  \* m.clients
    send,     \* the queue of each client
    closed,   \* the clients whose queue is closed
    conn,     \* their connections: none, open, closed (by the server)
    writer,   \* where writeLoop is: off, loop, writing, drain, ended
    hand,     \* the message that is being written, or 0
    reader,   \* where the handler is: off, read, subscribe, dial, ended
    want,     \* what it is asked to subscribe to
    sent,     \* number of messages broadcast
    seen,     \* the last message that reached the browser
    owner,    \* who holds streamMu
    active,   \* activePair and activeTime
    stopC,    \* the stream whose candleStopC is held
    stream    \* candle streams: free, live, dead, stopped (close(stopC))

clientVars == <<clients, send, closed, conn, writer, hand, seen>>
readerVars == <<reader, want>>
streamVars == <<owner, active, stopC, stream>>
vars == <<clientVars, readerVars, sent, streamVars>>

Init ==
    /\ clients = {} /\ closed = {} /\ sent = 0
    /\ send = [c \in Clients |-> <<>>]
    /\ conn = [c \in Clients |-> "none"]
    /\ writer = [c \in Clients |-> "off"]
    /\ hand = [c \in Clients |-> 0]
    /\ reader = [c \in Clients |-> "off"]
    /\ want = [c \in Clients |-> Nobody]
    /\ seen = [c \in Clients |-> 0]
    /\ owner = Nobody
    /\ active = Nobody /\ stopC = Nobody
    /\ stream = [s \in Streams |-> [state |-> "free", feed |-> Nobody]]

-----------------------------------------------------------------------------
(* HandleMarketWebsocket upgrades the connection and adds the client.       *)
AddClient(c) ==
    /\ conn[c] = "none"
    /\ conn' = [conn EXCEPT ![c] = "open"]
    /\ clients' = clients \cup {c}
    /\ writer' = [writer EXCEPT ![c] = "loop"]
    /\ reader' = [reader EXCEPT ![c] = "read"]
    /\ seen' = [seen EXCEPT ![c] = sent]
    /\ UNCHANGED <<send, closed, hand, want, sent, streamVars>>

(* Mutant: a queue is closed and its client kept.                           *)
RemoveKeepsClient(S) == closed' = closed \cup S /\ UNCHANGED clients

(* removeLocked, for the clients in S.                                      *)
RemoveLocked(S) ==
    /\ clients' = clients \ S
    /\ closed' = closed \cup (S \cap clients)

Full == {c \in clients : Len(send[c]) = BufferSize}

Broadcast ==
    /\ sent < MaxMessages
    /\ sent' = sent + 1
    /\ send' = [c \in Clients |->
          IF c \in clients \ Full THEN Append(send[c], sent + 1) ELSE send[c]]
    /\ RemoveLocked(Full)
    /\ UNCHANGED <<conn, writer, hand, seen, readerVars, streamVars>>

(* WsNotifier.OnOrder and OnError, and the handler of the ticker stream.    *)
NotifierBroadcasts == Broadcast

(* The handler of a candle stream.  A stream that has been stopped may      *)
(* still hand over what it has read.                                        *)
StreamBroadcasts ==
    /\ \E s \in Streams : stream[s].state \in {"live", "stopped"}
    /\ Broadcast

-----------------------------------------------------------------------------
(* writeLoop.                                                               *)
WriterTakes(c) ==
    /\ writer[c] = "loop" /\ send[c] # <<>>
    /\ hand' = [hand EXCEPT ![c] = Head(send[c])]
    /\ send' = [send EXCEPT ![c] = Tail(@)]
    /\ writer' = [writer EXCEPT ![c] = "writing"]
    /\ UNCHANGED <<clients, closed, conn, seen, readerVars, sent, streamVars>>

WriterWrites(c) ==
    /\ writer[c] = "writing"
    /\ seen' = [seen EXCEPT ![c] = hand[c]]
    /\ hand' = [hand EXCEPT ![c] = 0]
    /\ writer' = [writer EXCEPT ![c] = "loop"]
    /\ UNCHANGED <<clients, send, closed, conn, readerVars, sent, streamVars>>

(* Mutant: a failed write is logged, and the writer goes on.                *)
AfterFailureLoop == "loop"

AfterFailure == "drain"

(* The browser has left, or writeTimeout passed.                            *)
WriterFails(c) ==
    /\ writer[c] = "writing"
    /\ conn' = [conn EXCEPT ![c] = "closed"]
    /\ hand' = [hand EXCEPT ![c] = 0]
    /\ writer' = [writer EXCEPT ![c] = AfterFailure]
    /\ UNCHANGED <<clients, send, closed, seen, readerVars, sent, streamVars>>

WriterDrains(c) ==
    /\ writer[c] = "drain" /\ send[c] # <<>>
    /\ send' = [send EXCEPT ![c] = Tail(@)]
    /\ UNCHANGED <<clients, closed, conn, writer, hand, seen, readerVars, sent, streamVars>>

(* Mutant: the writer of a dropped client leaves its connection open.       *)
ConnAtEndKept(c) == conn[c]

ConnAtEnd(c) == "closed"

(* The queue is empty and closed.                                           *)
WriterEnds(c) ==
    /\ writer[c] \in {"loop", "drain"} /\ send[c] = <<>> /\ c \in closed
    /\ writer' = [writer EXCEPT ![c] = "ended"]
    /\ conn' = [conn EXCEPT ![c] = ConnAtEnd(c)]
    /\ UNCHANGED <<clients, send, closed, hand, seen, readerVars, sent, streamVars>>

-----------------------------------------------------------------------------
(* The read loop of HandleMarketWebsocket.                                  *)
ReadSubscribe(c, f) ==
    /\ reader[c] = "read" /\ conn[c] = "open"
    /\ want' = [want EXCEPT ![c] = f]
    /\ reader' = [reader EXCEPT ![c] = "subscribe"]
    /\ UNCHANGED <<clientVars, sent, streamVars>>

(* A read fails, because the browser has left, has sent no JSON, or because *)
(* the writer has closed the connection; RemoveClient is deferred.          *)
ReadFails(c) ==
    /\ reader[c] = "read"
    /\ reader' = [reader EXCEPT ![c] = "ended"]
    /\ RemoveLocked({c})
    /\ UNCHANGED <<send, conn, writer, hand, seen, want, sent, streamVars>>

(* StartCandleSubscription returns to the read loop.                        *)
Return(c) ==
    /\ reader' = [reader EXCEPT ![c] = "read"]
    /\ want' = [want EXCEPT ![c] = Nobody]

(* Mutant: any stream will do.                                              *)
SubscribedToAny(f) == stopC # Nobody

Subscribed(f) == active = f /\ stopC # Nobody

(* StartCandleSubscription up to its dial.                                  *)
AlreadySubscribed(c) ==
    /\ reader[c] = "subscribe" /\ owner = Nobody
    /\ Subscribed(want[c])
    /\ Return(c)
    /\ UNCHANGED <<clientVars, sent, streamVars>>

(* Mutant: the stop channel is kept after it has been closed.               *)
StopCKept == stopC

StopCAfterClose == Nobody

(* close(candleStopC).  A stream that has ended has nothing to stop.        *)
OldStopped ==
    [s \in Streams |->
        CASE s = stopC /\ stream[s].state = "live" -> [state |-> "stopped", feed |-> Nobody]
          [] s = stopC /\ stream[s].state = "dead" -> [state |-> "free", feed |-> Nobody]
          [] OTHER -> stream[s]]

SwitchStream(c) ==
    /\ reader[c] = "subscribe" /\ owner = Nobody
    /\ ~Subscribed(want[c])
    /\ owner' = c
    /\ stream' = OldStopped
    /\ stopC' = StopCAfterClose
    /\ active' = want[c]
    /\ reader' = [reader EXCEPT ![c] = "dial"]
    /\ UNCHANGED <<clientVars, want, sent>>

(* WsKlineServe returns a stream, or an error.                              *)
DialSucceeds(c) ==
    LET free == {s \in Streams : stream[s].state = "free"}
        s    == CHOOSE s \in free : TRUE IN
    /\ reader[c] = "dial" /\ free # {}
    /\ stream' = [stream EXCEPT ![s] = [state |-> "live", feed |-> want[c]]]
    /\ stopC' = s
    /\ owner' = Nobody
    /\ Return(c)
    /\ UNCHANGED <<clientVars, sent, active>>

DialFails(c) ==
    /\ reader[c] = "dial"
    /\ owner' = Nobody
    /\ Return(c)
    /\ UNCHANGED <<clientVars, sent, active, stopC, stream>>

(* StartTickerSubscription, in a goroutine of NewServer: holds streamMu     *)
(* until its dial ends, in a stream or in an error.  The server calls it    *)
(* once, at some time; here it may call it again.                           *)
TickerLocks ==
    /\ owner = Nobody
    /\ owner' = "server"
    /\ UNCHANGED <<clientVars, readerVars, sent, active, stopC, stream>>

TickerDialled ==
    /\ owner = "server"
    /\ owner' = Nobody
    /\ UNCHANGED <<clientVars, readerVars, sent, active, stopC, stream>>

(* The connection to Binance is lost, or the goroutine of a stream sees     *)
(* that it has been stopped.                                                *)
StreamEnds(s) ==
    /\ stream[s].state = "live"
    /\ stream' = [stream EXCEPT ![s].state = "dead"]
    /\ UNCHANGED <<clientVars, readerVars, sent, owner, active, stopC>>

StoppedStreamEnds(s) ==
    /\ stream[s].state = "stopped"
    /\ stream' = [stream EXCEPT ![s] = [state |-> "free", feed |-> Nobody]]
    /\ UNCHANGED <<clientVars, readerVars, sent, owner, active, stopC>>

-----------------------------------------------------------------------------
Writer(c) == WriterTakes(c) \/ WriterWrites(c) \/ WriterFails(c) \/ WriterDrains(c) \/ WriterEnds(c)

Locks(c) == AlreadySubscribed(c) \/ SwitchStream(c)
Dialled(c) == DialSucceeds(c) \/ DialFails(c)

Next ==
    \/ NotifierBroadcasts \/ StreamBroadcasts
    \/ TickerLocks \/ TickerDialled
    \/ \E s \in Streams : StreamEnds(s) \/ StoppedStreamEnds(s)
    \/ \E c \in Clients :
          \/ AddClient(c) \/ Writer(c) \/ ReadFails(c)
          \/ \E f \in Feeds : ReadSubscribe(c, f)
          \/ Locks(c) \/ Dialled(c)

(* Writers run, and a write ends within writeTimeout; a read of a broken    *)
(* connection fails; a dial ends within the handshake timeout; streamMu is  *)
(* handed to a waiter, and a stopped stream ends.                           *)
Fairness ==
    /\ WF_vars(TickerDialled)
    /\ \A s \in Streams : WF_vars(StoppedStreamEnds(s))
    /\ \A c \in Clients :
          /\ WF_vars(Writer(c)) /\ WF_vars(conn[c] = "closed" /\ ReadFails(c))
          /\ SF_vars(Locks(c)) /\ WF_vars(Dialled(c))

Spec == Init /\ [][Next]_vars /\ Fairness

-----------------------------------------------------------------------------
(* Nobody sends on a closed queue or closes one twice (either would panic   *)
(* and take the server down): a registered client's queue is open, and its  *)
(* writer is there to empty it.                                             *)
RegisteredIsServed ==
    \A c \in clients : c \notin closed /\ writer[c] \in {"loop", "writing", "drain"}

(* candleStopC is never a channel that has been closed already (closing it  *)
(* again would panic), and a candle stream that nobody can stop does not    *)
(* run on.                                                                  *)
OneCandleStream ==
    /\ stopC # Nobody => stream[stopC].state \in {"live", "dead"}
    /\ \A s \in Streams : stream[s].state = "live" => s = stopC

(* A client that was dropped as too slow, that left or that a write to has  *)
(* failed is cleared away: writer and reader end, the connection is closed. *)
ClientsCleared ==
    \A c \in Clients :
        (conn[c] = "closed" \/ c \in closed) ~>
            /\ c \notin clients /\ conn[c] = "closed"
            /\ writer[c] = "ended" /\ reader[c] = "ended"

(* A request for a candle stream is answered by the stream that is active,  *)
(* by a dial that fails, or by a later request: two dials never cross.      *)
SubscriptionsAnswered ==
    [][\A c \in Clients :
          reader[c] \in {"subscribe", "dial"} /\ reader'[c] = "read" =>
              /\ active' = want[c]
              /\ stopC' # Nobody => stream'[stopC'].feed = want[c]]_vars

-----------------------------------------------------------------------------
(* The messages of the queue of a client, with the one being written.       *)
Pending(c) ==
    CASE writer[c] = "loop" -> send[c]
      [] writer[c] = "writing" -> <<hand[c]>> \o send[c]
      [] OTHER -> <<>>

Member(c) ==
    CASE conn[c] = "none" -> "absent"
      [] c \in clients -> "joined"
      [] OTHER -> "gone"

Upto(c) ==
    CASE c \in clients -> sent
      [] c \notin clients /\ Pending(c) # <<>> -> Pending(c)[Len(Pending(c))]
      [] OTHER -> seen[c]

Promise == INSTANCE PushService WITH
    upto <- [c \in Clients |-> Upto(c)],
    member <- [c \in Clients |-> Member(c)]

(* The part of it that a finite behaviour can break: messages reach a       *)
(* client in order and without a gap until it is let go.                    *)
KeepsOrder == Promise!Init /\ [][Promise!Next]_(Promise!vars)

(* The manager keeps the promise of PushService: besides, a client that is  *)
(* behind is served or let go.                                              *)
KeepsPromise == KeepsOrder /\ Promise!Fairness

==============================================================================
