------------------------ MODULE OrderControllerProofs -------------------------
(***************************************************************************)
(* Proofs about OrderController for one controller per database, any       *)
(* number of orders and any interleaving of the bot and its ticker:        *)
(* OrderInv is inductive, a live bot has settled all orders when it has    *)
(* stopped, and a backtest has when its strategy runs.                     *)
(***************************************************************************)
EXTENDS OrderController, SequenceTheorems, SetLemmas, TLAPS

(* The command line runs one bot with one storage, and each backtest has a  *)
(* storage of its own in memory.                                            *)
OneController == \A c, d \in Controllers : c = d

OpenStatuses == {"NEW", "PENDING_CANCEL"}
DoneStatuses == {"FILLED", "CANCELED"}

OrderSet == [side : Sides, status : {"NEW"} \cup DoneStatuses]
RowSet   == [session : Controllers, xid : Nat, status : Statuses, profit : BOOLEAN]
KnownSet == [id : Nat, xid : Nat, status : Statuses]

TableTypeOK ==
    /\ mode \in [Controllers -> {"live", "backtest"}]
    /\ exch \in [Controllers -> Seq(OrderSet)]
    /\ waiting \in [Controllers -> SUBSET Nat]
    /\ rows \in Seq(RowSet)
    /\ applied \in [Controllers -> Seq(Nat)]

ThreadTypeOK ==
    /\ lock \in [Controllers -> Threads \cup {"free"}]
    /\ pc \in [Controllers -> [bot : BotPCs \cup UpdatePCs, ticker : {"idle", "off"} \cup UpdatePCs]]
    /\ todo \in [Controllers -> [Threads -> Seq(KnownSet)]]
    /\ got \in [Controllers -> [Threads -> KnownSet]]
    /\ updated \in [Controllers -> [Threads -> Seq(KnownSet)]]

(* What the wallet says of an order, and whether its row says the same.     *)
Truth(c, x) == exch[c][x].status
Same(c, x)  == rows[x].status = Truth(c, x)

(* The rows are the wallet's orders, ID by ID, and none that is open is     *)
(* missing in pendingOrders.                                                *)
RowsAreOrders(c) ==
    /\ Len(rows) = Len(exch[c])
    /\ \A x \in DOMAIN rows : rows[x].session = c /\ rows[x].xid = x
    /\ waiting[c] \subseteq DOMAIN rows
    /\ \A x \in DOMAIN rows : Truth(c, x) = "NEW" => x \in waiting[c]

(* What a row says has happened to its order has.                           *)
RowsAreTrue(c) ==
    \A x \in DOMAIN rows :
        /\ rows[x].status \in DoneStatuses => Same(c, x)
        /\ rows[x].status = "PENDING_CANCEL" => Truth(c, x) = "CANCELED"

(* What threads know of orders; "done" is final.                            *)
TruePolled(c, o) ==
    /\ o.id \in DOMAIN rows /\ o.xid = o.id
    /\ o.status \in OpenStatuses
    /\ o.status = "PENDING_CANCEL" => Truth(c, o.id) = "CANCELED"

TrueChange(c, o) ==
    /\ o.id \in DOMAIN rows /\ o.xid = o.id
    /\ o.status \in DoneStatuses /\ o.status = Truth(c, o.id)

TrueCancel(c, o) ==
    /\ o.id \in DOMAIN rows /\ o.xid = o.id
    /\ o.status = "PENDING_CANCEL" /\ Truth(c, o.id) = "CANCELED"

KnowledgeIsTrue(c) ==
    \A t \in Threads :
        /\ \A o \in ToSet(todo[c][t]) : TruePolled(c, o)
        /\ pc[c][t] = "save" => TrueChange(c, got[c][t])
        /\ pc[c][t] = "cancelSave" => TrueCancel(c, got[c][t])
        /\ \A o \in ToSet(updated[c][t]) : TrueChange(c, o)

(* Who is at rest has processed what it saved, and a bot that has stopped   *)
(* has no ticker.                                                           *)
RestIsDone(c) ==
    /\ \A t \in Threads :
          pc[c][t] \notin {"poll", "save", "process"} => updated[c][t] = <<>>
    /\ mode[c] = "backtest" \/ pc[c].bot = "stopped" => pc[c].ticker = "off"

(* A fill that a row shows has been applied, or one of the threads is about *)
(* to.                                                                      *)
FillsAreApplied(c) ==
    /\ \A x \in ToSet(applied[c]) : x \in DOMAIN rows /\ Truth(c, x) = "FILLED"
    /\ \A x \in DOMAIN rows : rows[x].status = "FILLED" =>
          \/ x \in ToSet(applied[c])
          \/ \E t \in Threads : \E o \in ToSet(updated[c][t]) : o.id = x

(* While the bot updates its orders the wallet does not move: what it has   *)
(* still to poll or to save is all that rows do not show.                   *)
BotSettles(c) ==
    LET bot == pc[c].bot IN
    /\ bot \in {"poll", "save"} => \A x \in DOMAIN rows :
          \/ Same(c, x)
          \/ \E o \in ToSet(todo[c]["bot"]) : o.id = x
          \/ bot = "save" /\ got[c]["bot"].id = x
    /\ bot \in {"process", "finish"} \/ (bot = "stopped" /\ mode[c] = "live") =>
          \A x \in DOMAIN rows : Same(c, x)
    /\ mode[c] = "backtest" /\ bot \in {"candle", "strategy", "cancelSave"} =>
          \A x \in DOMAIN rows :
             \/ Same(c, x)
             \/ rows[x].status = "PENDING_CANCEL"
             \/ bot = "cancelSave" /\ got[c]["bot"].id = x

Distinct(s) == \A j, k \in DOMAIN s : s[j].id = s[k].id => j = k

(* In a backtest, an order that is open in the table is neither applied nor *)
(* about to be, and is polled once.                                         *)
EachFillOnce(c) ==
    LET bot == pc[c].bot IN
    mode[c] = "backtest" =>
        /\ IsInjective(applied[c])
        /\ \A x \in ToSet(applied[c]) : rows[x].status = "FILLED"
        /\ Distinct(updated[c]["bot"])
        /\ \A o \in ToSet(updated[c]["bot"]) :
              rows[o.id].status = o.status /\ o.id \notin ToSet(applied[c])
        /\ bot \in {"poll", "save"} =>
              /\ Distinct(todo[c]["bot"])
              /\ \A o \in ToSet(todo[c]["bot"]) : rows[o.id].status \in OpenStatuses
        /\ bot = "save" =>
              /\ rows[got[c]["bot"].id].status \in OpenStatuses
              /\ \A o \in ToSet(todo[c]["bot"]) : o.id # got[c]["bot"].id

ControllerInv(c) ==
    /\ RowsAreOrders(c) /\ RowsAreTrue(c) /\ KnowledgeIsTrue(c) /\ RestIsDone(c)
    /\ FillsAreApplied(c) /\ BotSettles(c) /\ EachFillOnce(c)

OrderInv == TableTypeOK /\ ThreadTypeOK /\ \A c \in Controllers : ControllerInv(c)

-----------------------------------------------------------------------------
(* Sequences of orders as the threads keep them.                            *)

LEMMA HeadAndTail ==
  ASSUME NEW s \in Seq(KnownSet), s # <<>>
  PROVE  /\ Head(s) \in KnownSet /\ Tail(s) \in Seq(KnownSet)
         /\ ToSet(s) = {Head(s)} \cup ToSet(Tail(s))
         /\ Distinct(s) => /\ Distinct(Tail(s))
                           /\ \A o \in ToSet(Tail(s)) : o.id # Head(s).id
<1>1. /\ Head(s) = s[1] /\ Head(s) \in KnownSet /\ Tail(s) \in Seq(KnownSet)
      /\ Len(s) \in Nat \ {0} /\ Len(Tail(s)) = Len(s) - 1
      /\ DOMAIN s = 1..Len(s) /\ DOMAIN Tail(s) = 1..(Len(s) - 1)
      /\ \A k \in DOMAIN Tail(s) : k + 1 \in DOMAIN s /\ Tail(s)[k] = s[k + 1]
  OBVIOUS
<1>2. \A k \in DOMAIN s : k = 1 \/ (k - 1 \in DOMAIN Tail(s) /\ s[k] = Tail(s)[k - 1])
  BY <1>1
<1>3. ToSet(s) = {Head(s)} \cup ToSet(Tail(s))
  <2>1. ASSUME NEW k \in DOMAIN s PROVE s[k] \in {Head(s)} \cup ToSet(Tail(s))
    <3>1. CASE k = 1
      BY <1>1, <3>1
    <3>2. CASE k # 1
      BY <1>2, <3>2 DEF ToSet
    <3> QED BY <3>1, <3>2
  <2>2. 1 \in DOMAIN s
    BY ONLY <1>1
  <2>3. \A o \in {Head(s)} \cup ToSet(Tail(s)) : o \in ToSet(s)
    BY ONLY <1>1, <2>2 DEF ToSet
  <2> QED BY <2>1, <2>3 DEF ToSet
<1>4. ASSUME Distinct(s)
      PROVE  Distinct(Tail(s)) /\ \A o \in ToSet(Tail(s)) : o.id # Head(s).id
  <2>1. Distinct(Tail(s))
    <3> SUFFICES ASSUME NEW j \in DOMAIN Tail(s), NEW k \in DOMAIN Tail(s),
                        Tail(s)[j].id = Tail(s)[k].id
                 PROVE  j = k
      BY DEF Distinct
    <3>1. j + 1 = k + 1
      BY <1>1, <1>4 DEF Distinct
    <3>2. j \in Int /\ k \in Int
      BY ONLY <1>1
    <3> QED BY ONLY <3>1, <3>2
  <2>2. ASSUME NEW k \in DOMAIN Tail(s) PROVE Tail(s)[k].id # Head(s).id
    <3>1. k + 1 # 1 /\ k + 1 \in DOMAIN s /\ 1 \in DOMAIN s
      BY ONLY <1>1, k \in DOMAIN Tail(s)
    <3> QED BY <1>1, <1>4, <3>1 DEF Distinct
  <2> QED BY <2>1, <2>2 DEF ToSet
<1> QED BY <1>1, <1>3, <1>4

LEMMA ElementsOfAppend ==
  ASSUME NEW S, NEW s \in Seq(S), NEW e \in S
  PROVE  /\ Append(s, e) \in Seq(S) /\ Len(Append(s, e)) = Len(s) + 1
         /\ DOMAIN Append(s, e) = DOMAIN s \cup {Len(s) + 1} /\ Len(s) + 1 \notin DOMAIN s
         /\ \A k \in DOMAIN s : Append(s, e)[k] = s[k]
         /\ Append(s, e)[Len(s) + 1] = e
         /\ ToSet(Append(s, e)) = ToSet(s) \cup {e}
<1>1. /\ Append(s, e) \in Seq(S) /\ Len(Append(s, e)) = Len(s) + 1 /\ Len(s) \in Nat
      /\ DOMAIN s = 1..Len(s) /\ DOMAIN Append(s, e) = 1..(Len(s) + 1)
      /\ Append(s, e)[Len(s) + 1] = e
  OBVIOUS
<1>2. DOMAIN Append(s, e) = DOMAIN s \cup {Len(s) + 1} /\ Len(s) + 1 \notin DOMAIN s
  BY ONLY <1>1
<1>3. \A k \in DOMAIN s : Append(s, e)[k] = s[k]
  OBVIOUS
<1>4. ToSet(Append(s, e)) = ToSet(s) \cup {e}
  BY ONLY <1>1, <1>2, <1>3 DEF ToSet
<1> QED BY <1>1, <1>2, <1>3, <1>4

LEMMA DistinctAppend ==
  ASSUME NEW s \in Seq(KnownSet), NEW e \in KnownSet, Distinct(s),
         \A o \in ToSet(s) : o.id # e.id
  PROVE  Distinct(Append(s, e))
<1>1. \A k \in DOMAIN s : s[k].id # e.id
  BY DEF ToSet
<1> QED BY <1>1, ElementsOfAppend DEF Distinct

LEMMA InjectiveAppend ==
  ASSUME NEW s \in Seq(Nat), NEW e \in Nat, IsInjective(s), e \notin ToSet(s)
  PROVE  IsInjective(Append(s, e))
<1>1. \A k \in DOMAIN s : s[k] # e
  BY DEF ToSet
<1>2. \A a, b \in DOMAIN s : s[a] = s[b] => a = b
  BY DEF IsInjective
<1>3. \A a, b \in DOMAIN Append(s, e) : Append(s, e)[a] = Append(s, e)[b] => a = b
  BY <1>1, <1>2, ElementsOfAppend
<1> QED BY <1>3 DEF IsInjective

(* A table in which one row is overwritten.                                 *)
LEMMA OneRowWritten ==
  ASSUME NEW s \in Seq(RowSet), NEW id \in DOMAIN s, NEW row \in RowSet
  PROVE  LET t == [s EXCEPT ![id] = row] IN
         /\ t \in Seq(RowSet) /\ Len(t) = Len(s) /\ DOMAIN t = DOMAIN s
         /\ t[id] = row
         /\ \A x \in DOMAIN s : x # id => t[x] = s[x]
  OBVIOUS

(* The open rows, as they are fetched: each of them, once.                  *)
LEMMA OrdersByID ==
  ASSUME NEW n \in Nat, NEW ids \in SUBSET (1..n)
  PROVE  /\ ByID(ids) \in [1..Cardinality(ids) -> ids] /\ Cardinality(ids) \in Nat
         /\ \A x \in ids : \E k \in DOMAIN ByID(ids) : ByID(ids)[k] = x
         /\ \A j, k \in DOMAIN ByID(ids) : ByID(ids)[j] = ByID(ids)[k] => j = k
<1>1. \E s \in [1..Cardinality(ids) -> ids] : Ascending(s)
  BY AscendingExists
<1>2. ByID(ids) \in [1..Cardinality(ids) -> ids] /\ Ascending(ByID(ids))
  BY <1>1 DEF ByID, Ascending
<1>3. DOMAIN ByID(ids) = 1..Cardinality(ids)
  BY <1>2
<1>4. /\ Cardinality(ids) \in Nat
      /\ \A x \in ids : \E k \in 1..Cardinality(ids) : ByID(ids)[k] = x
      /\ \A j, k \in 1..Cardinality(ids) : ByID(ids)[j] = ByID(ids)[k] => j = k
  BY <1>2, AscendingIsWhole
<1> QED BY <1>2, <1>3, <1>4

-----------------------------------------------------------------------------
(* What the steps of one bot find: the invariant, and no other bot.         *)
Alone(c) == Controllers = {c} /\ TableTypeOK /\ ThreadTypeOK /\ ControllerInv(c)

(* The facts about the table that steps need in nearly every case.          *)
LEMMA TableFacts ==
  ASSUME NEW c, Alone(c)
  PROVE  /\ c \in Controllers /\ rows \in Seq(RowSet) /\ exch[c] \in Seq(OrderSet)
         /\ Len(rows) \in Nat /\ Len(exch[c]) = Len(rows)
         /\ DOMAIN rows = 1..Len(rows) /\ DOMAIN exch[c] = DOMAIN rows
         /\ \A x \in DOMAIN rows :
               /\ x \in Nat /\ rows[x] \in RowSet /\ exch[c][x] \in OrderSet
               /\ rows[x].status \in OpenStatuses \cup DoneStatuses
               /\ Truth(c, x) \in {"NEW"} \cup DoneStatuses
<1>1. c \in Controllers /\ rows \in Seq(RowSet) /\ exch[c] \in Seq(OrderSet)
  BY DEF Alone, TableTypeOK
<1>2. Len(exch[c]) = Len(rows)
  BY DEF Alone, ControllerInv, RowsAreOrders
<1>3. Len(rows) \in Nat /\ DOMAIN rows = 1..Len(rows) /\ DOMAIN exch[c] = DOMAIN rows
  BY <1>1, <1>2
<1>4. \A x \in DOMAIN rows : x \in Nat /\ rows[x] \in RowSet /\ exch[c][x] \in OrderSet
  BY <1>1, <1>3
<1>5. \A x \in DOMAIN rows : /\ rows[x].status \in OpenStatuses \cup DoneStatuses
                             /\ Truth(c, x) \in {"NEW"} \cup DoneStatuses
  BY ONLY <1>4 DEF RowSet, OrderSet, Statuses, OpenStatuses, DoneStatuses, Truth
<1> QED BY <1>1, <1>2, <1>3, <1>4, <1>5

(* Steps that only move a thread, and none to where it needs to know        *)
(* something.                                                               *)
LEMMA MovesKeep ==
  ASSUME NEW c, Alone(c), UNCHANGED <<mode, walletVars, rows, pollVars, applied>>,
         \A t \in Threads :
            pc'[c][t] \in {"poll", "save", "cancelSave"} => pc'[c][t] = pc[c][t]
  PROVE  /\ TableTypeOK'
         /\ RowsAreOrders(c)' /\ RowsAreTrue(c)' /\ KnowledgeIsTrue(c)'
         /\ FillsAreApplied(c)' /\ EachFillOnce(c)'
<1> USE DEF Alone, ControllerInv, walletVars, pollVars
<1>1. TableTypeOK'
  BY DEF TableTypeOK
<1>2. RowsAreOrders(c)' /\ RowsAreTrue(c)'
  BY DEF RowsAreOrders, RowsAreTrue, Truth, Same
<1>3. KnowledgeIsTrue(c)'
  BY DEF KnowledgeIsTrue, TruePolled, TrueChange, TrueCancel, Truth
<1>4. FillsAreApplied(c)'
  BY DEF FillsAreApplied, Truth
<1>5. EachFillOnce(c)'
  <2>1. pc'[c].bot \in {"poll", "save"} => pc'[c].bot = pc[c].bot
    BY DEF Threads
  <2> QED BY <2>1 DEF EachFillOnce, Distinct
<1> QED BY <1>1, <1>2, <1>3, <1>4, <1>5

LEMMA StrategyReturnsKeeps ==
  ASSUME NEW c, Alone(c), StrategyReturns(c)
  PROVE  Alone(c)'
<1> USE DEF StrategyReturns, At, Goto, Alone, ControllerInv
<1>1. /\ pc'[c].bot = "candle" /\ pc[c].bot = "strategy" /\ pc'[c].ticker = pc[c].ticker
      /\ ThreadTypeOK'
  BY DEF ThreadTypeOK, Threads, BotPCs, UpdatePCs, pollVars
<1>2. RestIsDone(c)'
  BY <1>1 DEF RestIsDone, Threads, pollVars
<1>3. BotSettles(c)'
  BY <1>1 DEF BotSettles, Same, Truth, walletVars, pollVars
<1>4. \A t \in Threads : pc'[c][t] \in {"poll", "save", "cancelSave"} => pc'[c][t] = pc[c][t]
  BY <1>1 DEF Threads
<1> QED BY <1>1, <1>2, <1>3, <1>4, MovesKeep

LEMMA TickKeeps ==
  ASSUME NEW c, Alone(c), Tick(c)
  PROVE  Alone(c)'
<1> USE DEF Tick, At, Goto, Alone, ControllerInv
<1>1. /\ pc'[c].ticker = "fetch" /\ pc[c].ticker = "idle" /\ pc'[c].bot = pc[c].bot
      /\ ThreadTypeOK'
  BY DEF ThreadTypeOK, Threads, BotPCs, UpdatePCs, pollVars
<1>2. RestIsDone(c)'
  BY <1>1 DEF RestIsDone, Threads, pollVars
<1>3. BotSettles(c)'
  BY <1>1 DEF BotSettles, Same, Truth, walletVars, pollVars
<1>4. \A t \in Threads : pc'[c][t] \in {"poll", "save", "cancelSave"} => pc'[c][t] = pc[c][t]
  BY <1>1 DEF Threads
<1> QED BY <1>1, <1>2, <1>3, <1>4, MovesKeep

LEMMA StopKeeps ==
  ASSUME NEW c, Alone(c), Stop(c)
  PROVE  Alone(c)'
<1> USE DEF Stop, At, Goto, Alone, ControllerInv
<1>1. /\ pc[c].bot = "candle" /\ pc'[c].ticker = pc[c].ticker
      /\ pc'[c].bot = IF mode[c] = "live" THEN "fetch" ELSE "stopped"
      /\ ThreadTypeOK'
  BY DEF ThreadTypeOK, Threads, BotPCs, UpdatePCs, pollVars, StopEntry
<1>2. mode[c] \in {"live", "backtest"} /\ mode' = mode
  BY DEF TableTypeOK
<1>3. RestIsDone(c)'
  BY <1>1, <1>2 DEF RestIsDone, Threads, pollVars
<1>4. BotSettles(c)'
  BY <1>1, <1>2 DEF BotSettles, Same, Truth, walletVars, pollVars
<1>5. \A t \in Threads : pc'[c][t] \in {"poll", "save", "cancelSave"} => pc'[c][t] = pc[c][t]
  BY <1>1 DEF Threads
<1> QED BY <1>1, <1>3, <1>4, <1>5, MovesKeep

LEMMA FinishKeeps ==
  ASSUME NEW c, Alone(c), Finish(c)
  PROVE  Alone(c)'
<1> USE DEF Finish, At, Alone, ControllerInv
<1>1. /\ pc[c].bot = "finish" /\ pc[c].ticker = "idle"
      /\ pc'[c].bot = "stopped" /\ pc'[c].ticker = "off"
      /\ ThreadTypeOK'
  BY DEF ThreadTypeOK, Threads, BotPCs, UpdatePCs, pollVars
<1>2. RestIsDone(c)'
  BY <1>1 DEF RestIsDone, Threads, pollVars
<1>3. BotSettles(c)'
  BY <1>1 DEF BotSettles, Same, Truth, walletVars, pollVars
<1>4. \A t \in Threads : pc'[c][t] \in {"poll", "save", "cancelSave"} => pc'[c][t] = pc[c][t]
  BY <1>1 DEF Threads
<1> QED BY <1>1, <1>2, <1>3, <1>4, MovesKeep

LEMMA LockKeeps ==
  ASSUME NEW c, Alone(c), NEW t \in Threads, Lock(c, t)
  PROVE  Alone(c)'
<1> USE DEF Lock, At, Goto, Alone, ControllerInv
<1>1. /\ pc[c][t] = "poll" /\ pc'[c][t] = "process" /\ todo[c][t] = <<>>
      /\ \A u \in Threads : u # t => pc'[c][u] = pc[c][u]
      /\ ThreadTypeOK'
  BY DEF ThreadTypeOK, Threads, BotPCs, UpdatePCs, pollVars
<1>2. RestIsDone(c)'
  BY <1>1 DEF RestIsDone, Threads, pollVars
<1>3. BotSettles(c)'
  <2>1. ~\E o \in ToSet(<<>>) : TRUE
    BY DEF ToSet
  <2> QED BY <1>1, <2>1 DEF BotSettles, Same, Truth, walletVars, pollVars, Threads
<1>4. \A u \in Threads : pc'[c][u] \in {"poll", "save", "cancelSave"} => pc'[c][u] = pc[c][u]
  BY <1>1 DEF Threads
<1> QED BY <1>1, <1>2, <1>3, <1>4, MovesKeep

LEMMA UnlockKeeps ==
  ASSUME NEW c, Alone(c), NEW t \in Threads, Unlock(c, t)
  PROVE  Alone(c)'
<1> USE DEF Unlock, At, Goto, Alone, ControllerInv
<1>1. /\ pc[c][t] = "process" /\ pc'[c][t] = AfterUpdate(c, t) /\ updated[c][t] = <<>>
      /\ \A u \in Threads : u # t => pc'[c][u] = pc[c][u]
      /\ t = "ticker" => AfterUpdate(c, t) = "idle"
      /\ t = "bot" => AfterUpdate(c, t) = IF mode[c] = "backtest" THEN "strategy" ELSE "finish"
      /\ ThreadTypeOK'
  BY DEF ThreadTypeOK, Threads, BotPCs, UpdatePCs, pollVars, AfterUpdate
<1>2. RestIsDone(c)'
  BY <1>1 DEF RestIsDone, Threads, pollVars
<1>3. BotSettles(c)'
  BY <1>1 DEF BotSettles, Same, Truth, walletVars, pollVars, Threads
<1>4. \A u \in Threads : pc'[c][u] \in {"poll", "save", "cancelSave"} => pc'[c][u] = pc[c][u]
  BY <1>1 DEF Threads
<1> QED BY <1>1, <1>2, <1>3, <1>4, MovesKeep

-----------------------------------------------------------------------------
(* updateOrders.                                                            *)

LEMMA FetchKeeps ==
  ASSUME NEW c, Alone(c), NEW t \in Threads, Fetch(c, t)
  PROVE  Alone(c)'
<1> USE DEF Fetch, At, Goto, Alone, ControllerInv
<1> DEFINE Open == {x \in DOMAIN rows : rows[x].status \in OpenStatuses}
           ids == ByID(Open)
           fetched == [k \in DOMAIN ids |->
                         Known(ids[k], rows[ids[k]].xid, rows[ids[k]].status)]
<1>1. /\ pc[c][t] = "fetch" /\ pc'[c][t] = "poll" /\ c \in Controllers
      /\ \A u \in Threads : u # t => pc'[c][u] = pc[c][u]
      /\ UNCHANGED <<mode, exch, waiting, rows, lock, got, updated, applied>>
      /\ todo' = [todo EXCEPT ![c][t] = fetched]
  BY DEF ThreadTypeOK, Threads, walletVars, OpenRows, Orders, OpenStatuses
<1>2. /\ ids \in [1..Cardinality(Open) -> Open] /\ Cardinality(Open) \in Nat
      /\ \A x \in Open : \E k \in DOMAIN ids : ids[k] = x
      /\ \A j, k \in DOMAIN ids : ids[j] = ids[k] => j = k
  BY TableFacts, OrdersByID
<1>3. \A k \in DOMAIN ids :
         /\ ids[k] \in Open /\ fetched[k] \in KnownSet /\ fetched[k].id = ids[k]
         /\ fetched[k].xid = ids[k] /\ fetched[k].status = rows[ids[k]].status
  BY <1>2, TableFacts DEF Known, KnownSet, RowSet, RowsAreOrders
<1>4. /\ fetched \in Seq(KnownSet) /\ DOMAIN fetched = DOMAIN ids
      /\ \A o \in ToSet(fetched) :
            o.id \in Open /\ o.xid = o.id /\ o.status = rows[o.id].status
      /\ \A x \in Open : \E o \in ToSet(fetched) : o.id = x
  <2>1. DOMAIN fetched = DOMAIN ids /\ DOMAIN ids = 1..Cardinality(Open)
    BY <1>2
  <2>2. fetched \in [1..Cardinality(Open) -> KnownSet]
    BY <1>3, <2>1
  <2> HIDE DEF fetched, ids, Fetch, Alone
  <2>3. fetched \in Seq(KnownSet)
    BY <1>2, <2>2, SeqDef
  <2>4. ToSet(fetched) = {fetched[k] : k \in DOMAIN ids}
    BY <2>1 DEF ToSet
  <2>5. \A k \in DOMAIN ids : fetched[k] \in ToSet(fetched)
    BY <2>4
  <2>6. \A x \in Open : \E o \in ToSet(fetched) : o.id = x
    BY ONLY <1>2, <1>3, <2>5
  <2>7. \A o \in ToSet(fetched) : o.id \in Open /\ o.xid = o.id /\ o.status = rows[o.id].status
    BY ONLY <1>3, <2>4
  <2> QED BY <2>1, <2>3, <2>6, <2>7
<1>5. Distinct(fetched)
  <2> HIDE DEF ids, fetched
  <2> QED BY <1>2, <1>3, <1>4 DEF Distinct
<1>6. /\ todo'[c][t] = fetched
      /\ \A u \in Threads : u # t => todo'[c][u] = todo[c][u]
      /\ TableTypeOK' /\ ThreadTypeOK'
  <2> HIDE DEF fetched
  <2>1. TableTypeOK'
    BY <1>1 DEF TableTypeOK
  <2>2. ThreadTypeOK /\ pc' = [pc EXCEPT ![c][t] = "poll"] /\ fetched \in Seq(KnownSet)
    BY <1>4
  <2>3. todo \in [Controllers -> [Threads -> Seq(KnownSet)]]
    BY <2>2 DEF ThreadTypeOK
  <2>4. /\ todo' \in [Controllers -> [Threads -> Seq(KnownSet)]] /\ todo'[c][t] = fetched
        /\ \A u \in Threads : u # t => todo'[c][u] = todo[c][u]
    BY ONLY <1>1, <2>2, <2>3, t \in Threads
  <2>5. ThreadTypeOK'
    BY ONLY <1>1, <2>2, <2>4, t \in Threads DEF ThreadTypeOK, Threads, BotPCs, UpdatePCs
  <2> QED BY <2>1, <2>4, <2>5
<1> HIDE DEF fetched, ids
<1>7. RowsAreOrders(c)' /\ RowsAreTrue(c)' /\ FillsAreApplied(c)'
  BY <1>1 DEF RowsAreOrders, RowsAreTrue, Truth, Same, FillsAreApplied
<1>8. KnowledgeIsTrue(c)'
  <2>1. \A o \in ToSet(fetched) : TruePolled(c, o)
    BY <1>4 DEF TruePolled, RowsAreTrue
  <2> QED BY <1>1, <1>6, <2>1 DEF KnowledgeIsTrue, TruePolled, TrueChange, TrueCancel, Truth, Threads
<1>9. RestIsDone(c)'
  BY <1>1 DEF RestIsDone, Threads
<1>10. BotSettles(c)'
  <2>1. \A x \in DOMAIN rows : Same(c, x) \/ x \in Open
    BY TableFacts DEF RowsAreTrue
  <2>2. CASE t = "bot"
    BY <1>1, <1>4, <1>6, <2>1, <2>2 DEF BotSettles, Same, Truth
  <2>3. CASE t = "ticker"
    BY <1>1, <1>6, <2>3 DEF BotSettles, Same, Truth, Threads
  <2> QED BY <2>2, <2>3 DEF Threads
<1>11. EachFillOnce(c)'
  <2>2. CASE t = "bot"
    BY <1>1, <1>4, <1>5, <1>6, <2>2 DEF EachFillOnce
  <2>3. CASE t = "ticker"
    BY <1>1, <1>6, <2>3 DEF EachFillOnce, RestIsDone, Threads
  <2> QED BY <2>2, <2>3 DEF Threads
<1> QED BY <1>6, <1>7, <1>8, <1>9, <1>10, <1>11

LEMMA PollKeeps ==
  ASSUME NEW c, Alone(c), NEW t \in Threads, Poll(c, t)
  PROVE  Alone(c)'
<1> USE DEF Poll, At, Goto, Alone, ControllerInv
<1> DEFINE o == Head(todo[c][t])
           rest == Tail(todo[c][t])
<1>1. /\ c \in Controllers /\ todo[c][t] \in Seq(KnownSet) /\ todo[c][t] # <<>>
      /\ o \in KnownSet /\ rest \in Seq(KnownSet)
      /\ ToSet(todo[c][t]) = {o} \cup ToSet(rest)
      /\ Distinct(todo[c][t]) => Distinct(rest) /\ \A p \in ToSet(rest) : p.id # o.id
  BY HeadAndTail DEF ThreadTypeOK
<1>2. o.id \in DOMAIN rows /\ o.xid = o.id /\ o.status \in OpenStatuses
      /\ (o.status = "PENDING_CANCEL" => Truth(c, o.id) = "CANCELED")
  BY <1>1 DEF KnowledgeIsTrue, TruePolled
<1>3. Changed(c, o) <=> Truth(c, o.id) # o.status
  BY <1>2, TableFacts DEF Changed, Truth
<1> DEFINE found == Known(o.id, o.xid, Truth(c, o.id))
<1>4. /\ UNCHANGED <<mode, exch, waiting, rows, lock, updated, applied>>
      /\ pc[c][t] = "poll" /\ todo' = [todo EXCEPT ![c][t] = rest]
      /\ Changed(c, o) => got' = [got EXCEPT ![c][t] = found] /\ pc' = [pc EXCEPT ![c][t] = "save"]
      /\ ~Changed(c, o) => got' = got /\ pc' = pc
  BY <1>2 DEF Truth, walletVars
<1>5. /\ found \in KnownSet /\ found.id = o.id /\ found.xid = o.id /\ found.status = Truth(c, o.id)
  BY <1>1, <1>2, TableFacts DEF Known, KnownSet, Statuses, DoneStatuses
<1>6. Changed(c, o) => TrueChange(c, found)
  BY <1>2, <1>3, <1>5, TableFacts DEF TrueChange, OpenStatuses, DoneStatuses
<1>7. ~Changed(c, o) => Same(c, o.id)
  BY <1>2, <1>3, TableFacts DEF Same, RowsAreTrue, OpenStatuses, DoneStatuses
<1> HIDE DEF found, o, rest
<1>8. TableTypeOK'
  BY <1>4 DEF TableTypeOK
<1>9. /\ ThreadTypeOK'
      /\ todo'[c][t] = rest /\ \A u \in Threads : u # t => todo'[c][u] = todo[c][u]
  BY <1>1, <1>4, <1>5 DEF ThreadTypeOK, Threads, BotPCs, UpdatePCs
<1>10. /\ \A u \in Threads : u # t => pc'[c][u] = pc[c][u] /\ got'[c][u] = got[c][u]
       /\ Changed(c, o) => pc'[c][t] = "save" /\ got'[c][t] = found
       /\ ~Changed(c, o) => pc'[c][t] = "poll"
  BY <1>1, <1>4 DEF ThreadTypeOK, Threads
<1>11. RowsAreOrders(c)' /\ RowsAreTrue(c)' /\ FillsAreApplied(c)'
  BY <1>4 DEF RowsAreOrders, RowsAreTrue, Truth, Same, FillsAreApplied
<1>12. KnowledgeIsTrue(c)'
  <2>1. KnowledgeIsTrue(c)
    OBVIOUS
  <2> QED BY ONLY <1>1, <1>4, <1>6, <1>9, <1>10, <2>1
          DEF KnowledgeIsTrue, TruePolled, TrueChange, TrueCancel, Truth
<1>13. RestIsDone(c)'
  BY <1>4, <1>10 DEF RestIsDone, Threads
<1>14. BotSettles(c)'
  <2>1. CASE t = "bot"
    BY <1>1, <1>4, <1>5, <1>7, <1>9, <1>10, <2>1 DEF BotSettles, Same, Truth
  <2>2. CASE t = "ticker"
    BY <1>4, <1>9, <1>10, <2>2 DEF BotSettles, Same, Truth, Threads
  <2> QED BY <2>1, <2>2 DEF Threads
<1>15. EachFillOnce(c)'
  <2>0. EachFillOnce(c) /\ RestIsDone(c)
    OBVIOUS
  <2>1. CASE t = "bot"
    <3>1. mode[c] = "backtest" =>
            /\ Distinct(rest) /\ \A p \in ToSet(rest) : p.id # o.id
            /\ rows[o.id].status \in OpenStatuses
            /\ \A p \in ToSet(rest) : rows[p.id].status \in OpenStatuses
      BY ONLY <1>1, <1>4, <2>0, <2>1 DEF EachFillOnce
    <3> QED BY ONLY <1>1, <1>4, <1>5, <1>9, <1>10, <2>0, <2>1, <3>1 DEF EachFillOnce
  <2>2. CASE t = "ticker"
    BY ONLY <1>1, <1>4, <1>9, <1>10, <2>0, <2>2 DEF EachFillOnce, RestIsDone, Threads
  <2> QED BY <2>1, <2>2 DEF Threads
<1> QED BY <1>8, <1>9, <1>11, <1>12, <1>13, <1>14, <1>15

LEMMA SaveKeeps ==
  ASSUME NEW c, Alone(c), NEW t \in Threads, Save(c, t)
  PROVE  Alone(c)'
<1> DEFINE o   == got[c][t]
           row == Row(c, o.xid, o.status, FALSE)
<1>0. /\ Controllers = {c} /\ TableTypeOK /\ ThreadTypeOK
      /\ RowsAreOrders(c) /\ RowsAreTrue(c) /\ KnowledgeIsTrue(c) /\ RestIsDone(c)
      /\ FillsAreApplied(c) /\ BotSettles(c) /\ EachFillOnce(c)
  BY DEF Alone, ControllerInv
<1>1. /\ UNCHANGED <<mode, exch, waiting, lock, todo, applied>>
      /\ pc[c][t] = "save" /\ pc' = [pc EXCEPT ![c][t] = "poll"]
      /\ rows' = [rows EXCEPT ![o.id] = row]
      /\ updated' = [updated EXCEPT ![c][t] = Append(@, o)]
      /\ got' = [got EXCEPT ![c][t] = Nothing]
  BY DEF Save, At, Goto, Saved, Overwritten, walletVars
<1>2. o \in KnownSet /\ TrueChange(c, o) /\ o.id \in DOMAIN rows /\ o.xid = o.id
  BY <1>0, <1>1 DEF ThreadTypeOK, KnowledgeIsTrue, TrueChange
<1>3. row \in RowSet /\ row.status = o.status /\ row.session = c /\ row.xid = o.id
  BY <1>0, <1>2 DEF Row, RowSet, KnownSet
<1> HIDE DEF row, o
<1>4. /\ rows' \in Seq(RowSet) /\ Len(rows') = Len(rows) /\ DOMAIN rows' = DOMAIN rows
      /\ rows'[o.id] = row /\ \A x \in DOMAIN rows : x # o.id => rows'[x] = rows[x]
  BY <1>1, <1>2, <1>3, TableFacts, OneRowWritten
<1>5. /\ c \in Controllers /\ updated[c][t] \in Seq(KnownSet)
      /\ updated'[c][t] = Append(updated[c][t], o)
      /\ Append(updated[c][t], o) \in Seq(KnownSet)
      /\ ToSet(updated'[c][t]) = ToSet(updated[c][t]) \cup {o}
      /\ \A u \in Threads : u # t =>
            pc'[c][u] = pc[c][u] /\ updated'[c][u] = updated[c][u] /\ got'[c][u] = got[c][u]
      /\ pc'[c][t] = "poll"
  BY <1>0, <1>1, <1>2, ElementsOfAppend DEF ThreadTypeOK, Threads
<1>6. Nothing \in KnownSet
  BY DEF Nothing, Known, KnownSet, Statuses
<1>7. TableTypeOK'
  BY ONLY <1>0, <1>1, <1>4 DEF TableTypeOK
<1>8. ThreadTypeOK'
  BY ONLY <1>0, <1>1, <1>5, <1>6, t \in Threads DEF ThreadTypeOK, Threads, BotPCs, UpdatePCs
<1>9. o.status = Truth(c, o.id) /\ o.status \in DoneStatuses
  BY <1>2 DEF TrueChange
<1>10. RowsAreOrders(c)'
  BY ONLY <1>0, <1>1, <1>3, <1>4 DEF RowsAreOrders, Truth
<1>11. RowsAreTrue(c)'
  BY ONLY <1>0, <1>1, <1>3, <1>4, <1>9 DEF RowsAreTrue, Truth, Same, DoneStatuses
<1>12. KnowledgeIsTrue(c)'
  BY ONLY <1>0, <1>1, <1>2, <1>4, <1>5
     DEF KnowledgeIsTrue, TruePolled, TrueChange, TrueCancel, Truth
<1>13. RestIsDone(c)'
  BY ONLY <1>0, <1>1, <1>5, t \in Threads DEF RestIsDone, Threads
<1>14. FillsAreApplied(c)'
  <2>1. \A x \in ToSet(applied'[c]) : x \in DOMAIN rows' /\ Truth(c, x)' = "FILLED"
    BY ONLY <1>0, <1>1, <1>4 DEF FillsAreApplied, Truth
  <2>2. ASSUME NEW x \in DOMAIN rows', rows'[x].status = "FILLED"
        PROVE  \/ x \in ToSet(applied'[c])
               \/ \E u \in Threads : \E p \in ToSet(updated'[c][u]) : p.id = x
    <3>1. CASE x = o.id
      BY <1>5, <3>1
    <3>2. CASE x # o.id
      <4>1. rows[x].status = "FILLED" /\ x \in DOMAIN rows
        BY ONLY <1>4, <2>2, <3>2
      <4>2. \A u \in Threads : ToSet(updated[c][u]) \subseteq ToSet(updated'[c][u])
        BY ONLY <1>5
      <4> QED BY ONLY <1>0, <1>1, <4>1, <4>2 DEF FillsAreApplied
    <3> QED BY <3>1, <3>2
  <2> QED BY <2>1, <2>2 DEF FillsAreApplied
<1>15. BotSettles(c)'
  <2>1. \A x \in DOMAIN rows : Same(c, x) \/ x = o.id => Same(c, x)'
    BY ONLY <1>1, <1>3, <1>4, <1>9 DEF Same, Truth
  <2>2. CASE t = "bot"
    <3>1. \A x \in DOMAIN rows :
             Same(c, x) \/ (\E p \in ToSet(todo[c]["bot"]) : p.id = x) \/ x = o.id
      BY ONLY <1>0, <1>1, <2>2 DEF BotSettles, o
    <3> QED BY ONLY <1>1, <1>4, <1>5, <2>1, <2>2, <3>1 DEF BotSettles
  <2>3. CASE t = "ticker"
    BY ONLY <1>0, <1>1, <1>4, <1>5, <2>1, <2>3 DEF BotSettles, RestIsDone, Threads
  <2> QED BY <2>2, <2>3 DEF Threads
<1>16. EachFillOnce(c)'
  <2>2. CASE t = "bot"
    <3> SUFFICES ASSUME mode[c] = "backtest" PROVE EachFillOnce(c)'
      BY <1>1 DEF EachFillOnce
    <3>1. /\ IsInjective(applied[c]) /\ Distinct(updated[c]["bot"]) /\ Distinct(todo[c]["bot"])
          /\ \A x \in ToSet(applied[c]) : rows[x].status = "FILLED"
          /\ \A p \in ToSet(updated[c]["bot"]) :
                rows[p.id].status = p.status /\ p.id \notin ToSet(applied[c])
          /\ \A p \in ToSet(todo[c]["bot"]) :
                rows[p.id].status \in OpenStatuses /\ p.id # o.id
          /\ rows[o.id].status \in OpenStatuses
      BY <1>0, <1>1, <2>2 DEF EachFillOnce, o
    <3>2. \A p \in ToSet(updated[c]["bot"]) : p.status \in DoneStatuses /\ p.id \in DOMAIN rows
      BY <1>0, <2>2 DEF KnowledgeIsTrue, TrueChange
    <3>3. \A p \in ToSet(updated[c]["bot"]) : p.id # o.id
      BY ONLY <3>1, <3>2 DEF OpenStatuses, DoneStatuses
    <3>4. o.id \notin ToSet(applied[c]) /\ \A x \in ToSet(applied[c]) : x \in DOMAIN rows
      BY ONLY <1>0, <3>1 DEF OpenStatuses, FillsAreApplied
    <3>5. Distinct(updated'[c]["bot"])
      BY <1>2, <1>5, <2>2, <3>1, <3>3, DistinctAppend
    <3>6. \A p \in ToSet(todo[c]["bot"]) : p.id \in DOMAIN rows
      BY <1>0, <2>2 DEF KnowledgeIsTrue, TruePolled
    <3> QED BY ONLY <1>1, <1>3, <1>4, <1>5, <2>2, <3>1, <3>2, <3>3, <3>4, <3>5, <3>6 DEF EachFillOnce
  <2>3. CASE t = "ticker"
    BY ONLY <1>0, <1>1, <2>3 DEF EachFillOnce, RestIsDone
  <2> QED BY <2>2, <2>3 DEF Threads
<1> QED BY <1>0, <1>7, <1>8, <1>10, <1>11, <1>12, <1>13, <1>14, <1>15, <1>16 DEF Alone, ControllerInv

LEMMA ProcessKeeps ==
  ASSUME NEW c, Alone(c), NEW t \in Threads, Process(c, t)
  PROVE  Alone(c)'
<1> DEFINE o    == Head(updated[c][t])
           rest == Tail(updated[c][t])
           gain == o.status = "FILLED" /\ Realizes(c, exch[c][o.xid].side)
           row  == Row(c, o.xid, o.status, TRUE)
<1>0. /\ Controllers = {c} /\ TableTypeOK /\ ThreadTypeOK
      /\ RowsAreOrders(c) /\ RowsAreTrue(c) /\ KnowledgeIsTrue(c) /\ RestIsDone(c)
      /\ FillsAreApplied(c) /\ BotSettles(c) /\ EachFillOnce(c)
  BY DEF Alone, ControllerInv
<1>1. /\ UNCHANGED <<mode, exch, waiting, lock, pc, todo, got>>
      /\ pc[c][t] = "process" /\ updated[c][t] # <<>>
      /\ rows' = IF gain THEN [rows EXCEPT ![o.id] = row] ELSE rows
      /\ updated' = [updated EXCEPT ![c][t] = rest]
      /\ applied' = IF o.status = "FILLED" THEN [applied EXCEPT ![c] = Append(@, o.xid)]
                                           ELSE applied
  BY DEF Process, At, Overwritten, walletVars
<1>2. /\ c \in Controllers /\ updated[c][t] \in Seq(KnownSet) /\ applied[c] \in Seq(Nat)
      /\ o \in KnownSet /\ rest \in Seq(KnownSet)
      /\ ToSet(updated[c][t]) = {o} \cup ToSet(rest)
      /\ Distinct(updated[c][t]) => Distinct(rest) /\ \A p \in ToSet(rest) : p.id # o.id
  BY <1>0, <1>1, HeadAndTail DEF ThreadTypeOK, TableTypeOK
<1>3. /\ o.id \in DOMAIN rows /\ o.xid = o.id /\ o.id \in Nat
      /\ o.status = Truth(c, o.id) /\ o.status \in DoneStatuses
  BY <1>0, <1>2, TableFacts DEF KnowledgeIsTrue, TrueChange
<1>4. row \in RowSet /\ row.status = o.status /\ row.session = c /\ row.xid = o.id
  BY <1>0, <1>2, <1>3 DEF Row, RowSet, KnownSet
<1> HIDE DEF row, gain, rest, o
<1>5. /\ rows' \in Seq(RowSet) /\ Len(rows') = Len(rows) /\ DOMAIN rows' = DOMAIN rows
      /\ rows'[o.id] = row \/ rows'[o.id] = rows[o.id]
      /\ \A x \in DOMAIN rows : x # o.id => rows'[x] = rows[x]
  BY <1>1, <1>3, <1>4, TableFacts, OneRowWritten
<1>6. /\ updated'[c][t] = rest
      /\ \A u \in Threads : u # t => updated'[c][u] = updated[c][u]
      /\ applied'[c] = IF o.status = "FILLED" THEN Append(applied[c], o.id) ELSE applied[c]
      /\ ToSet(applied'[c]) = IF o.status = "FILLED" THEN ToSet(applied[c]) \cup {o.id}
                                                     ELSE ToSet(applied[c])
      /\ Append(applied[c], o.id) \in Seq(Nat)
  <2>1. /\ updated \in [Controllers -> [Threads -> Seq(KnownSet)]]
        /\ applied \in [Controllers -> Seq(Nat)]
    BY <1>0 DEF ThreadTypeOK, TableTypeOK
  <2>2. updated'[c][t] = rest /\ \A u \in Threads : u # t => updated'[c][u] = updated[c][u]
    BY ONLY <1>1, <1>2, <2>1, t \in Threads
  <2>3. /\ Append(applied[c], o.id) \in Seq(Nat)
        /\ ToSet(Append(applied[c], o.id)) = ToSet(applied[c]) \cup {o.id}
    <3>1. applied[c] \in Seq(Nat) /\ o.id \in Nat
      BY <1>2, <1>3
    <3> QED BY ONLY <3>1, ElementsOfAppend
  <2>4. applied'[c] = IF o.status = "FILLED" THEN Append(applied[c], o.id) ELSE applied[c]
    BY ONLY <1>1, <1>2, <1>3, <2>1
  <2> QED BY ONLY <2>2, <2>3, <2>4
<1>7. TableTypeOK'
  BY ONLY <1>0, <1>1, <1>5, <1>6 DEF TableTypeOK
<1>8. ThreadTypeOK'
  BY ONLY <1>0, <1>1, <1>2, t \in Threads DEF ThreadTypeOK
<1>9. /\ \A x \in DOMAIN rows : rows'[x].session = rows[x].session \/ rows'[x].session = c
      /\ \A x \in DOMAIN rows : rows'[x].xid = rows[x].xid \/ (x = o.id /\ rows'[x].xid = x)
      /\ \A x \in DOMAIN rows : rows'[x].status = rows[x].status \/ rows'[x].status = Truth(c, x)
      /\ rows[o.id].status = o.status => rows'[o.id].status = o.status
  BY ONLY <1>3, <1>4, <1>5
<1>10. RowsAreOrders(c)'
  BY ONLY <1>0, <1>1, <1>5, <1>9 DEF RowsAreOrders, Truth
<1>11. RowsAreTrue(c)'
  <2>1. \A x \in DOMAIN rows : Truth(c, x) # "PENDING_CANCEL"
    BY TableFacts DEF DoneStatuses
  <2> QED BY ONLY <1>0, <1>1, <1>5, <1>9, <2>1 DEF RowsAreTrue, Truth, Same
<1>12. KnowledgeIsTrue(c)'
  BY ONLY <1>0, <1>1, <1>2, <1>5, <1>6
     DEF KnowledgeIsTrue, TruePolled, TrueChange, TrueCancel, Truth
<1>13. RestIsDone(c)'
  BY ONLY <1>0, <1>1, <1>6, t \in Threads DEF RestIsDone
<1>14. FillsAreApplied(c)'
  <2>1. \A x \in ToSet(applied'[c]) : x \in DOMAIN rows' /\ Truth(c, x)' = "FILLED"
    BY ONLY <1>0, <1>1, <1>3, <1>5, <1>6 DEF FillsAreApplied, Truth
  <2>2. ASSUME NEW x \in DOMAIN rows', rows'[x].status = "FILLED"
        PROVE  \/ x \in ToSet(applied'[c])
               \/ \E u \in Threads : \E p \in ToSet(updated'[c][u]) : p.id = x
    <3>1. CASE x = o.id
      <4>1. o.status = "FILLED"
        BY ONLY <1>1, <1>3, <1>11, <2>2, <3>1 DEF RowsAreTrue, Same, Truth, DoneStatuses
      <4> QED BY <1>6, <3>1, <4>1
    <3>2. CASE x # o.id
      <4>1. rows[x].status = "FILLED" /\ x \in DOMAIN rows
        BY ONLY <1>5, <2>2, <3>2
      <4>2. \A u \in Threads : \A p \in ToSet(updated[c][u]) : p.id = x => p \in ToSet(updated'[c][u])
        BY ONLY <1>2, <1>6, <3>2
      <4> QED BY ONLY <1>0, <1>6, <4>1, <4>2 DEF FillsAreApplied
    <3> QED BY <3>1, <3>2
  <2> QED BY <2>1, <2>2 DEF FillsAreApplied
<1>15. BotSettles(c)'
  <2>1. \A x \in DOMAIN rows : Same(c, x) => Same(c, x)'
    BY ONLY <1>1, <1>5, <1>9 DEF Same, Truth
  <2>2. \A x \in DOMAIN rows :
           rows[x].status = "PENDING_CANCEL" => rows'[x].status = "PENDING_CANCEL" \/ Same(c, x)'
    BY ONLY <1>1, <1>5, <1>9 DEF Same, Truth
  <2> QED BY ONLY <1>0, <1>1, <1>5, <2>1, <2>2 DEF BotSettles
<1>16. EachFillOnce(c)'
  <2>2. CASE t = "bot"
    <3> SUFFICES ASSUME mode[c] = "backtest" PROVE EachFillOnce(c)'
      BY <1>1 DEF EachFillOnce
    <3>1. /\ IsInjective(applied[c]) /\ Distinct(updated[c]["bot"])
          /\ \A x \in ToSet(applied[c]) : rows[x].status = "FILLED"
          /\ \A p \in ToSet(updated[c]["bot"]) :
                rows[p.id].status = p.status /\ p.id \notin ToSet(applied[c])
      BY <1>0, <2>2 DEF EachFillOnce
    <3>2. Distinct(rest) /\ \A p \in ToSet(rest) : p.id # o.id
      BY <1>2, <2>2, <3>1
    <3>3. rows'[o.id].status = o.status /\ o.id \notin ToSet(applied[c])
      BY <1>2, <1>9, <2>2, <3>1
    <3>4. IsInjective(applied'[c])
      BY <1>2, <1>3, <1>6, <3>1, <3>3, InjectiveAppend
    <3>5. \A x \in ToSet(applied'[c]) : rows'[x].status = "FILLED"
      BY ONLY <1>0, <1>5, <1>6, <3>1, <3>3 DEF FillsAreApplied
    <3>6. \A p \in ToSet(rest) : rows'[p.id].status = p.status /\ p.id \notin ToSet(applied'[c])
      <4>1. \A p \in ToSet(rest) : p.id \in DOMAIN rows
        BY <1>0, <1>2 DEF KnowledgeIsTrue, TrueChange
      <4> QED BY ONLY <1>2, <1>5, <1>6, <2>2, <3>1, <3>2, <4>1
    <3>7. pc'[c].bot = "process"
      BY <1>1, <2>2
    <3> QED BY ONLY <1>6, <2>2, <3>2, <3>4, <3>5, <3>6, <3>7 DEF EachFillOnce
  <2>3. CASE t = "ticker"
    BY ONLY <1>0, <1>1, <2>3 DEF EachFillOnce, RestIsDone
  <2> QED BY <2>2, <2>3 DEF Threads
<1> QED BY <1>0, <1>7, <1>8, <1>10, <1>11, <1>12, <1>13, <1>14, <1>15, <1>16 DEF Alone, ControllerInv

-----------------------------------------------------------------------------
(* The steps of the wallet and of the strategy.                             *)

LEMMA OnCandleKeeps ==
  ASSUME NEW c, Alone(c), OnCandle(c)
  PROVE  Alone(c)'
<1>0. /\ Controllers = {c} /\ TableTypeOK /\ ThreadTypeOK
      /\ RowsAreOrders(c) /\ RowsAreTrue(c) /\ KnowledgeIsTrue(c) /\ RestIsDone(c)
      /\ FillsAreApplied(c) /\ BotSettles(c) /\ EachFillOnce(c)
  BY DEF Alone, ControllerInv
<1>1. PICK filled \in SUBSET waiting[c], cancelled \in SUBSET waiting[c],
           kept \in SUBSET waiting[c] : kept \subseteq cancelled /\ Candle(c, filled, cancelled, kept)
  BY DEF OnCandle
<1> DEFINE next == IF mode[c] = "backtest" /\ waiting[c] # {} THEN "fetch" ELSE "strategy"
           after == [x \in DOMAIN exch[c] |->
              CASE x \in filled -> [exch[c][x] EXCEPT !.status = "FILLED"]
                [] x \in cancelled -> [exch[c][x] EXCEPT !.status = "CANCELED"]
                [] OTHER -> exch[c][x]]
           left == {x \in waiting[c] : exch[c][x].status = "NEW" /\ x \notin filled \cup cancelled}
                      \cup kept
<1>2. /\ UNCHANGED <<mode, rows, lock, todo, got, updated, applied>>
      /\ pc[c].bot = "candle" /\ pc' = [pc EXCEPT ![c]["bot"] = next]
      /\ \A x \in filled \cup cancelled : Truth(c, x) = "NEW"
      /\ exch' = [exch EXCEPT ![c] = after]
      /\ waiting' = [waiting EXCEPT ![c] = left]
  BY <1>1 DEF OnCandle, Candle, At, Goto, Truth, pollVars, HasPendingOrders
<1>3. /\ c \in Controllers /\ DOMAIN after = DOMAIN rows /\ DOMAIN rows = 1..Len(rows)
      /\ Len(rows) \in Nat
      /\ \A x \in DOMAIN rows : after[x] \in OrderSet /\ after[x].status =
            CASE x \in filled -> "FILLED" [] x \in cancelled -> "CANCELED" [] OTHER -> Truth(c, x)
  <2>1. c \in Controllers /\ DOMAIN after = DOMAIN rows /\ DOMAIN rows = 1..Len(rows)
      /\ Len(rows) \in Nat
    BY TableFacts
  <2>2. ASSUME NEW x \in DOMAIN rows
        PROVE after[x] \in OrderSet /\ after[x].status =
            CASE x \in filled -> "FILLED" [] x \in cancelled -> "CANCELED" [] OTHER -> Truth(c, x)
    <3>1. exch[c][x] \in OrderSet /\ x \in DOMAIN exch[c]
      BY TableFacts
    <3> QED BY <3>1 DEF OrderSet, DoneStatuses, Truth
  <2> QED BY <2>1, <2>2
<1> HIDE DEF after, next, left
<1>4. after \in Seq(OrderSet) /\ Len(after) = Len(rows)
  <2>1. after \in [1..Len(rows) -> OrderSet]
    BY <1>3 DEF after
  <2> QED BY <1>3, <2>1, SeqDef
<1>5. /\ exch'[c] = after /\ waiting'[c] = left /\ exch[c] \in Seq(OrderSet)
      /\ pc'[c].bot = next /\ pc'[c].ticker = pc[c].ticker
      /\ \A x \in DOMAIN rows : Truth(c, x)' = after[x].status
  BY <1>0, <1>2, <1>3 DEF TableTypeOK, ThreadTypeOK, Truth
<1>6. /\ left \subseteq DOMAIN rows /\ waiting[c] \subseteq DOMAIN rows
      /\ \A x \in DOMAIN rows : after[x].status = "NEW" => x \in left
  BY <1>0, <1>1, <1>3 DEF RowsAreOrders, left, Truth
<1>7. TableTypeOK'
  <2>1. left \in SUBSET Nat
    BY <1>3, <1>6
  <2> QED BY ONLY <1>0, <1>2, <1>4, <2>1 DEF TableTypeOK
<1>8. ThreadTypeOK'
  <2>1. next \in BotPCs \cup UpdatePCs
    BY DEF next, BotPCs, UpdatePCs
  <2> QED BY ONLY <1>0, <1>2, <2>1 DEF ThreadTypeOK
<1>9. \A x \in DOMAIN rows : Truth(c, x) # "NEW" => Truth(c, x)' = Truth(c, x)
  BY ONLY <1>2, <1>3, <1>5
<1>10. RowsAreOrders(c)'
  BY ONLY <1>0, <1>2, <1>4, <1>5, <1>6 DEF RowsAreOrders
<1>11. RowsAreTrue(c)'
  BY ONLY <1>0, <1>2, <1>9 DEF RowsAreTrue, Same, DoneStatuses
<1>12. KnowledgeIsTrue(c)'
  <2>1. \A u \in Threads : pc'[c][u] \in {"save", "cancelSave"} => pc'[c][u] = pc[c][u]
    BY ONLY <1>5 DEF Threads, next
  <2> QED BY ONLY <1>0, <1>2, <1>9, <2>1
          DEF KnowledgeIsTrue, TruePolled, TrueChange, TrueCancel, DoneStatuses
<1>13. RestIsDone(c)'
  BY ONLY <1>0, <1>2, <1>5 DEF RestIsDone, Threads, next
<1>14. FillsAreApplied(c)'
  BY ONLY <1>0, <1>2, <1>9 DEF FillsAreApplied
<1>15. BotSettles(c)'
  <2>1. CASE next = "fetch"
    BY ONLY <1>5, <2>1 DEF BotSettles
  <2>2. CASE next = "strategy" /\ mode[c] = "live"
    BY ONLY <1>2, <1>5, <2>2 DEF BotSettles
  <2>3. CASE next = "strategy" /\ mode[c] = "backtest"
    <3>1. waiting[c] = {}
      BY <2>3 DEF next
    <3>2. \A x \in DOMAIN rows : Truth(c, x)' = Truth(c, x)
      BY <1>0, <1>9, <3>1 DEF RowsAreOrders
    <3> QED BY ONLY <1>0, <1>2, <1>5, <2>3, <3>2 DEF BotSettles, Same
  <2>4. mode[c] \in {"live", "backtest"}
    BY <1>0, <1>3 DEF TableTypeOK
  <2> QED BY <2>1, <2>2, <2>3, <2>4 DEF next
<1>16. EachFillOnce(c)'
  BY ONLY <1>0, <1>2, <1>5 DEF EachFillOnce, next
<1> QED BY <1>0, <1>7, <1>8, <1>10, <1>11, <1>12, <1>13, <1>14, <1>15, <1>16 DEF Alone, ControllerInv

LEMMA CancelSaveKeeps ==
  ASSUME NEW c, Alone(c), CancelSave(c)
  PROVE  Alone(c)'
<1> DEFINE o   == got[c]["bot"]
           row == Row(c, o.xid, o.status, FALSE)
<1>0. /\ Controllers = {c} /\ TableTypeOK /\ ThreadTypeOK
      /\ RowsAreOrders(c) /\ RowsAreTrue(c) /\ KnowledgeIsTrue(c) /\ RestIsDone(c)
      /\ FillsAreApplied(c) /\ BotSettles(c) /\ EachFillOnce(c)
  BY DEF Alone, ControllerInv
<1>1. /\ UNCHANGED <<mode, exch, waiting, todo, updated, applied>>
      /\ pc[c].bot = "cancelSave" /\ pc' = [pc EXCEPT ![c]["bot"] = "strategy"]
      /\ rows' = [rows EXCEPT ![o.id] = row]
      /\ lock' = [lock EXCEPT ![c] = "free"]
      /\ got' = [got EXCEPT ![c]["bot"] = Nothing]
  BY DEF CancelSave, At, Goto, Overwritten, walletVars
<1>2. /\ o \in KnownSet /\ o.id \in DOMAIN rows /\ o.xid = o.id
      /\ o.status = "PENDING_CANCEL" /\ Truth(c, o.id) = "CANCELED"
  BY <1>0, <1>1 DEF ThreadTypeOK, KnowledgeIsTrue, TrueCancel, Threads
<1>3. row \in RowSet /\ row.status = o.status /\ row.session = c /\ row.xid = o.id
  BY <1>0, <1>2 DEF Row, RowSet, KnownSet
<1> HIDE DEF row, o
<1>4. /\ rows' \in Seq(RowSet) /\ Len(rows') = Len(rows) /\ DOMAIN rows' = DOMAIN rows
      /\ rows'[o.id] = row /\ \A x \in DOMAIN rows : x # o.id => rows'[x] = rows[x]
  BY <1>1, <1>2, <1>3, TableFacts, OneRowWritten
<1>5. /\ c \in Controllers /\ pc'[c].bot = "strategy" /\ pc'[c].ticker = pc[c].ticker
      /\ got'[c]["ticker"] = got[c]["ticker"]
  BY <1>0, <1>1 DEF ThreadTypeOK, Threads
<1>6. Nothing \in KnownSet
  BY DEF Nothing, Known, KnownSet, Statuses
<1>7. TableTypeOK'
  BY ONLY <1>0, <1>1, <1>4 DEF TableTypeOK
<1>8. ThreadTypeOK'
  BY ONLY <1>0, <1>1, <1>6 DEF ThreadTypeOK, Threads, BotPCs
<1>9. RowsAreOrders(c)'
  BY ONLY <1>0, <1>1, <1>3, <1>4 DEF RowsAreOrders, Truth
<1>10. RowsAreTrue(c)'
  BY ONLY <1>0, <1>1, <1>2, <1>3, <1>4 DEF RowsAreTrue, Truth, Same, DoneStatuses
<1>11. KnowledgeIsTrue(c)'
  BY ONLY <1>0, <1>1, <1>4, <1>5
     DEF KnowledgeIsTrue, TruePolled, TrueChange, TrueCancel, Truth, Threads
<1>12. RestIsDone(c)'
  BY ONLY <1>0, <1>1, <1>5 DEF RestIsDone, Threads
<1>13. FillsAreApplied(c)'
  BY ONLY <1>0, <1>1, <1>2, <1>3, <1>4 DEF FillsAreApplied, Truth
<1>14. BotSettles(c)'
  <2>1. \A x \in DOMAIN rows : x = o.id \/ Same(c, x) \/ rows[x].status = "PENDING_CANCEL"
           \/ mode[c] # "backtest"
    BY ONLY <1>0, <1>1 DEF BotSettles, o
  <2> QED BY ONLY <1>1, <1>2, <1>3, <1>4, <1>5, <2>1 DEF BotSettles, Same, Truth
<1>15. EachFillOnce(c)'
  <2>1. updated[c]["bot"] = <<>> /\ ~\E p \in ToSet(<<>>) : TRUE
    BY <1>0, <1>1 DEF RestIsDone, Threads, ToSet
  <2>2. \A x \in ToSet(applied[c]) : x # o.id /\ x \in DOMAIN rows
    BY <1>0, <1>2 DEF FillsAreApplied
  <2> QED BY ONLY <1>0, <1>1, <1>4, <1>5, <2>1, <2>2 DEF EachFillOnce
<1> QED BY <1>0, <1>7, <1>8, <1>9, <1>10, <1>11, <1>12, <1>13, <1>14, <1>15 DEF Alone, ControllerInv

LEMMA CancelWaitingKeeps ==
  ASSUME NEW c, Alone(c), NEW id \in DOMAIN rows, CancelWaiting(c, id)
  PROVE  Alone(c)'
<1> DEFINE o == Known(id, id, "PENDING_CANCEL")
<1>0. /\ Controllers = {c} /\ TableTypeOK /\ ThreadTypeOK
      /\ RowsAreOrders(c) /\ RowsAreTrue(c) /\ KnowledgeIsTrue(c) /\ RestIsDone(c)
      /\ FillsAreApplied(c) /\ BotSettles(c) /\ EachFillOnce(c)
  BY DEF Alone, ControllerInv
<1>1. /\ UNCHANGED <<mode, waiting, rows, todo, updated, applied>>
      /\ pc[c].bot = "strategy" /\ pc' = [pc EXCEPT ![c]["bot"] = "cancelSave"]
      /\ exch[c][id].status = "NEW" /\ exch' = [exch EXCEPT ![c][id].status = "CANCELED"]
      /\ lock' = [lock EXCEPT ![c] = "bot"]
      /\ got' = [got EXCEPT ![c]["bot"] = o]
  BY <1>0 DEF CancelWaiting, CancelExchange, At, Goto, RowsAreOrders
<1>2. o \in KnownSet /\ o.id = id /\ o.xid = id /\ o.status = "PENDING_CANCEL"
  BY TableFacts DEF Known, KnownSet, Statuses
<1> HIDE DEF o
<1>3. /\ exch[c] \in Seq(OrderSet) /\ id \in DOMAIN exch[c] /\ c \in Controllers
      /\ exch[c][id] \in OrderSet
  BY TableFacts
<1>4. /\ exch'[c] = [exch[c] EXCEPT ![id] = [exch[c][id] EXCEPT !.status = "CANCELED"]]
      /\ exch' = [exch EXCEPT ![c] = exch'[c]]
  BY <1>0, <1>1, <1>3 DEF TableTypeOK
<1>5. [exch[c][id] EXCEPT !.status = "CANCELED"] \in OrderSet
  BY <1>3 DEF OrderSet, DoneStatuses
<1>6. /\ exch'[c] \in Seq(OrderSet) /\ Len(exch'[c]) = Len(exch[c])
      /\ exch'[c][id].status = "CANCELED"
      /\ \A x \in DOMAIN exch[c] : x # id => exch'[c][x] = exch[c][x]
  BY <1>3, <1>4, <1>5 DEF OrderSet
<1>7. /\ Truth(c, id)' = "CANCELED" /\ Truth(c, id) = "NEW"
      /\ \A x \in DOMAIN rows : x # id => Truth(c, x)' = Truth(c, x)
  BY <1>1, <1>6, TableFacts DEF Truth
<1>8. /\ pc'[c].bot = "cancelSave" /\ pc'[c].ticker = pc[c].ticker
      /\ got'[c]["bot"] = o /\ got'[c]["ticker"] = got[c]["ticker"]
  BY <1>0, <1>1, <1>3 DEF ThreadTypeOK, Threads
<1>9. TableTypeOK'
  BY ONLY <1>0, <1>1, <1>4, <1>6 DEF TableTypeOK
<1>10. ThreadTypeOK'
  BY ONLY <1>0, <1>1, <1>2 DEF ThreadTypeOK, Threads, BotPCs
<1>11. RowsAreOrders(c)'
  BY ONLY <1>0, <1>1, <1>6, <1>7 DEF RowsAreOrders
<1>12. RowsAreTrue(c)'
  BY ONLY <1>0, <1>1, <1>7 DEF RowsAreTrue, Same, DoneStatuses
<1>13. KnowledgeIsTrue(c)'
  BY ONLY <1>0, <1>1, <1>2, <1>7, <1>8, id \in DOMAIN rows
     DEF KnowledgeIsTrue, TruePolled, TrueChange, TrueCancel, Threads, DoneStatuses
<1>14. RestIsDone(c)'
  BY ONLY <1>0, <1>1, <1>8 DEF RestIsDone, Threads
<1>15. FillsAreApplied(c)'
  BY ONLY <1>0, <1>1, <1>7 DEF FillsAreApplied
<1>16. BotSettles(c)'
  BY ONLY <1>0, <1>1, <1>2, <1>7, <1>8 DEF BotSettles, Same
<1>17. EachFillOnce(c)'
  BY ONLY <1>0, <1>1, <1>8 DEF EachFillOnce
<1> QED BY <1>0, <1>9, <1>10, <1>11, <1>12, <1>13, <1>14, <1>15, <1>16, <1>17 DEF Alone, ControllerInv

(* New rows, of orders that are open or have been applied.                  *)
LEMMA GrowingKeeps ==
  ASSUME NEW c, Alone(c), pc[c].bot = "strategy", TableTypeOK',
         UNCHANGED <<mode, lock, pc, todo, got, updated>>,
         Len(rows') = Len(exch'[c]), DOMAIN rows \subseteq DOMAIN rows',
         \A x \in DOMAIN rows : rows'[x] = rows[x] /\ exch'[c][x] = exch[c][x],
         waiting[c] \subseteq waiting'[c], waiting'[c] \subseteq DOMAIN rows',
         \A x \in DOMAIN rows' \ DOMAIN rows :
            /\ rows'[x].session = c /\ rows'[x].xid = x
            /\ rows'[x].status = exch'[c][x].status
            /\ \/ rows'[x].status = "NEW" /\ x \in waiting'[c] /\ x \notin ToSet(applied'[c])
               \/ rows'[x].status = "FILLED" /\ x \in ToSet(applied'[c]),
         \A x \in ToSet(applied'[c]) : x \in ToSet(applied[c]) \/ x \in DOMAIN rows' \ DOMAIN rows,
         ToSet(applied[c]) \subseteq ToSet(applied'[c]),
         IsInjective(applied[c]) => IsInjective(applied'[c])
  PROVE  Alone(c)'
<1>0. /\ Controllers = {c} /\ TableTypeOK /\ ThreadTypeOK
      /\ RowsAreOrders(c) /\ RowsAreTrue(c) /\ KnowledgeIsTrue(c) /\ RestIsDone(c)
      /\ FillsAreApplied(c) /\ BotSettles(c) /\ EachFillOnce(c)
  BY DEF Alone, ControllerInv
<1>1. /\ \A x \in DOMAIN rows : Truth(c, x)' = Truth(c, x) /\ (Same(c, x)' <=> Same(c, x))
      /\ \A x \in DOMAIN rows' \ DOMAIN rows : Same(c, x)'
  BY DEF Truth, Same
<1>2. ThreadTypeOK'
  BY <1>0 DEF ThreadTypeOK
<1>3. RowsAreOrders(c)'
  BY <1>0, <1>1 DEF RowsAreOrders, Truth
<1>4. RowsAreTrue(c)'
  BY <1>0, <1>1 DEF RowsAreTrue
<1>5. KnowledgeIsTrue(c)'
  BY <1>0, <1>1 DEF KnowledgeIsTrue, TruePolled, TrueChange, TrueCancel
<1>6. RestIsDone(c)'
  BY <1>0 DEF RestIsDone
<1>7. FillsAreApplied(c)'
  BY <1>0, <1>1 DEF FillsAreApplied, Truth
<1>8. BotSettles(c)'
  BY <1>0, <1>1 DEF BotSettles
<1>9. EachFillOnce(c)'
  <2>1. updated[c]["bot"] = <<>> /\ ~\E p \in ToSet(<<>>) : TRUE
    BY <1>0 DEF RestIsDone, Threads, ToSet
  <2>2. \A x \in ToSet(applied[c]) : x \in DOMAIN rows
    BY <1>0 DEF FillsAreApplied
  <2> QED BY <1>0, <2>1, <2>2 DEF EachFillOnce
<1> QED BY <1>0, <1>2, <1>3, <1>4, <1>5, <1>6, <1>7, <1>8, <1>9 DEF Alone, ControllerInv

LEMMA TwoSequences ==
  ASSUME NEW S, NEW a \in Seq(S), NEW b \in Seq(S), NEW n, NEW m, n = Len(a), m = Len(b)
  PROVE  /\ a \o b \in Seq(S) /\ Len(a \o b) = n + m
         /\ \A x \in 1..(n + m) : (a \o b)[x] = IF x <= n THEN a[x] ELSE b[x - n]
  BY ConcatProperties

LEMMA CreateOrdersKeeps ==
  ASSUME NEW c, Alone(c), NEW sides \in Seq(Sides), CreateOrders(c, sides)
  PROVE  Alone(c)'
<1> DEFINE n == Len(rows)
           m == Len(sides)
           fresh == [k \in DOMAIN sides |-> [side |-> sides[k], status |-> "NEW"]]
           inserted == [k \in DOMAIN sides |-> Row(c, n + k, "NEW", FALSE)]
<1>0. TableTypeOK /\ RowsAreOrders(c) /\ FillsAreApplied(c) /\ pc[c].bot = "strategy"
  BY DEF Alone, ControllerInv, CreateOrders, At
<1>1. /\ c \in Controllers /\ rows \in Seq(RowSet) /\ exch[c] \in Seq(OrderSet)
      /\ n \in Nat /\ Len(exch[c]) = n /\ DOMAIN rows = 1..n /\ m \in Nat
      /\ DOMAIN sides = 1..m
  BY TableFacts
<1>2. /\ UNCHANGED <<mode, lock, pc, todo, got, updated, applied>>
      /\ exch' = [exch EXCEPT ![c] = @ \o fresh]
      /\ waiting' = [waiting EXCEPT ![c] = @ \cup {n + k : k \in DOMAIN sides}]
      /\ rows' = rows \o inserted
  BY <1>1 DEF CreateOrders, Inserted, pollVars
<1>3. \A k \in DOMAIN sides :
         /\ fresh[k] \in OrderSet /\ fresh[k].status = "NEW"
         /\ inserted[k] \in RowSet /\ inserted[k].status = "NEW"
         /\ inserted[k].session = c /\ inserted[k].xid = n + k
  BY <1>1 DEF OrderSet, Row, RowSet, Statuses
<1>4. fresh \in Seq(OrderSet) /\ inserted \in Seq(RowSet) /\ Len(fresh) = m /\ Len(inserted) = m
  <2>1. fresh \in [1..m -> OrderSet] /\ inserted \in [1..m -> RowSet]
    BY <1>1, <1>3
  <2>2. \A S : \A s \in [1..m -> S] : s \in Seq(S) /\ Len(s) = m
    <3> HIDE DEF m
    <3> QED BY <1>1, SeqDef
  <2> HIDE DEF fresh, inserted, m
  <2> QED BY <2>1, <2>2
<1> HIDE DEF fresh, inserted, n, m
<1>5. /\ exch'[c] = exch[c] \o fresh
      /\ waiting'[c] = waiting[c] \cup {n + k : k \in DOMAIN sides}
  BY <1>0, <1>1, <1>2 DEF TableTypeOK
<1>6. /\ exch'[c] \in Seq(OrderSet) /\ Len(exch'[c]) = n + m
      /\ \A x \in 1..(n + m) : exch'[c][x] = IF x <= n THEN exch[c][x] ELSE fresh[x - n]
  <2>1. exch[c] \in Seq(OrderSet) /\ fresh \in Seq(OrderSet) /\ Len(exch[c]) = n /\ Len(fresh) = m
    BY ONLY <1>1, <1>4
  <2>2. /\ exch[c] \o fresh \in Seq(OrderSet) /\ Len(exch[c] \o fresh) = n + m
        /\ \A x \in 1..(n + m) :
              (exch[c] \o fresh)[x] = IF x <= n THEN exch[c][x] ELSE fresh[x - n]
    BY ONLY <2>1, TwoSequences
  <2> QED BY ONLY <1>5, <2>2
<1>7. /\ rows' \in Seq(RowSet) /\ Len(rows') = n + m /\ DOMAIN rows' = 1..(n + m)
      /\ \A x \in 1..(n + m) : rows'[x] = IF x <= n THEN rows[x] ELSE inserted[x - n]
  <2>1. rows \in Seq(RowSet) /\ inserted \in Seq(RowSet) /\ Len(rows) = n /\ Len(inserted) = m
    BY ONLY <1>1, <1>4 DEF n
  <2>2. /\ rows \o inserted \in Seq(RowSet) /\ Len(rows \o inserted) = n + m
        /\ \A x \in 1..(n + m) :
              (rows \o inserted)[x] = IF x <= n THEN rows[x] ELSE inserted[x - n]
    BY ONLY <2>1, TwoSequences
  <2>3. DOMAIN rows' = 1..Len(rows') /\ rows' = rows \o inserted
    BY ONLY <1>2, <2>2, LenProperties
  <2> QED BY ONLY <2>2, <2>3
<1>8. \A x \in 1..(n + m) : x \in 1..n \/ (~(x <= n) /\ x - n \in 1..m /\ x = n + (x - n))
  BY ONLY <1>1
<1>9. 1..n \subseteq 1..(n + m) /\ {n + k : k \in DOMAIN sides} \subseteq 1..(n + m)
      /\ \A x \in 1..n : x <= n
  BY ONLY <1>1
<1>10. TableTypeOK'
  <2>1. waiting'[c] \in SUBSET Nat
    BY <1>0, <1>1, <1>5, <1>9 DEF TableTypeOK
  <2> QED BY <1>0, <1>1, <1>2, <1>5, <1>6, <1>7, <2>1 DEF TableTypeOK
<1>11. /\ \A x \in DOMAIN rows : rows'[x] = rows[x] /\ exch'[c][x] = exch[c][x]
       /\ DOMAIN rows \subseteq DOMAIN rows' /\ waiting'[c] \subseteq DOMAIN rows'
  BY <1>0, <1>1, <1>5, <1>6, <1>7, <1>9 DEF RowsAreOrders
<1>12. ASSUME NEW x \in DOMAIN rows' \ DOMAIN rows
       PROVE  /\ rows'[x].session = c /\ rows'[x].xid = x
              /\ rows'[x].status = exch'[c][x].status
              /\ rows'[x].status = "NEW" /\ x \in waiting'[c] /\ x \notin ToSet(applied'[c])
  <2>1. x - n \in DOMAIN sides /\ x = n + (x - n) /\ ~(x <= n) /\ x \in 1..(n + m)
    BY <1>1, <1>7, <1>8
  <2>2. rows'[x] = inserted[x - n] /\ exch'[c][x] = fresh[x - n] /\ x \in waiting'[c]
    BY <1>5, <1>6, <1>7, <2>1
  <2>3. x \notin ToSet(applied'[c])
    BY <1>0, <1>2 DEF FillsAreApplied
  <2> QED BY <1>3, <2>1, <2>2, <2>3
<1> QED BY <1>0, <1>2, <1>5, <1>6, <1>7, <1>10, <1>11, <1>12, GrowingKeeps

LEMMA CreateOrderMarketKeeps ==
  ASSUME NEW c, Alone(c), NEW side \in Sides, CreateOrderMarket(c, side)
  PROVE  Alone(c)'
<1> DEFINE n == Len(rows)
           order == [side |-> side, status |-> "FILLED"]
           row == Row(c, n + 1, "FILLED", Realizes(c, side))
<1>0. TableTypeOK /\ RowsAreOrders(c) /\ FillsAreApplied(c) /\ pc[c].bot = "strategy"
  BY DEF Alone, ControllerInv, CreateOrderMarket, At
<1>1. /\ c \in Controllers /\ rows \in Seq(RowSet) /\ exch[c] \in Seq(OrderSet)
      /\ n \in Nat /\ Len(exch[c]) = n /\ DOMAIN rows = 1..n /\ DOMAIN exch[c] = 1..n
      /\ applied[c] \in Seq(Nat)
  BY <1>0, TableFacts DEF TableTypeOK
<1>2. /\ UNCHANGED <<mode, waiting, lock, pc, todo, got, updated>>
      /\ exch' = [exch EXCEPT ![c] = Append(@, order)]
      /\ rows' = rows \o <<row>>
      /\ applied' = [applied EXCEPT ![c] = Append(@, n + 1)]
  BY <1>1 DEF CreateOrderMarket, Inserted, pollVars
<1>3. Realizes(c, side) \in BOOLEAN
  BY DEF Realizes
<1>4. /\ order \in OrderSet /\ order.status = "FILLED"
      /\ row \in RowSet /\ row.status = "FILLED" /\ row.session = c /\ row.xid = n + 1
  BY <1>1, <1>3 DEF OrderSet, Row, RowSet, Statuses, DoneStatuses
<1> HIDE DEF order, row, n
<1>5. rows' = Append(rows, row)
  BY <1>1, <1>2, <1>4
<1>6. /\ rows' \in Seq(RowSet) /\ Len(rows') = n + 1 /\ DOMAIN rows' = DOMAIN rows \cup {n + 1}
      /\ n + 1 \notin DOMAIN rows /\ \A x \in DOMAIN rows : rows'[x] = rows[x]
      /\ rows'[n + 1] = row
  BY <1>1, <1>4, <1>5, ElementsOfAppend DEF n
<1>7. exch'[c] = Append(exch[c], order) /\ applied'[c] = Append(applied[c], n + 1)
  BY <1>0, <1>1, <1>2 DEF TableTypeOK
<1>8. /\ exch'[c] \in Seq(OrderSet) /\ Len(exch'[c]) = n + 1
      /\ \A x \in DOMAIN rows : exch'[c][x] = exch[c][x]
      /\ exch'[c][n + 1] = order
  BY <1>1, <1>4, <1>7, ElementsOfAppend
<1>9. applied'[c] \in Seq(Nat) /\ ToSet(applied'[c]) = ToSet(applied[c]) \cup {n + 1}
  <2>1. n + 1 \in Nat /\ applied[c] \in Seq(Nat)
    BY <1>1
  <2>2. /\ Append(applied[c], n + 1) \in Seq(Nat)
        /\ ToSet(Append(applied[c], n + 1)) = ToSet(applied[c]) \cup {n + 1}
    BY ONLY <2>1, ElementsOfAppend
  <2> QED BY ONLY <1>7, <2>2
<1>10. IsInjective(applied[c]) => IsInjective(applied'[c])
  <2>1. n + 1 \notin ToSet(applied[c]) /\ n + 1 \in Nat
    BY <1>0, <1>1, <1>6 DEF FillsAreApplied
  <2> QED BY <1>1, <1>7, <2>1, InjectiveAppend
<1>11. TableTypeOK'
  BY ONLY <1>0, <1>1, <1>2, <1>6, <1>7, <1>8, <1>9 DEF TableTypeOK
<1>12. waiting'[c] \subseteq DOMAIN rows' /\ waiting'[c] = waiting[c]
  BY <1>0, <1>2, <1>6 DEF RowsAreOrders
<1>13. \A x \in DOMAIN rows' \ DOMAIN rows :
          /\ rows'[x].session = c /\ rows'[x].xid = x
          /\ rows'[x].status = exch'[c][x].status
          /\ rows'[x].status = "FILLED" /\ x \in ToSet(applied'[c])
  BY <1>4, <1>6, <1>8, <1>9
<1>14. Len(rows') = Len(exch'[c]) /\ DOMAIN rows \subseteq DOMAIN rows'
  BY <1>6, <1>8
<1>15. /\ \A x \in DOMAIN rows : rows'[x] = rows[x] /\ exch'[c][x] = exch[c][x]
       /\ \A x \in ToSet(applied'[c]) : x \in ToSet(applied[c]) \/ x \in DOMAIN rows' \ DOMAIN rows
       /\ ToSet(applied[c]) \subseteq ToSet(applied'[c])
  BY <1>6, <1>8, <1>9
<1> QED BY <1>0, <1>2, <1>10, <1>11, <1>12, <1>13, <1>14, <1>15, GrowingKeeps

-----------------------------------------------------------------------------
(* The invariant, and what follows from it.                                 *)

LEMMA InitAlone ==
  ASSUME NEW c, Controllers = {c}, Init
  PROVE  Alone(c)
<1>1. TableTypeOK
  <2>1. \A C, M : M \subseteq {"live", "backtest"} /\ mode \in [C -> M] =>
           mode \in [C -> {"live", "backtest"}]
    OBVIOUS
  <2>2. mode \in [Controllers -> {"live", "backtest"}]
    BY <2>1, ControllerAssumption DEF Init, ControllerAssumption
  <2>3. <<>> \in Seq(OrderSet) /\ <<>> \in Seq(RowSet) /\ <<>> \in Seq(Nat) /\ {} \in SUBSET Nat
    OBVIOUS
  <2> QED BY <2>2, <2>3 DEF Init, TableTypeOK
<1>2. ThreadTypeOK
  <2>1. Nothing \in KnownSet
    BY DEF Nothing, Known, KnownSet, Statuses
  <2> QED BY <2>1 DEF Init, ThreadTypeOK, Threads, BotPCs
<1>3. /\ rows = <<>> /\ exch[c] = <<>> /\ waiting[c] = {} /\ applied[c] = <<>>
      /\ \A t \in Threads : todo[c][t] = <<>> /\ updated[c][t] = <<>>
      /\ pc[c].bot = "candle" /\ pc[c].ticker = IF mode[c] = "live" THEN "idle" ELSE "off"
  BY DEF Init
<1>4. /\ DOMAIN rows = {} /\ ToSet(applied[c]) = {}
      /\ \A t \in Threads : ToSet(todo[c][t]) = {} /\ ToSet(updated[c][t]) = {}
  BY <1>3 DEF ToSet
<1>5. RowsAreOrders(c) /\ RowsAreTrue(c)
  BY <1>3, <1>4 DEF RowsAreOrders, RowsAreTrue
<1>6. KnowledgeIsTrue(c) /\ RestIsDone(c)
  BY <1>3, <1>4 DEF KnowledgeIsTrue, RestIsDone, Threads
<1>7. FillsAreApplied(c) /\ BotSettles(c)
  BY <1>3, <1>4 DEF FillsAreApplied, BotSettles
<1>8. EachFillOnce(c)
  <2>1. \A s : s = <<>> => DOMAIN s = {}
    OBVIOUS
  <2>2. IsInjective(applied[c]) /\ Distinct(updated[c]["bot"])
    BY <1>3, <2>1 DEF IsInjective, Distinct, Threads
  <2> QED BY <1>3, <1>4, <2>2 DEF EachFillOnce, Threads
<1> QED BY <1>1, <1>2, <1>5, <1>6, <1>7, <1>8 DEF Alone, ControllerInv

LEMMA NextAlone ==
  ASSUME NEW c, Alone(c), [Next]_vars
  PROVE  Alone(c)'
<1> USE DEF Alone
<1>1. CASE \E d \in Controllers : OnCandle(d)
  BY <1>1, OnCandleKeeps
<1>2. CASE \E d \in Controllers, side \in Sides : CreateOrder(d, side)
  <2>1. PICK side \in Sides : CreateOrders(c, <<side>>)
    BY <1>2 DEF CreateOrder
  <2>2. <<side>> \in Seq(Sides)
    OBVIOUS
  <2> QED BY <2>1, <2>2, CreateOrdersKeeps
<1>3. CASE \E d \in Controllers, side \in Sides : CreateOrderOCO(d, side)
  <2>1. PICK side \in Sides : CreateOrders(c, <<side, side>>)
    BY <1>3 DEF CreateOrderOCO
  <2>2. <<side, side>> \in Seq(Sides)
    OBVIOUS
  <2> QED BY <2>1, <2>2, CreateOrdersKeeps
<1>4. CASE \E d \in Controllers, side \in Sides : CreateOrderMarket(d, side)
  BY <1>4, CreateOrderMarketKeeps
<1>5. CASE \E d \in Controllers : \E id \in DOMAIN rows : CancelWaiting(d, id)
  BY <1>5, CancelWaitingKeeps
<1>6. CASE \E d \in Controllers : StrategyReturns(d) \/ CancelSave(d)
  BY <1>6, StrategyReturnsKeeps, CancelSaveKeeps
<1>7. CASE \E d \in Controllers : Tick(d) \/ Stop(d) \/ Finish(d)
  BY <1>7, TickKeeps, StopKeeps, FinishKeeps
<1>8. CASE \E d \in Controllers, t \in Threads : Fetch(d, t) \/ Poll(d, t) \/ Save(d, t)
  BY <1>8, FetchKeeps, PollKeeps, SaveKeeps
<1>9. CASE \E d \in Controllers, t \in Threads : Lock(d, t) \/ Process(d, t) \/ Unlock(d, t)
  BY <1>9, LockKeeps, ProcessKeeps, UnlockKeeps
<1>10. CASE Publishing \/ UNCHANGED vars
  <2>1. UNCHANGED <<mode, walletVars, rows, lock, pc, pollVars, applied>>
    BY <1>10 DEF Publishing, PublishNew, vars
  <2>2. ThreadTypeOK' /\ RestIsDone(c)' /\ BotSettles(c)'
    BY <2>1 DEF ThreadTypeOK, RestIsDone, BotSettles, Same, Truth, walletVars, pollVars,
                ControllerInv
  <2> QED BY <2>1, <2>2, MovesKeep DEF ControllerInv
<1> HIDE DEF Alone
<1> QED BY <1>1, <1>2, <1>3, <1>4, <1>5, <1>6, <1>7, <1>8, <1>9, <1>10
        DEF Next, Strategy, UpdateOrders

LEMMA OneBot == ASSUME OneController PROVE \E c : Controllers = {c}
<1>1. PICK c : c \in Controllers
  BY ControllerAssumption
<1> QED BY <1>1 DEF OneController

(* Whatever the bot, its ticker and the candles do in which order, rows     *)
(* say only what happened, each thread knows the truth, and what is still   *)
(* to be applied is in the hands of a thread.                               *)
THEOREM OrderInvCorrect == ASSUME OneController PROVE Spec => []OrderInv
<1>1. PICK c : Controllers = {c}
  BY OneBot
<1>2. Init => Alone(c)
  BY <1>1, InitAlone
<1>3. Alone(c) /\ [Next]_vars => Alone(c)'
  BY NextAlone
<1>4. Alone(c) => OrderInv
  BY DEF Alone, OrderInv
<1> QED BY <1>2, <1>3, <1>4, PTL DEF Spec

(* A bot that has stopped shows every order as its wallet left it, and has  *)
(* applied every fill, also those of the candle before Stop that its ticker *)
(* was polling at that time.                                                *)
THEOREM StopSettlesAllCorrect == ASSUME OneController PROVE Spec => []StopSettlesAll
<1>1. OrderInv => StopSettlesAll
  <2> SUFFICES ASSUME OrderInv, NEW c \in Controllers, mode[c] = "live", pc[c].bot = "stopped"
               PROVE  /\ Settled(c)
                      /\ \A id \in DOMAIN rows : rows[id].session = c =>
                            rows[id].status # "PENDING_CANCEL"
    BY DEF StopSettlesAll, At
  <2>1. Alone(c)
    BY OneController DEF OrderInv, Alone, OneController
  <2>2. \A x \in DOMAIN rows : rows[x].status = exch[c][x].status /\ rows[x].xid = x
    BY DEF OrderInv, ControllerInv, BotSettles, Same, Truth, RowsAreOrders
  <2>3. \A t \in Threads : updated[c][t] = <<>>
    BY DEF OrderInv, ControllerInv, RestIsDone, Threads
  <2>4. \A t \in Threads : ToSet(updated[c][t]) = {}
    BY <2>3 DEF ToSet
  <2>5. FilledOrders(c) = ToSet(applied[c])
    <3>1. FillsAreApplied(c) /\ DOMAIN exch[c] = DOMAIN rows
      BY <2>1, TableFacts DEF Alone, ControllerInv
    <3> QED BY <2>2, <2>4, <3>1 DEF FilledOrders, FillsAreApplied, Truth
  <2>6. \A x \in DOMAIN rows : rows[x].status # "PENDING_CANCEL"
    BY <2>1, <2>2, TableFacts DEF Truth, DoneStatuses
  <2> QED BY <2>2, <2>5, <2>6 DEF Settled
<1> QED BY <1>1, OrderInvCorrect, PTL

(* The strategy of a backtest runs on settled positions: every fill up to   *)
(* its candle is applied, once.                                             *)
THEOREM BacktestSettlesFirstCorrect ==
  ASSUME OneController PROVE Spec => []BacktestSettlesFirst
<1>1. OrderInv => BacktestSettlesFirst
  <2> SUFFICES ASSUME OrderInv, NEW c \in Controllers,
                      mode[c] = "backtest", pc[c].bot = "strategy"
               PROVE  Settled(c) /\ IsInjective(applied[c])
    BY DEF BacktestSettlesFirst, At
  <2>1. Alone(c)
    BY OneController DEF OrderInv, Alone, OneController
  <2>2. \A x \in DOMAIN rows : /\ rows[x].xid = x
                               /\ Same(c, x) \/ rows[x].status = "PENDING_CANCEL"
    BY DEF OrderInv, ControllerInv, BotSettles, RowsAreOrders
  <2>3. \A t \in Threads : updated[c][t] = <<>>
    BY DEF OrderInv, ControllerInv, RestIsDone, Threads
  <2>4. \A t \in Threads : ToSet(updated[c][t]) = {}
    BY <2>3 DEF ToSet
  <2>5. FilledOrders(c) = ToSet(applied[c])
    <3>1. FillsAreApplied(c) /\ RowsAreTrue(c) /\ DOMAIN exch[c] = DOMAIN rows
      BY <2>1, TableFacts DEF Alone, ControllerInv
    <3>2. \A x \in DOMAIN rows : Truth(c, x) = "FILLED" => rows[x].status = "FILLED"
      BY <2>2, <3>1 DEF RowsAreTrue, Same
    <3> QED BY <2>4, <3>1, <3>2 DEF FilledOrders, FillsAreApplied, Truth
  <2>6. IsInjective(applied[c])
    BY DEF OrderInv, ControllerInv, EachFillOnce
  <2> QED BY <2>2, <2>5, <2>6 DEF Settled, Same, Truth
<1> QED BY <1>1, OrderInvCorrect, PTL

=============================================================================
