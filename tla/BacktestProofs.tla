--------------------------- MODULE BacktestProofs -----------------------------
(***************************************************************************)
(* Proofs about Backtest for any number of requests and any markets and    *)
(* plans: `running` keeps runs apart, so the chart and the summary are of  *)
(* one run; and the chart shows each order with one candle.                *)
(***************************************************************************)
EXTENDS Backtest, SequenceTheorems, SetLemmas, TLAPS

BusyPCs == {"drop", "download", "reset", "strategy", "wallet", "candles", "trade", "summary",
            "fail", "release"}

(* The candles that runs can show.                                          *)
ShownBy(r, k) ==
    [run |-> r, time |-> history[r].candles[k].time, parts |-> history[r].candles[k].parts]

ShownSet == {ShownBy(r, k) : r \in Requests, k \in Nat \ {0}}

RunTypeOK ==
    /\ pc \in [Requests -> {"new", "done"} \cup BusyPCs]
    /\ running \in BOOLEAN
    /\ summary \in Requests \cup {Nobody}
    /\ pos \in [Requests -> Nat]
    /\ owner \in [strategy : Requests \cup {Nobody}, wallet : Requests \cup {Nobody}]
    /\ candles \in Seq(ShownSet)

(* Whoever is busy holds the claim, and is the only one.                    *)
OneIsBusy ==
    \A r \in Requests : pc[r] \in BusyPCs =>
        running /\ \A s \in Requests : pc[s] \in BusyPCs => s = r

(* What the run that is busy has done to the chart and to the summary.      *)
RunPrepares ==
    \A r \in Requests :
        /\ pc[r] \in BusyPCs \ {"drop", "release"} => summary = Nobody
        /\ pc[r] \in {"strategy", "wallet"} => candles = <<>>
        /\ pc[r] \in {"wallet", "candles", "trade", "summary"} => owner.strategy = r
        /\ pc[r] \in {"candles", "trade", "summary"} => owner.wallet = r

(* Candles come with the strategy and the wallet of their run, and with its *)
(* summary or none.                                                         *)
ChartIsOfOwner ==
    candles # <<>> =>
        /\ owner.wallet \in Requests
        /\ owner.strategy = owner.wallet
        /\ \A i \in DOMAIN candles : candles[i].run = owner.wallet
        /\ summary \in {owner.wallet, Nobody}

ChartIsOrdered == \A i \in 2..Len(candles) : candles[i - 1].time < candles[i].time

RunInv == RunTypeOK /\ OneIsBusy /\ RunPrepares /\ ChartIsOfOwner /\ ChartIsOrdered

-----------------------------------------------------------------------------
(* Steps that leave the runs, the summary and the candles alone.            *)
LEMMA OthersKeep ==
  ASSUME RunInv, UNCHANGED <<history, pc, running, summary, candles, owner>>,
         pos' \in [Requests -> Nat]
  PROVE  RunInv'
<1> USE DEF RunInv
<1>1. RunTypeOK'
  BY DEF RunTypeOK, ShownSet, ShownBy
<1>2. OneIsBusy' /\ RunPrepares' /\ ChartIsOfOwner' /\ ChartIsOrdered'
  BY DEF OneIsBusy, RunPrepares, ChartIsOfOwner, ChartIsOrdered
<1> QED BY <1>1, <1>2

(* The chart stays as it is.                                                *)
LEMMA ChartUnchanged ==
  ASSUME RunInv, UNCHANGED <<history, candles, owner>>
  PROVE  /\ candles' \in Seq(ShownSet') /\ ChartIsOrdered'
         /\ owner' \in [strategy : Requests \cup {Nobody}, wallet : Requests \cup {Nobody}]
         /\ summary' = summary \/ summary' = Nobody => ChartIsOfOwner'
  BY DEF RunInv, RunTypeOK, ShownSet, ShownBy, ChartIsOrdered, ChartIsOfOwner

LEMMA ClaimKeeps ==
  ASSUME RunInv, NEW r \in Requests, Reject(r) \/ Claim(r)
  PROVE  RunInv'
<1> USE DEF RunInv, Reject, Claim, Goto, Free, given, botVars, chartVars
<1>1. RunTypeOK'
  BY ChartUnchanged DEF RunTypeOK, BusyPCs
<1>2. OneIsBusy'
  BY DEF OneIsBusy, RunTypeOK, BusyPCs
<1>3. RunPrepares'
  BY DEF RunPrepares, RunTypeOK, BusyPCs
<1> QED BY <1>1, <1>2, <1>3, ChartUnchanged

(* A run goes from one place to another.                                    *)
LEMMA GoesOn ==
  ASSUME RunInv, NEW r \in Requests, pc[r] \in BusyPCs,
         NEW label \in BusyPCs, Goto(r, label), UNCHANGED running
  PROVE  /\ pc' \in [Requests -> {"new", "done"} \cup BusyPCs] /\ running' \in BOOLEAN
         /\ OneIsBusy'
         /\ pc'[r] = label
         /\ \A s \in Requests : s # r => pc'[s] = pc[s] /\ pc[s] \notin BusyPCs
<1> USE DEF RunInv, Goto
<1>1. /\ pc' \in [Requests -> {"new", "done"} \cup BusyPCs] /\ running' \in BOOLEAN
      /\ pc'[r] = label
      /\ \A s \in Requests : s # r => pc'[s] = pc[s] /\ pc[s] \notin BusyPCs
  BY DEF RunTypeOK, OneIsBusy
<1>2. OneIsBusy'
  BY <1>1 DEF OneIsBusy
<1> QED BY <1>1, <1>2

LEMMA SummaryDropKeeps ==
  ASSUME RunInv, NEW r \in Requests, DropSummary(r)
  PROVE  RunInv'
<1> USE DEF RunInv, DropSummary, SummaryDropped, given, botVars, chartVars
<1>1. pc[r] = "drop" /\ Goto(r, "download") /\ UNCHANGED running /\ summary' = Nobody
  OBVIOUS
<1>2. /\ pc'[r] = "download" /\ OneIsBusy'
      /\ \A s \in Requests : s # r => pc'[s] = pc[s] /\ pc[s] \notin BusyPCs
      /\ pc' \in [Requests -> {"new", "done"} \cup BusyPCs] /\ running' \in BOOLEAN
  BY <1>1, GoesOn DEF BusyPCs
<1>3. RunTypeOK'
  BY <1>1, <1>2, ChartUnchanged DEF RunTypeOK
<1>4. RunPrepares'
  BY <1>1, <1>2 DEF RunPrepares, BusyPCs
<1> QED BY <1>1, <1>2, <1>3, <1>4, ChartUnchanged

(* Steps after the summary is dropped that change no chart.                 *)
LEMMA GoingKeeps ==
  ASSUME RunInv, NEW r \in Requests,
         \/ pc[r] = "download" /\ Goto(r, "reset")
         \/ pc[r] = "download" /\ Goto(r, "release")
         \/ pc[r] \in {"download", "reset", "candles", "summary"} /\ Goto(r, "fail")
         \/ pc[r] = "candles" /\ Goto(r, "trade")
         \/ pc[r] = "trade" /\ Goto(r, "summary"),
         UNCHANGED <<history, running, summary, candles, owner>>, pos' \in [Requests -> Nat]
  PROVE  RunInv'
<1>1. PICK label \in {"reset", "release", "fail", "trade", "summary"} :
         /\ Goto(r, label) /\ pc[r] \in BusyPCs \ {"drop", "release"}
         /\ label \in {"trade", "summary"} => pc[r] \in {"candles", "trade"}
  BY DEF BusyPCs
<1>2. /\ pc'[r] = label /\ OneIsBusy'
      /\ \A s \in Requests : s # r => pc'[s] = pc[s] /\ pc[s] \notin BusyPCs
      /\ pc' \in [Requests -> {"new", "done"} \cup BusyPCs] /\ running' \in BOOLEAN
  BY <1>1, GoesOn DEF BusyPCs
<1>3. RunTypeOK'
  BY <1>1, <1>2, ChartUnchanged DEF RunTypeOK, RunInv
<1>4. RunPrepares'
  BY <1>1, <1>2 DEF RunPrepares, BusyPCs, RunInv
<1> QED BY <1>1, <1>2, <1>3, <1>4, ChartUnchanged DEF RunInv

LEMMA SummaryStoreKeeps ==
  ASSUME RunInv, NEW r \in Requests, StoreSummary(r)
  PROVE  RunInv'
<1> USE DEF RunInv, StoreSummary, given, botVars, chartVars
<1>1. pc[r] = "summary" /\ Goto(r, "release") /\ UNCHANGED running /\ summary' = r
  OBVIOUS
<1>2. /\ pc'[r] = "release" /\ OneIsBusy'
      /\ \A s \in Requests : s # r => pc'[s] = pc[s] /\ pc[s] \notin BusyPCs
      /\ pc' \in [Requests -> {"new", "done"} \cup BusyPCs] /\ running' \in BOOLEAN
  BY <1>1, GoesOn DEF BusyPCs
<1>3. RunTypeOK'
  BY <1>1, <1>2, ChartUnchanged DEF RunTypeOK
<1>4. RunPrepares'
  BY <1>1, <1>2 DEF RunPrepares, BusyPCs
<1>5. ChartIsOfOwner'
  BY <1>1 DEF RunPrepares, ChartIsOfOwner
<1> QED BY <1>1, <1>2, <1>3, <1>4, <1>5, ChartUnchanged

LEMMA ReleaseKeeps ==
  ASSUME RunInv, NEW r \in Requests, Release(r)
  PROVE  RunInv'
<1> USE DEF RunInv, Release, Released, Goto, given, botVars, chartVars
<1>1. RunTypeOK'
  BY ChartUnchanged DEF RunTypeOK
<1>2. \A s \in Requests : pc'[s] \notin BusyPCs
  BY DEF RunTypeOK, OneIsBusy, BusyPCs
<1>3. OneIsBusy' /\ RunPrepares'
  BY <1>2 DEF OneIsBusy, RunPrepares, BusyPCs
<1> QED BY <1>1, <1>3, ChartUnchanged

LEMMA ResetKeeps ==
  ASSUME RunInv, NEW r \in Requests, ResetChart(r) \/ ResetFailed(r)
  PROVE  RunInv'
<1> USE DEF RunInv
<1>1. PICK label \in {"strategy", "release"} :
         /\ Goto(r, label) /\ pc[r] \in {"reset", "fail"} /\ Reset
         /\ UNCHANGED <<history, running, summary, pos>>
  BY DEF ResetChart, ResetFailed, given, botVars
<1>2. /\ pc'[r] = label /\ OneIsBusy'
      /\ \A s \in Requests : s # r => pc'[s] = pc[s] /\ pc[s] \notin BusyPCs
      /\ pc' \in [Requests -> {"new", "done"} \cup BusyPCs] /\ running' \in BOOLEAN
  BY <1>1, GoesOn DEF BusyPCs
<1>3. candles' = <<>> /\ owner' = [strategy |-> Nobody, wallet |-> Nobody]
  BY <1>1 DEF Reset, CandlesReset
<1>4. RunTypeOK'
  BY <1>1, <1>2, <1>3 DEF RunTypeOK
<1>5. RunPrepares'
  BY <1>1, <1>2, <1>3 DEF RunPrepares, BusyPCs
<1>6. ChartIsOfOwner' /\ ChartIsOrdered'
  <2>1. Len(candles') = 0 /\ 2..0 = {}
    BY <1>3
  <2> QED BY <1>3, <2>1 DEF ChartIsOfOwner, ChartIsOrdered
<1> QED BY <1>2, <1>4, <1>5, <1>6

LEMMA OwnersKeep ==
  ASSUME RunInv, NEW r \in Requests, SetStrategy(r) \/ SetPaperWallet(r)
  PROVE  RunInv'
<1> USE DEF RunInv
<1>1. /\ UNCHANGED <<history, running, summary, pos, candles>>
      /\ \/ pc[r] = "strategy" /\ Goto(r, "wallet") /\ owner' = [owner EXCEPT !.strategy = r]
         \/ pc[r] = "wallet" /\ Goto(r, "candles") /\ owner' = [owner EXCEPT !.wallet = r]
  BY DEF SetStrategy, SetPaperWallet, given, botVars
<1>2. PICK label \in {"wallet", "candles"} : Goto(r, label) /\ pc'[r] = label
  BY <1>1, GoesOn DEF BusyPCs
<1>3. /\ OneIsBusy' /\ pc[r] \in BusyPCs
      /\ \A s \in Requests : s # r => pc'[s] = pc[s] /\ pc[s] \notin BusyPCs
      /\ pc' \in [Requests -> {"new", "done"} \cup BusyPCs] /\ running' \in BOOLEAN
  BY <1>1, <1>2, GoesOn DEF BusyPCs
<1>4. candles = <<>> /\ summary = Nobody
  BY <1>1 DEF RunPrepares, BusyPCs
<1>5. RunTypeOK'
  BY <1>1, <1>3, <1>4 DEF RunTypeOK
<1>6. RunPrepares'
  BY <1>1, <1>2, <1>3, <1>4 DEF RunPrepares, BusyPCs, RunTypeOK, Goto
<1>7. ChartIsOfOwner' /\ ChartIsOrdered'
  BY <1>1, <1>4 DEF ChartIsOfOwner, ChartIsOrdered
<1> QED BY <1>3, <1>5, <1>6, <1>7

LEMMA OnCandleShows ==
  ASSUME RunInv, NEW r \in Requests, OnCandle(r)
  PROVE  RunInv'
<1> DEFINE k == pos[r] + 1
           next == history[r].candles[k]
<1> USE DEF RunInv
<1>1. /\ pc[r] = "candles" /\ UNCHANGED <<history, pc, running, summary, owner>>
      /\ \/ candles' = candles
         \/ /\ candles' = Append(candles, ShownBy(r, k))
            /\ candles = <<>> \/ next.time > Last(candles).time
      /\ pos' = [pos EXCEPT ![r] = @ + 1]
  BY DEF OnCandle, Shown, ShownBy, given
<1>2. /\ pos' \in [Requests -> Nat] /\ k \in Nat \ {0} /\ ShownBy(r, k) \in ShownSet
      /\ candles \in Seq(ShownSet) /\ ShownSet' = ShownSet
      /\ ShownBy(r, k).run = r /\ ShownBy(r, k).time = next.time
  BY <1>1 DEF RunTypeOK, ShownSet, ShownBy
<1>3. CASE candles' = candles
  BY <1>1, <1>2, <1>3, OthersKeep
<1>4. CASE /\ candles' = Append(candles, ShownBy(r, k))
           /\ candles = <<>> \/ next.time > Last(candles).time
  <2> DEFINE c == ShownBy(r, k)
  <2>1. owner.strategy = r /\ owner.wallet = r /\ summary = Nobody
    BY <1>1 DEF RunPrepares, BusyPCs
  <2> HIDE DEF c, next, k
  <2>2. /\ candles' \in Seq(ShownSet) /\ Len(candles') = Len(candles) + 1 /\ Len(candles) \in Nat
        /\ DOMAIN candles' = 1..(Len(candles) + 1) /\ DOMAIN candles = 1..Len(candles)
        /\ candles'[Len(candles) + 1] = c
        /\ \A i \in 1..Len(candles) : candles'[i] = candles[i]
    BY <1>2, <1>4 DEF c
  <2>3. RunTypeOK'
    BY <1>1, <1>2, <2>2 DEF RunTypeOK
  <2>4. OneIsBusy'
    BY <1>1 DEF OneIsBusy
  <2>5. RunPrepares'
    BY <1>1 DEF RunPrepares, OneIsBusy, BusyPCs
  <2>6. ChartIsOfOwner'
    <3>1. \A i \in DOMAIN candles : candles[i].run = r
      BY <2>1 DEF ChartIsOfOwner
    <3>2. \A i \in DOMAIN candles' : i \in 1..Len(candles) \/ i = Len(candles) + 1
      BY ONLY <2>2
    <3>3. \A i \in DOMAIN candles' : candles'[i].run = r
      BY ONLY <1>2, <2>2, <3>1, <3>2 DEF c
    <3> QED BY <1>1, <2>1, <3>3 DEF ChartIsOfOwner
  <2>7. ChartIsOrdered'
    <3> SUFFICES ASSUME NEW i \in 2..(Len(candles) + 1)
                 PROVE  candles'[i - 1].time < candles'[i].time
      BY <2>2 DEF ChartIsOrdered
    <3>1. CASE i = Len(candles) + 1
      <4>1. candles # <<>> /\ i - 1 = Len(candles) /\ i - 1 \in 1..Len(candles)
        BY <2>2, <3>1
      <4>2. candles'[i - 1] = Last(candles)
        BY <2>2, <4>1 DEF Last
      <4>3. candles'[i].time = next.time /\ Last(candles).time < next.time
        BY <1>2, <1>4, <2>2, <3>1, <4>1 DEF c
      <4> QED BY <4>2, <4>3
    <3>2. CASE i # Len(candles) + 1
      <4>1. i \in 2..Len(candles) /\ i - 1 \in 1..Len(candles) /\ i \in 1..Len(candles)
        BY <2>2, <3>2
      <4> QED BY <2>2, <4>1 DEF ChartIsOrdered
    <3> QED BY <3>1, <3>2
  <2> QED BY <2>3, <2>4, <2>5, <2>6, <2>7
<1> QED BY <1>1, <1>3, <1>4

-----------------------------------------------------------------------------
(* The invariant, and what follows from it.                                 *)

LEMMA InitRunInv == Init => RunInv
<1> SUFFICES ASSUME Init PROVE RunInv
  OBVIOUS
<1>1. RunTypeOK
  <2>1. /\ pc = [r \in Requests |-> "new"] /\ running = FALSE /\ summary = Nobody
        /\ pos = [r \in Requests |-> 0] /\ candles = <<>>
        /\ owner = [strategy |-> Nobody, wallet |-> Nobody]
    BY DEF Init
  <2>2. <<>> \in Seq(ShownSet)
    OBVIOUS
  <2> QED BY ONLY <2>1, <2>2 DEF RunTypeOK
<1>2. OneIsBusy /\ RunPrepares
  BY DEF Init, OneIsBusy, RunPrepares, BusyPCs
<1>3. ChartIsOfOwner /\ ChartIsOrdered
  <2>1. Len(candles) = 0 /\ 2..0 = {}
    BY DEF Init
  <2> QED BY <2>1 DEF Init, ChartIsOfOwner, ChartIsOrdered
<1> QED BY <1>1, <1>2, <1>3 DEF RunInv

LEMMA NextRunInv == RunInv /\ [Next]_vars => RunInv'
<1> SUFFICES ASSUME RunInv, [Next]_vars PROVE RunInv'
  OBVIOUS
<1>1. pos \in [Requests -> Nat]
  BY DEF RunInv, RunTypeOK
<1>2. CASE \E r \in Requests : Reject(r) \/ Claim(r)
  BY <1>2, ClaimKeeps
<1>3. CASE \E r \in Requests : DropSummary(r) \/ StoreSummary(r) \/ Release(r)
  BY <1>3, SummaryDropKeeps, SummaryStoreKeeps, ReleaseKeeps
<1>4. CASE \E r \in Requests : ResetChart(r) \/ ResetFailed(r) \/ SetStrategy(r) \/ SetPaperWallet(r)
  BY <1>4, ResetKeeps, OwnersKeep
<1>5. CASE \E r \in Requests : OnCandle(r)
  BY <1>5, OnCandleShows
<1>6. CASE \E r \in Requests : Fetch(r) \/ FetchPanics(r) \/ RunFails(r) \/ Drained(r) \/ BotReturns(r)
  <2>1. PICK r \in Requests :
           /\ \/ pc[r] = "download" /\ Goto(r, "reset")
              \/ pc[r] = "download" /\ Goto(r, "release")
              \/ pc[r] \in {"download", "reset", "candles", "summary"} /\ Goto(r, "fail")
              \/ pc[r] = "candles" /\ Goto(r, "trade")
              \/ pc[r] = "trade" /\ Goto(r, "summary")
           /\ UNCHANGED <<history, running, summary, candles, owner>>
           /\ pos' = pos \/ pos' = [pos EXCEPT ![r] = 0]
    BY <1>6 DEF Fetch, FetchPanics, RunFails, Drained, BotReturns, given, botVars, chartVars
  <2>2. pos' \in [Requests -> Nat]
    BY <1>1, <2>1
  <2> QED BY <2>1, <2>2, GoingKeeps
<1>7. CASE \/ \E r \in Requests :
                 \/ BacktestCandle(r) \/ PublishFill(r) \/ OnOrder(r)
                 \/ \E status \in {"NEW", "FILLED"} : PlaceOrder(r, status)
           \/ \E m \in flying : PublishNew(m)
           \/ UNCHANGED vars
  <2>1. UNCHANGED <<history, pc, running, summary, candles, owner>>
    BY <1>7 DEF BacktestCandle, PublishFill, OnOrder, PlaceOrder, PublishNew, vars, given,
                botVars, chartVars
  <2>2. pos' = pos \/ \E r \in Requests : pos' = [pos EXCEPT ![r] = @ + 1]
    BY <1>7 DEF BacktestCandle, PublishFill, OnOrder, PlaceOrder, PublishNew, vars, botVars
  <2>3. pos' \in [Requests -> Nat]
    BY <1>1, <2>2
  <2> QED BY <2>1, <2>3, OthersKeep
<1> QED BY <1>2, <1>3, <1>4, <1>5, <1>6, <1>7 DEF Next, Handle

(* `running` admits one run at a time, and what the chart and the summary   *)
(* hold at any time comes from one.                                         *)
THEOREM RunInvCorrect == Spec => []RunInv
  BY InitRunInv, NextRunInv, PTL DEF Spec

(* /api/data and /api/summary never describe two runs, also while the next  *)
(* run is downloading, filling the chart, failing or panicking; and the     *)
(* candles are in the order of time.                                        *)
THEOREM OneRunIsShownCorrect == Spec => []OneRunIsShown
<1>1. RunInv => OneRunIsShown
  <2> SUFFICES ASSUME RunInv, candles # <<>>
               PROVE  /\ Cardinality(RunsInData \cup RunsInSummary) = 1
                      /\ RunsInEquity # {}
                      /\ \A i \in 2..Len(candles) : candles[i - 1].time < candles[i].time
    BY DEF OneRunIsShown
  <2> DEFINE w == owner.wallet
  <2>1. /\ w \in Requests /\ w # Nobody /\ owner.strategy = w
        /\ \A i \in DOMAIN candles : candles[i].run = w
        /\ summary \in {w, Nobody}
    BY BacktestAssumption DEF RunInv, ChartIsOfOwner, BacktestAssumption
  <2>2. RunsInEquity = {w}
    BY <2>1 DEF RunsInEquity
  <2>3. RunsInData \cup RunsInSummary = {w}
    BY <2>1, <2>2 DEF RunsInData, RunsInIndicators, RunsInSummary
  <2>4. Cardinality({w}) = 1
    BY FS_Singleton
  <2> QED BY <2>2, <2>3, <2>4 DEF RunInv, ChartIsOrdered
<1> QED BY <1>1, RunInvCorrect, PTL


-----------------------------------------------------------------------------
(* Orders on the chart.  Their times and those of candles are those of the  *)
(* history, and none of them is lost on the way.                            *)
Placed == [at : Int, status : {"NEW", "FILLED"}]

News == [run : Requests, id : Nat, at : Int, status : {"NEW", "FILLED"}]

HistoryCandle == [time : Int, parts : Seq(Int), complete : BOOLEAN]

TimesAreTrue ==
    /\ \A r \in Requests : history[r].candles \in Seq(HistoryCandle)
    /\ \A r \in Requests : pos[r] <= Len(history[r].candles)
    /\ book \in [Requests -> Seq(Placed)]
    /\ todo \in [Requests -> Seq(Nat)]
    /\ \A r \in Requests : \A i \in DOMAIN todo[r] : todo[r][i] \in DOMAIN book[r]
    /\ flying \subseteq News
    /\ feeding \in [Requests -> SUBSET News]
    /\ \A i \in DOMAIN candles : candles[i].time \in Int
    /\ \A id \in DOMAIN orders : orders[id].at \in Int

TimeInv == RunInv /\ TimesAreTrue


LEMMA HistoriesTyped ==
  ASSUME Init
  PROVE  \A r \in Requests : history[r].candles \in Seq(HistoryCandle)
<1>1. \A r \in Requests : history[r].candles = History(market, plan[r]).candles
                          /\ plan[r] \in Plans /\ market \in Markets
  <2>1. history = [r \in Requests |-> History(market, plan[r])]
        /\ plan \in [Requests -> Plans] /\ market \in Markets
    BY DEF Init
  <2> QED BY <2>1
<1> QED BY <1>1, HistoryAssumption DEF HistoryAssumption, HistoryCandle

LEMMA InitTimes == Init => TimesAreTrue
<1> SUFFICES ASSUME Init PROVE TimesAreTrue
  OBVIOUS
<1>1. /\ pos = [r \in Requests |-> 0] /\ book = [r \in Requests |-> <<>>]
      /\ todo = [r \in Requests |-> <<>>] /\ flying = {} /\ feeding = [r \in Requests |-> {}]
      /\ candles = <<>> /\ orders = NoOrders
  BY DEF Init
<1>2. \A r \in Requests : pos[r] <= Len(history[r].candles)
  <2>1. \A r \in Requests : pos[r] = 0 /\ Len(history[r].candles) \in Nat
    BY <1>1, HistoriesTyped, LenProperties
  <2> QED BY <2>1
<1>3. /\ <<>> \in Seq(Placed) /\ <<>> \in Seq(Nat) /\ \A r \in Requests : DOMAIN todo[r] = {}
  <2>1. <<>> \in Seq(Placed) /\ <<>> \in Seq(Nat) /\ DOMAIN <<>> = {}
    BY EmptySeq, Len(<<>>) = 0
  <2> QED BY <1>1, <2>1
<1>4. DOMAIN orders = {} /\ DOMAIN candles = {}
  BY <1>1 DEF NoOrders
<1>5. book \in [Requests -> Seq(Placed)] /\ todo \in [Requests -> Seq(Nat)]
      /\ feeding \in [Requests -> SUBSET News] /\ flying \subseteq News
  BY ONLY <1>1, <1>3
<1> QED BY ONLY <1>2, <1>3, <1>4, <1>5, HistoriesTyped, Init DEF TimesAreTrue

(* Steps that place, publish and show nothing.                              *)
LEMMA TimesRest ==
  ASSUME TimesAreTrue, UNCHANGED <<history, pos, book, todo, flying, feeding>>,
         candles' = candles \/ candles' = <<>>, orders' = orders \/ orders' = NoOrders
  PROVE  TimesAreTrue'
<1>1. DOMAIN NoOrders = {} /\ DOMAIN <<>> = {}
  BY DEF NoOrders
<1>2. \A i \in DOMAIN candles' : candles'[i].time \in Int
  BY <1>1 DEF TimesAreTrue
<1>3. \A id \in DOMAIN orders' : orders'[id].at \in Int
  BY <1>1 DEF TimesAreTrue
<1> QED BY <1>2, <1>3 DEF TimesAreTrue

(* The feed or the bot goes through the candles.                            *)
LEMMA PosMoves ==
  ASSUME TimeInv, NEW r \in Requests, UNCHANGED history,
         \/ pos' = [pos EXCEPT ![r] = 0]
         \/ pos[r] < Len(history[r].candles) /\ pos' = [pos EXCEPT ![r] = @ + 1]
  PROVE  \A q \in Requests : pos'[q] <= Len(history'[q].candles)
<1>1. /\ pos \in [Requests -> Nat]
      /\ \A s \in Requests : Len(history[s].candles) \in Nat
      /\ \A s \in Requests : pos[s] <= Len(history[s].candles)
  BY LenProperties DEF TimeInv, RunInv, RunTypeOK, TimesAreTrue
<1> QED BY <1>1

LEMMA OnCandleTimes ==
  ASSUME TimeInv, NEW r \in Requests, OnCandle(r)
  PROVE  TimesAreTrue'
<1> DEFINE h == history[r].candles
           k == pos[r] + 1
           c == [run |-> r, time |-> h[k].time, parts |-> h[k].parts]
<1>1. /\ UNCHANGED <<history, book, todo, flying, feeding, orders>>
      /\ pos[r] < Len(h) /\ pos' = [pos EXCEPT ![r] = @ + 1]
      /\ candles' = candles \/ candles' = Append(candles, c)
  BY DEF OnCandle, Shown, given, tradeVars
<1>2. h \in Seq(HistoryCandle) /\ k \in Nat \ {0} /\ k <= Len(h)
  BY <1>1, LenProperties DEF TimeInv, RunInv, RunTypeOK, TimesAreTrue
<1>3. c.time \in Int
  <2>1. h[k] \in HistoryCandle
    <3> HIDE DEF h, k
    <3> QED BY <1>2, ElementOfSeq
  <2> QED BY <2>1 DEF HistoryCandle
<1>4. candles \in Seq(ShownSet) /\ \A i \in DOMAIN candles : candles[i].time \in Int
  BY DEF TimeInv, RunInv, RunTypeOK, TimesAreTrue
<1>5. \A i \in DOMAIN candles' : candles'[i].time \in Int
  <2> HIDE DEF c
  <2>1. CASE candles' = candles
    BY <1>4, <2>1
  <2>2. CASE candles' = Append(candles, c)
    <3>1. \A i \in DOMAIN candles' :
             candles'[i] = c \/ (i \in DOMAIN candles /\ candles'[i] = candles[i])
      BY ONLY <1>4, <2>2
    <3> QED BY <1>3, <1>4, <3>1
  <2> QED BY <1>1, <2>1, <2>2
<1>6. \A s \in Requests : pos'[s] <= Len(history'[s].candles)
  BY <1>1, PosMoves
<1> QED BY <1>1, <1>5, <1>6 DEF TimeInv, TimesAreTrue


LEMMA BacktestCandleTimes ==
  ASSUME TimeInv, NEW r \in Requests, BacktestCandle(r)
  PROVE  TimesAreTrue'
<1> DEFINE h == history[r].candles
           k == pos[r] + 1
           new == [at |-> h[k].time, status |-> "FILLED"]
<1>1. PICK filled \in SUBSET Waiting(book[r]) :
        /\ UNCHANGED <<history, candles, flying, feeding, orders>>
        /\ pos[r] < Len(h) /\ pos' = [pos EXCEPT ![r] = @ + 1]
        /\ book' = [book EXCEPT ![r] = Updated(@, filled, new)]
        /\ todo' = [todo EXCEPT ![r] = ByID(filled)]
  BY DEF BacktestCandle, given, tradeVars, chartVars
<1>2. h \in Seq(HistoryCandle) /\ k \in Nat \ {0} /\ k <= Len(h)
  BY <1>1, LenProperties DEF TimeInv, RunInv, RunTypeOK, TimesAreTrue
<1>3. new \in Placed
  <2>1. h[k] \in HistoryCandle
    <3> HIDE DEF h, k
    <3> QED BY <1>2, ElementOfSeq
  <2> QED BY <2>1 DEF HistoryCandle, Placed
<1>4. book \in [Requests -> Seq(Placed)] /\ todo \in [Requests -> Seq(Nat)]
      /\ \A s \in Requests : \A i \in DOMAIN todo[s] : todo[s][i] \in DOMAIN book[s]
  BY DEF TimeInv, TimesAreTrue
<1>5. PICK n \in Nat : book[r] \in [1..n -> Placed]
  BY <1>4, SeqDef
<1> HIDE DEF h, k, new
<1>6. Updated(book[r], filled, new) \in [1..n -> Placed]
  BY <1>3, <1>5 DEF Updated
<1>7. Updated(book[r], filled, new) \in Seq(Placed)
      /\ DOMAIN Updated(book[r], filled, new) = DOMAIN book[r]
  BY <1>5, <1>6, SeqDef
<1>8. /\ ByID(filled) \in Seq(Nat)
      /\ \A i \in DOMAIN ByID(filled) : ByID(filled)[i] \in DOMAIN book[r]
  <2>1. filled \in SUBSET (1..n)
    BY <1>5 DEF Waiting
  <2>2. Cardinality(filled) \in Nat /\ \E s \in [1..Cardinality(filled) -> filled] : Ascending(s)
    BY <2>1, SetOfIndices, AscendingExists
  <2>3. ByID(filled) \in [1..Cardinality(filled) -> filled]
    BY <2>2 DEF ByID, Ascending
  <2>4. DOMAIN book[r] = 1..n
    BY <1>5
  <2> DEFINE ids == ByID(filled)
             k2 == Cardinality(filled)
  <2> HIDE DEF ids, k2
  <2>5. k2 \in Nat /\ ids \in [1..k2 -> filled]
    BY <2>2, <2>3 DEF ids, k2
  <2>6. ids \in [1..k2 -> Nat] /\ \A i \in DOMAIN ids : ids[i] \in 1..n
    <3>1. \A x \in filled : x \in Nat /\ x \in 1..n
      BY <2>1
    <3>2. \A i \in 1..k2 : ids[i] \in filled
      BY <2>5
    <3> QED BY ONLY <2>5, <3>1, <3>2
  <2>7. ids \in Seq(Nat)
    BY <2>5, <2>6, SeqDef
  <2> QED BY <2>4, <2>6, <2>7 DEF ids
<1>9. /\ book' \in [Requests -> Seq(Placed)] /\ todo' \in [Requests -> Seq(Nat)]
      /\ \A s \in Requests : \A i \in DOMAIN todo'[s] : todo'[s][i] \in DOMAIN book'[s]
  <2>1. book'[r] = Updated(book[r], filled, new) /\ todo'[r] = ByID(filled)
        /\ \A s \in Requests : s # r => book'[s] = book[s] /\ todo'[s] = todo[s]
    BY <1>1, <1>4
  <2>2. book' \in [Requests -> Seq(Placed)] /\ todo' \in [Requests -> Seq(Nat)]
    BY <1>1, <1>4, <1>7, <1>8
  <2> QED BY <1>4, <1>7, <1>8, <2>1, <2>2
<1>10. \A s \in Requests : pos'[s] <= Len(history'[s].candles)
  BY <1>1, PosMoves DEF h
<1> QED BY <1>1, <1>9, <1>10 DEF TimeInv, TimesAreTrue

LEMMA PlaceOrderTimes ==
  ASSUME TimeInv, NEW r \in Requests, NEW status \in {"NEW", "FILLED"}, PlaceOrder(r, status)
  PROVE  TimesAreTrue'
<1> DEFINE h == history[r].candles
           new == [at |-> h[pos[r]].time, status |-> status]
           id == Len(book[r]) + 1
           m == [run |-> r, id |-> id, at |-> new.at, status |-> status]
<1>1. /\ UNCHANGED <<history, pos, todo, candles, feeding, orders>>
      /\ pos[r] > 0 /\ todo[r] = <<>>
      /\ book' = [book EXCEPT ![r] = Append(@, new)]
      /\ flying' = flying \cup {m}
  BY DEF PlaceOrder, Created, Time, given, chartVars
<1>2. h \in Seq(HistoryCandle) /\ pos[r] \in 1..Len(h)
  BY <1>1, LenProperties DEF TimeInv, RunInv, RunTypeOK, TimesAreTrue
<1>3. new \in Placed /\ new.at \in Int
  <2>1. h[pos[r]] \in HistoryCandle
    <3> HIDE DEF h
    <3> QED BY <1>2, ElementOfSeq
  <2> QED BY <2>1 DEF HistoryCandle, Placed
<1>4. book \in [Requests -> Seq(Placed)] /\ todo \in [Requests -> Seq(Nat)]
      /\ \A s \in Requests : \A i \in DOMAIN todo[s] : todo[s][i] \in DOMAIN book[s]
      /\ flying \subseteq News
  BY DEF TimeInv, TimesAreTrue
<1>5. m \in News
  <2>1. id \in Nat
    BY <1>4, LenProperties
  <2> HIDE DEF id, new
  <2> QED BY <1>3, <2>1 DEF News
<1> HIDE DEF h, new, id, m
<1>6. Append(book[r], new) \in Seq(Placed) /\ DOMAIN book[r] \subseteq DOMAIN Append(book[r], new)
  BY <1>3, <1>4
<1>7. /\ book' \in [Requests -> Seq(Placed)]
      /\ \A s \in Requests : \A i \in DOMAIN todo'[s] : todo'[s][i] \in DOMAIN book'[s]
  <2>1. \A s \in Requests : DOMAIN book[s] \subseteq DOMAIN book'[s]
    BY <1>1, <1>4, <1>6
  <2> QED BY <1>1, <1>4, <1>6, <2>1
<1> QED BY <1>1, <1>4, <1>5, <1>7 DEF TimeInv, TimesAreTrue

(* A message reaches the goroutine of its feed.                             *)
LEMMA PublishTimes ==
  ASSUME TimeInv, NEW m \in News, Publish(m)
  PROVE  feeding' \in [Requests -> SUBSET News]
<1>1. feeding \in [Requests -> SUBSET News] /\ m.run \in Requests
  BY DEF TimeInv, TimesAreTrue, News
<1> QED BY <1>1 DEF Publish

LEMMA PublishFillTimes ==
  ASSUME TimeInv, NEW r \in Requests, PublishFill(r)
  PROVE  TimesAreTrue'
<1> DEFINE id == Head(todo[r])
<1>1. /\ UNCHANGED <<history, pos, book, flying, candles, orders>>
      /\ todo[r] # <<>> /\ Publish(Message(r, id))
      /\ todo' = [todo EXCEPT ![r] = Tail(@)]
  BY DEF PublishFill, given, chartVars
<1>2. book \in [Requests -> Seq(Placed)] /\ todo \in [Requests -> Seq(Nat)]
      /\ \A s \in Requests : \A i \in DOMAIN todo[s] : todo[s][i] \in DOMAIN book[s]
  BY DEF TimeInv, TimesAreTrue
<1>3. id = todo[r][1] /\ 1 \in DOMAIN todo[r] /\ Tail(todo[r]) \in Seq(Nat)
      /\ \A i \in DOMAIN Tail(todo[r]) : i + 1 \in DOMAIN todo[r] /\ Tail(todo[r])[i] = todo[r][i + 1]
  BY <1>1, <1>2
<1>4. id \in DOMAIN book[r] /\ id \in Nat
  BY <1>2, <1>3
<1>5. Message(r, id) \in News
  <2> HIDE DEF id
  <2>1. book[r][id] \in Placed
    BY <1>2, <1>4
  <2> QED BY <1>4, <2>1 DEF Message, News, Placed
<1>6. feeding' \in [Requests -> SUBSET News]
  BY <1>1, <1>5, PublishTimes
<1>7. todo' \in [Requests -> Seq(Nat)]
      /\ \A s \in Requests : \A i \in DOMAIN todo'[s] : todo'[s][i] \in DOMAIN book'[s]
  <2> HIDE DEF id
  <2>1. todo'[r] = Tail(todo[r]) /\ \A s \in Requests : s # r => todo'[s] = todo[s]
    BY <1>1, <1>2
  <2> QED BY <1>1, <1>2, <1>3, <2>1
<1> QED BY <1>1, <1>6, <1>7 DEF TimeInv, TimesAreTrue

LEMMA OnOrderTimes ==
  ASSUME TimeInv, NEW r \in Requests, OnOrder(r)
  PROVE  TimesAreTrue'
<1>1. PICK m \in feeding[r] :
        /\ feeding' = [feeding EXCEPT ![r] = @ \ {m}]
        /\ orders' = Recorded(m)
        /\ UNCHANGED <<history, pos, book, todo, flying, candles>>
  BY DEF OnOrder, given, botVars
<1>2. m.at \in Int /\ feeding \in [Requests -> SUBSET News]
  BY DEF TimeInv, TimesAreTrue, News
<1>3. \A id \in DOMAIN orders' : orders'[id].at \in Int
  BY <1>1, <1>2 DEF Recorded, TimeInv, TimesAreTrue
<1>4. feeding' \in [Requests -> SUBSET News]
  BY <1>1, <1>2
<1> QED BY <1>1, <1>3, <1>4 DEF TimeInv, TimesAreTrue

LEMMA NextTimes == TimeInv /\ [Next]_vars => TimesAreTrue'
<1> SUFFICES ASSUME TimeInv, [Next]_vars PROVE TimesAreTrue'
  OBVIOUS
<1>1. CASE \/ UNCHANGED vars
           \/ \E r \in Requests :
                 \/ Reject(r) \/ Claim(r) \/ DropSummary(r) \/ Fetch(r) \/ FetchPanics(r) \/ RunFails(r)
                 \/ ResetChart(r) \/ SetStrategy(r) \/ SetPaperWallet(r) \/ BotReturns(r)
                 \/ StoreSummary(r) \/ ResetFailed(r) \/ Release(r)
  <2>1. /\ UNCHANGED <<history, pos, book, todo, flying, feeding>>
        /\ candles' = candles \/ candles' = <<>>
        /\ orders' = orders \/ orders' = NoOrders
    BY <1>1 DEF Reject, Claim, DropSummary, Fetch, FetchPanics, RunFails, ResetChart, Reset,
                CandlesReset, SetStrategy, SetPaperWallet, BotReturns, StoreSummary, ResetFailed,
                Release, vars, given, botVars, tradeVars, chartVars
  <2> QED BY <2>1, TimesRest DEF TimeInv
<1>2. CASE \E r \in Requests : Drained(r)
  <2>1. PICK r \in Requests : pos' = [pos EXCEPT ![r] = 0]
    BY <1>2 DEF Drained
  <2>2. UNCHANGED <<history, book, todo, flying, feeding, candles, orders>>
    BY <1>2 DEF Drained, given, tradeVars, chartVars
  <2> QED BY <2>1, <2>2, PosMoves DEF TimeInv, TimesAreTrue
<1>3. CASE \E r \in Requests :
              \/ OnCandle(r) \/ BacktestCandle(r) \/ PublishFill(r) \/ OnOrder(r)
              \/ \E status \in {"NEW", "FILLED"} : PlaceOrder(r, status)
  BY <1>3, OnCandleTimes, BacktestCandleTimes, PublishFillTimes, OnOrderTimes, PlaceOrderTimes
<1>4. CASE \E m \in flying : PublishNew(m)
  <2>1. PICK m \in flying : PublishNew(m)
    BY <1>4
  <2>2. /\ UNCHANGED <<history, pos, book, todo, candles, orders>>
        /\ flying' \subseteq flying /\ Publish(m)
    BY <2>1 DEF PublishNew, given, botVars, chartVars
  <2>3. flying \subseteq News
    BY DEF TimeInv, TimesAreTrue
  <2>4. feeding' \in [Requests -> SUBSET News]
    BY <2>2, <2>3, PublishTimes
  <2> QED BY <2>2, <2>3, <2>4 DEF TimeInv, TimesAreTrue
<1> QED BY <1>1, <1>2, <1>3, <1>4 DEF Next, Handle

LEMMA TimeInvCorrect == Spec => []TimeInv
<1>1. Init => TimeInv
  BY InitRunInv, InitTimes DEF TimeInv
<1>2. TimeInv /\ [Next]_vars => TimeInv'
  BY NextRunInv, NextTimes DEF TimeInv
<1> QED BY <1>1, <1>2, PTL DEF Spec


-----------------------------------------------------------------------------
(* From ordered times to one candle for each order.                         *)

(* Times in order, from any index to any later one.                         *)
LEMMA OrderedTimes ==
  ASSUME NEW n \in Nat, NEW time, \A i \in 1..n : time[i] \in Int,
         \A i \in 2..n : time[i - 1] < time[i]
  PROVE  \A i, j \in 1..n : i < j => time[i] < time[j]
<1> DEFINE G == {k \in Nat : \A i \in 1..n : i + k + 1 \in 1..n => time[i] < time[i + k + 1]}
<1>1. 0 \in G
  <2> SUFFICES ASSUME NEW i \in 1..n, i + 0 + 1 \in 1..n PROVE time[i] < time[i + 0 + 1]
    OBVIOUS
  <2>1. i + 0 + 1 = i + 1 /\ i + 1 \in 2..n /\ (i + 1) - 1 = i
    OBVIOUS
  <2> QED BY <2>1
<1>2. ASSUME NEW k \in Nat, k \in G PROVE k + 1 \in G
  <2> SUFFICES ASSUME NEW i \in 1..n, i + (k + 1) + 1 \in 1..n
               PROVE  time[i] < time[i + (k + 1) + 1]
    OBVIOUS
  <2> DEFINE j == i + k + 1
  <2>1. j \in 1..n /\ j + 1 \in 2..n /\ (j + 1) - 1 = j /\ j + 1 \in 1..n /\ i + (k + 1) + 1 = j + 1
    OBVIOUS
  <2>2. time[i] < time[j]
    BY <1>2, <2>1
  <2> HIDE DEF j
  <2>3. time[j] < time[j + 1]
    BY <2>1
  <2> QED BY <2>1, <2>2, <2>3
<1>3. Nat \subseteq G
  <2> HIDE DEF G
  <2> QED BY <1>1, <1>2, NatSetInduction
<1> SUFFICES ASSUME NEW i \in 1..n, NEW j \in 1..n, i < j PROVE time[i] < time[j]
  OBVIOUS
<1>4. j - i - 1 \in Nat /\ i + (j - i - 1) + 1 = j
  OBVIOUS
<1>5. j - i - 1 \in G
  BY <1>3, <1>4
<1> QED BY <1>4, <1>5

(* The candle that a time falls into or follows: the last that is not later.*)
LEMMA LastNotLater ==
  ASSUME NEW n \in Nat, n # 0, NEW time, \A i \in 1..n : time[i] \in Int,
         NEW at \in Int, time[1] <= at
  PROVE  \E i \in 1..n : time[i] <= at /\ (i = n \/ at < time[i + 1])
<1> DEFINE G == {k \in Nat : k + 1 \in 1..n =>
                    \E i \in 1..(k + 1) : time[i] <= at /\ (i = k + 1 \/ at < time[i + 1])}
<1>1. 0 \in G
  OBVIOUS
<1>2. ASSUME NEW k \in Nat, k \in G PROVE k + 1 \in G
  <2> SUFFICES ASSUME (k + 1) + 1 \in 1..n
               PROVE  \E i \in 1..((k + 1) + 1) :
                         time[i] <= at /\ (i = (k + 1) + 1 \/ at < time[i + 1])
    OBVIOUS
  <2>1. PICK i \in 1..(k + 1) : time[i] <= at /\ (i = k + 1 \/ at < time[i + 1])
    BY <1>2
  <2>2. CASE time[(k + 1) + 1] <= at
    BY <2>2
  <2>3. CASE ~(time[(k + 1) + 1] <= at)
    <3>1. at < time[(k + 1) + 1]
      BY <2>3
    <3>2. at < time[i + 1] /\ i \in 1..((k + 1) + 1)
      BY <2>1, <3>1
    <3> QED BY <2>1, <3>2
  <2> QED BY <2>2, <2>3
<1>3. n - 1 \in G /\ (n - 1) + 1 = n
  <2>1. n - 1 \in Nat /\ (n - 1) + 1 = n
    OBVIOUS
  <2> HIDE DEF G
  <2> QED BY <1>1, <1>2, <2>1, NatSetInduction
<1> QED BY <1>3

(* An order that is not older than the first candle is shown with one       *)
(* candle, whatever its time: that of its own, or the last before it.       *)
LEMMA ShownOnce ==
  ASSUME TimeInv, candles # <<>>, NEW id \in DOMAIN orders, orders[id].at >= candles[1].time
  PROVE  Cardinality({i \in DOMAIN candles : id \in OrdersOfCandle(i)}) = 1
<1> DEFINE at == orders[id].at
           n == Len(candles)
           time == [i \in 1..n |-> candles[i].time]
<1>1. candles \in Seq(ShownSet) /\ n \in Nat /\ n # 0 /\ DOMAIN candles = 1..n
  BY LenProperties, EmptySeq DEF TimeInv, RunInv, RunTypeOK
<1>2. at \in Int /\ \A i \in 1..n : candles[i].time \in Int
  BY <1>1 DEF TimeInv, TimesAreTrue
<1>3. \A i \in 1..n : time[i] = candles[i].time /\ time[i] \in Int
  BY <1>2
<1>4. \A i \in 2..n : time[i - 1] < time[i]
  <2> SUFFICES ASSUME NEW i \in 2..n PROVE time[i - 1] < time[i]
    OBVIOUS
  <2>1. i - 1 \in 1..n /\ i \in 1..n /\ candles[i - 1].time < candles[i].time
    BY <1>1 DEF TimeInv, RunInv, ChartIsOrdered
  <2> QED BY <1>3, <2>1
<1>5. time[1] <= at
  BY <1>1, <1>2, <1>3
<1>6. \A i \in 1..n : id \in OrdersOfCandle(i) <=>
         \/ at = time[i]
         \/ i < n /\ time[i] < at /\ at < time[i + 1]
         \/ /\ i = n /\ at > time[i]
            /\ \A j \in 1..n : ~(\/ at = time[j]
                                 \/ j < n /\ time[j] < at /\ at < time[j + 1])
  <2>1. ASSUME NEW i \in 1..n
        PROVE  Within(i, at) <=> at = time[i] \/ (i < n /\ time[i] < at /\ at < time[i + 1])
    <3>1. i < n => i + 1 \in 1..n
      BY <1>1
    <3> HIDE DEF time, at
    <3> QED BY <1>3, <3>1 DEF Within
  <2> HIDE DEF time, at
  <2> QED BY <1>1, <1>3, <2>1 DEF OrdersOfCandle, at
<1> HIDE DEF time, at, n
<1>7. PICK i \in 1..n : time[i] <= at /\ (i = n \/ at < time[i + 1])
  BY <1>1, <1>2, <1>3, <1>5, LastNotLater
<1>8. \A j, k \in 1..n : j < k => time[j] < time[k]
  BY <1>1, <1>3, <1>4, OrderedTimes
<1>9. \A j \in 1..n : j > i => at < time[j]
  <2> SUFFICES ASSUME NEW j \in 1..n, j > i PROVE at < time[j]
    OBVIOUS
  <2>1. i # n /\ i + 1 \in 1..n /\ at < time[i + 1]
    BY <1>1, <1>7
  <2>2. j = i + 1 \/ time[i + 1] < time[j]
    BY <1>1, <1>8, <2>1
  <2> QED BY <1>2, <1>3, <2>1, <2>2
<1>10. \A j \in 1..n : j < i => j + 1 \in 1..n /\ time[j] < at /\ time[j + 1] <= at
  <2> SUFFICES ASSUME NEW j \in 1..n, j < i
               PROVE  j + 1 \in 1..n /\ time[j] < at /\ time[j + 1] <= at
    OBVIOUS
  <2>1. j + 1 \in 1..n /\ time[j] < time[i] /\ (j + 1 = i \/ time[j + 1] < time[i])
    BY <1>1, <1>8
  <2> QED BY <1>2, <1>3, <1>7, <2>1
<1>11. id \in OrdersOfCandle(i)
  <2>1. CASE time[i] = at
    BY <1>6, <2>1
  <2>2. CASE time[i] # at /\ i # n
    <3>1. time[i] < at /\ i < n /\ at < time[i + 1]
      BY <1>1, <1>2, <1>3, <1>7, <2>2
    <3> QED BY <1>6, <3>1
  <2>3. CASE time[i] # at /\ i = n
    <3>1. at > time[i]
      BY <1>2, <1>3, <1>7, <2>3
    <3>2. \A j \in 1..n : j # i => j < i
      BY <1>1, <2>3
    <3>3. ASSUME NEW j \in 1..n
          PROVE  ~(at = time[j] \/ (j < n /\ time[j] < at /\ at < time[j + 1]))
      BY <1>1, <1>2, <1>3, <1>10, <2>3, <3>2
    <3> QED BY <1>6, <2>3, <3>1, <3>3
  <2> QED BY <2>1, <2>2, <2>3
<1>12. ASSUME NEW j \in 1..n, id \in OrdersOfCandle(j)
       PROVE  j = i
  <2>1. CASE j > i
    <3>1. at < time[j]
      BY <1>9, <2>1
    <3> QED BY <1>2, <1>3, <1>6, <1>12, <3>1
  <2>2. CASE j < i
    <3>1. time[j] < at /\ time[j + 1] <= at /\ j # n /\ time[j + 1] \in Int
      BY <1>1, <1>3, <1>10, <2>2
    <3> QED BY <1>2, <1>3, <1>6, <1>12, <3>1
  <2> QED BY <1>1, <2>1, <2>2
<1>13. {j \in DOMAIN candles : id \in OrdersOfCandle(j)} = {i}
  BY <1>1, <1>11, <1>12
<1> QED BY <1>13, FS_Singleton

(* Chart.CandlesByPair neither loses an order nor shows it with two         *)
(* candles, in every state of the chart.                                    *)
THEOREM OrdersShownOnceCorrect == Spec => []OrdersShownOnce
<1>1. TimeInv => OrdersShownOnce
  BY ShownOnce DEF OrdersShownOnce
<1> QED BY <1>1, TimeInvCorrect, PTL

=============================================================================
