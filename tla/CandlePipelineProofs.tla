------------------------ MODULE CandlePipelineProofs ------------------------
(***************************************************************************)
(* Proofs about CandlePipeline for any number of pairs and candles:        *)
(* PipelineInv and QueueInv are inductive.  Channels are closed after their *)
(* last sender; the strategy never goes back in time, in whatever order    *)
(* the goroutines deliver; the array of the priority queue is a heap, each *)
(* pop finds the earliest candle, and no candle is lost or delivered twice. *)
(***************************************************************************)
EXTENDS CandlePipeline, SetLemmas, SequenceTheorems

(* A read loop runs only while its goroutine waits for it, and a feed that  *)
(* Run has not reached has no stream.                                      *)
StreamsOpen ==
    /\ \A f \in Feeds : reader[f] \in {"read", "candle", "error"} => loop[f] \in {"wait", "join"}
    /\ \A f \in Feeds :
          reader[f] = "candle" => wire[f] # <<>>
    /\ \A f \in Feeds :
          main = "setup" \/ (main = "connect" /\ f > setup) => loop[f] = "unopened"

(* Without partial candles every row is a closed candle, and the last row   *)
(* is the candle the strategy acted on last.                               *)
ClosedRows ==
    /\ main = "setup" => \A f \in Feeds : acted[f] = 0
    /\ ~partials => \A f \in Feeds :
          /\ \A i \in 1..Len(frame[f]) : frame[f][i] % 2 = 0
          /\ acted[f] # 0 => /\ Len(frame[f]) >= WarmupPeriod
                             /\ frame[f][Len(frame[f])] = acted[f]

PipelineInv == TypeOK /\ StreamsOpen /\ ClosedRows

(* A candle of the bounded instance.                                       *)
LEMMA CandleType ==
  ASSUME NEW f \in Feeds, NEW n \in 1..LastCandle[f]
  PROVE  Candle(f, n) \in Candles
  BY DEF Candles

LEMMA CandleFields ==
  ASSUME NEW c \in Candles
  PROVE  /\ c.feed \in Feeds /\ c.n \in 1..LastCandle[c.feed] /\ c.n \in Nat
         /\ c = Candle(c.feed, c.n)
<1>1. PICK f \in Feeds : \E n \in 1..LastCandle[f] : c = Candle(f, n)
  BY DEF Candles
<1>2. PICK n \in 1..LastCandle[f] : c = Candle(f, n)
  BY <1>1
<1>3. LastCandle[f] \in Nat
  BY <1>1, StreamAssumption
<1> QED BY <1>1, <1>2, <1>3 DEF Candle

-----------------------------------------------------------------------------
(* The operations of the queue rearrange an array of candles: up and down   *)
(* move what they pass one place along a path (see SetLemmas).              *)

(* up goes from a place to its parent.                                      *)
UpLinks(q) ==
    [i \in 1..Len(q) |-> IF i = 1 \/ ~Less(q[Len(q)], q[Parent(i)]) THEN 0 ELSE Parent(i)]

(* The rank of a place falls along the way up.                              *)
UpRank(q) == [i \in 1..Len(q) |-> i]

(* The child that down compares with, and down's way to it.                 *)
Best(q, i) ==
    IF 2 * i + 1 <= Len(q) /\ Less(q[2 * i + 1], q[2 * i]) THEN 2 * i + 1 ELSE 2 * i

(* down goes from a place to its best child, and its rank falls too.        *)
DownLinks(q) ==
    [i \in 1..Len(q) |-> IF 2 * i > Len(q) \/ ~Less(q[Best(q, i)], q[1]) THEN 0 ELSE Best(q, i)]

DownRank(q) == [i \in 1..Len(q) |-> Len(q) - i]

(* up moves a path from the last place, down one from the first.            *)
LEMMA UpIsMove ==
  ASSUME NEW q \in Seq(Candles), q # <<>>
  PROVE  /\ Links(Len(q), UpLinks(q), UpRank(q))
         /\ \E P : /\ IsPath(P, Len(q), Len(q), UpLinks(q), UpRank(q))
                   /\ Up(q) = Moved(q, P, Len(q), Len(q), UpLinks(q))
<1> DEFINE n == Len(q)
           nx == UpLinks(q)
           stays(i) == i = 1 \/ ~Less(q[n], q[Parent(i)])
           Solves(p) == p = [i \in 1..n |-> IF stays(i) THEN {i} ELSE {i} \cup p[Parent(i)]]
           path[i \in 1..n] == IF stays(i) THEN {i} ELSE {i} \cup path[Parent(i)]
<1>1. n \in Nat /\ n \in 1..n
  BY EmptySeq
<1>2. \A i \in 1..n : /\ i # 1 => Parent(i) \in 1..n /\ Parent(i) < i
                      /\ nx[i] = (IF stays(i) THEN 0 ELSE Parent(i))
  BY <1>1 DEF Parent, UpLinks
<1>3. Links(n, nx, UpRank(q))
  <2>1. UpRank(q) \in [1..n -> Nat] /\ \A i \in 1..n : UpRank(q)[i] = i
    BY <1>1 DEF UpRank
  <2>2. nx \in [1..n -> 0..n]
    BY <1>1, <1>2 DEF UpLinks
  <2>3. \A i \in 1..n : nx[i] # 0 => UpRank(q)[nx[i]] < UpRank(q)[i]
    BY <1>1, <1>2, <2>1
  <2> HIDE DEF n, nx
  <2> QED BY <1>1, <2>1, <2>2, <2>3 DEF Links
<1>4. Up(q) = [j \in 1..n |-> CASE j \notin path[n] -> q[j]
                                [] j \in path[n] /\ stays(j) -> q[n]
                                [] j \in path[n] /\ ~stays(j) -> q[Parent(j)]]
  BY DEF Up
<1>5. ASSUME NEW p PROVE Solves(p) <=> Paths(p, n, nx)
  <2>1. ASSUME NEW i \in 1..n
        PROVE  (IF stays(i) THEN {i} ELSE {i} \cup p[Parent(i)])
                  = (IF nx[i] = 0 THEN {i} ELSE {i} \cup p[nx[i]])
    <3>1. (stays(i) => nx[i] = 0) /\ (~stays(i) => nx[i] # 0 /\ nx[i] = Parent(i))
      BY <1>2, <2>1
    <3> HIDE DEF n, nx, stays
    <3> QED BY ONLY <3>1
  <2>2. [i \in 1..n |-> IF stays(i) THEN {i} ELSE {i} \cup p[Parent(i)]]
           = [i \in 1..n |-> IF nx[i] = 0 THEN {i} ELSE {i} \cup p[nx[i]]]
    <3> HIDE DEF n, nx, stays
    <3> QED BY <2>1
  <2> QED BY <2>2 DEF Paths
<1> HIDE DEF n, nx, stays
<1>6. Paths(path, n, nx)
  <2>1. nx \in [1..n -> 0..n]
    BY <1>3 DEF Links
  <2>2. \E p : Solves(p)
    <3> HIDE DEF Solves
    <3> QED BY <1>1, <1>5, <2>1, PathsExist
  <2>3. path = CHOOSE p : Solves(p)
    OBVIOUS
  <2>4. Solves(path)
    <3> HIDE DEF Solves, path
    <3> QED BY <2>2, <2>3
  <2> HIDE DEF Solves, path
  <2> QED BY <1>5, <2>4
<1> HIDE DEF path
<1>7. IsPath(path[n], n, n, nx, UpRank(q))
  BY <1>1, <1>3, <1>6, PathsArePaths
<1>8. Up(q) = Moved(q, path[n], n, n, nx)
  <2>1. \A j \in 1..n : (CASE j \notin path[n] -> q[j]
                           [] j \in path[n] /\ stays(j) -> q[n]
                           [] j \in path[n] /\ ~stays(j) -> q[Parent(j)])
           = (IF j \notin path[n] THEN q[j] ELSE IF nx[j] = 0 THEN q[n] ELSE q[nx[j]])
    <3> SUFFICES ASSUME NEW j \in 1..n
                 PROVE  (CASE j \notin path[n] -> q[j]
                           [] j \in path[n] /\ stays(j) -> q[n]
                           [] j \in path[n] /\ ~stays(j) -> q[Parent(j)])
                        = (IF j \notin path[n] THEN q[j] ELSE IF nx[j] = 0 THEN q[n] ELSE q[nx[j]])
      OBVIOUS
    <3>1. stays(j) => nx[j] = 0
      BY <1>2
    <3>2. ~stays(j) => nx[j] # 0 /\ nx[j] = Parent(j)
      <4>1. j # 1 => Parent(j) \in 1..n
        BY <1>2
      <4>2. ~stays(j) => j # 1
        BY DEF stays
      <4> QED BY <1>2, <4>1, <4>2
    <3> QED BY <3>1, <3>2
  <2> QED BY <1>4, <2>1 DEF Moved
<1> QED BY <1>3, <1>7, <1>8 DEF n, nx

(* The same for down, from the first place.                                 *)
LEMMA DownIsMove ==
  ASSUME NEW q \in Seq(Candles), q # <<>>
  PROVE  /\ Links(Len(q), DownLinks(q), DownRank(q))
         /\ \E P : /\ IsPath(P, 1, Len(q), DownLinks(q), DownRank(q))
                   /\ Down(q) = Moved(q, P, 1, Len(q), DownLinks(q))
<1> DEFINE n == Len(q)
           nx == DownLinks(q)
           best(i) == Best(q, i)
           stays(i) == 2 * i > n \/ ~Less(q[best(i)], q[1])
           Solves(p) == p = [i \in 1..n |-> IF stays(i) THEN {i} ELSE {i} \cup p[best(i)]]
           path == CHOOSE p : Solves(p)
<1>1. n \in Nat /\ 1 \in 1..n
  BY EmptySeq
<1>2. \A i \in 1..n : /\ ~stays(i) => best(i) \in 1..n /\ i < best(i)
                      /\ nx[i] = (IF stays(i) THEN 0 ELSE best(i))
  BY <1>1 DEF Best, DownLinks
<1>3. Links(n, nx, DownRank(q))
  <2>1. DownRank(q) \in [1..n -> Nat] /\ \A i \in 1..n : DownRank(q)[i] = n - i
    BY <1>1 DEF DownRank
  <2>2. nx \in [1..n -> 0..n]
    <3>1. DOMAIN nx = 1..n /\ nx = [i \in 1..n |-> nx[i]]
      BY DEF DownLinks
    <3> HIDE DEF n, nx, best, stays
    <3>2. \A i \in 1..n : nx[i] \in 0..n
      BY <1>1, <1>2
    <3> QED BY <3>1, <3>2
  <2>3. \A i \in 1..n : nx[i] # 0 => nx[i] \in 1..n /\ i < nx[i]
    <3> HIDE DEF n, nx, best, stays
    <3> QED BY <1>2
  <2> HIDE DEF n, nx, best, stays
  <2>4. \A i \in 1..n : nx[i] # 0 => DownRank(q)[nx[i]] < DownRank(q)[i]
    BY <1>1, <2>1, <2>3
  <2> QED BY <1>1, <2>1, <2>2, <2>4 DEF Links
<1>4. Down(q) = [j \in 1..n |-> CASE j \notin path[1] -> q[j]
                                  [] j \in path[1] /\ stays(j) -> q[1]
                                  [] j \in path[1] /\ ~stays(j) -> q[best(j)]]
  BY DEF Down, Best
<1>5. ASSUME NEW p PROVE Solves(p) <=> Paths(p, n, nx)
  <2>1. ASSUME NEW i \in 1..n
        PROVE  (IF stays(i) THEN {i} ELSE {i} \cup p[best(i)])
                  = (IF nx[i] = 0 THEN {i} ELSE {i} \cup p[nx[i]])
    <3> HIDE DEF n, nx, best, stays
    <3>1. (stays(i) => nx[i] = 0) /\ (~stays(i) => nx[i] # 0 /\ nx[i] = best(i))
      BY <1>2, <2>1
    <3> QED BY ONLY <3>1
  <2>2. [i \in 1..n |-> IF stays(i) THEN {i} ELSE {i} \cup p[best(i)]]
           = [i \in 1..n |-> IF nx[i] = 0 THEN {i} ELSE {i} \cup p[nx[i]]]
    <3> HIDE DEF n, nx, best, stays
    <3> QED BY <2>1
  <2> QED BY <2>2 DEF Paths
<1> HIDE DEF n, nx, best, stays
<1>6. Paths(path, n, nx)
  <2>1. nx \in [1..n -> 0..n]
    BY <1>3 DEF Links
  <2>2. \E p : Solves(p)
    <3> HIDE DEF Solves
    <3> QED BY <1>1, <1>5, <2>1, PathsExist
  <2>3. Solves(path)
    <3> HIDE DEF Solves
    <3> QED BY <2>2
  <2> HIDE DEF Solves, path
  <2> QED BY <1>5, <2>3
<1> HIDE DEF path
<1>7. IsPath(path[1], 1, n, nx, DownRank(q))
  BY <1>1, <1>3, <1>6, PathsArePaths
<1>8. Down(q) = Moved(q, path[1], 1, n, nx)
  <2>1. \A j \in 1..n : (CASE j \notin path[1] -> q[j]
                           [] j \in path[1] /\ stays(j) -> q[1]
                           [] j \in path[1] /\ ~stays(j) -> q[best(j)])
           = (IF j \notin path[1] THEN q[j] ELSE IF nx[j] = 0 THEN q[1] ELSE q[nx[j]])
    <3> SUFFICES ASSUME NEW j \in 1..n
                 PROVE  (CASE j \notin path[1] -> q[j]
                           [] j \in path[1] /\ stays(j) -> q[1]
                           [] j \in path[1] /\ ~stays(j) -> q[best(j)])
                        = (IF j \notin path[1] THEN q[j] ELSE IF nx[j] = 0 THEN q[1] ELSE q[nx[j]])
      OBVIOUS
    <3>1. stays(j) => nx[j] = 0
      BY <1>2
    <3>2. ~stays(j) => nx[j] # 0 /\ nx[j] = best(j)
      BY <1>2
    <3> QED BY <3>1, <3>2
  <2> QED BY <1>4, <2>1 DEF Moved
<1> QED BY <1>3, <1>7, <1>8 DEF n, nx

(* A move along a path keeps what is in the array.                          *)
LEMMA MovedSeq ==
  ASSUME NEW q \in Seq(Candles), NEW P, NEW s, NEW nx, NEW rank,
         IsPath(P, s, Len(q), nx, rank), Links(Len(q), nx, rank)
  PROVE  /\ Moved(q, P, s, Len(q), nx) \in Seq(Candles)
         /\ Len(Moved(q, P, s, Len(q), nx)) = Len(q)
         /\ Range(Moved(q, P, s, Len(q), nx)) = Range(q)
         /\ IsInjective(q) => IsInjective(Moved(q, P, s, Len(q), nx))
<1>1. PICK n, t : n = Len(q) /\ t = Moved(q, P, s, Len(q), nx)
  OBVIOUS
<1>2. n \in Nat /\ DOMAIN q = 1..n /\ \A i \in 1..n : q[i] \in Candles
  BY <1>1
<1>3. Range(t) = Range(q) /\ (IsInjective(q) => IsInjective(t))
  BY <1>1, <1>2, MovedIsPermuted
<1>4. \A j \in 1..n : t[j] \in Candles
  <2>1. \A j \in 1..n : t[j] \in Range(t)
    BY <1>1 DEF Moved, Range
  <2>2. Range(q) \subseteq Candles
    BY <1>2 DEF Range
  <2> QED BY <1>3, <2>1, <2>2
<1>5. DOMAIN t = 1..n /\ t = [j \in 1..n |-> t[j]]
  BY <1>1 DEF Moved
<1>6. t \in Seq(Candles) /\ Len(t) = n
  BY <1>2, <1>4, <1>5
<1> QED BY <1>1, <1>3, <1>6

(* So up and down keep the items of the array.                              *)
LEMMA UpKept ==
  ASSUME NEW q \in Seq(Candles), q # <<>>
  PROVE  /\ Up(q) \in Seq(Candles) /\ Len(Up(q)) = Len(q) /\ Range(Up(q)) = Range(q)
         /\ IsInjective(q) => IsInjective(Up(q))
  BY UpIsMove, MovedSeq

LEMMA DownKept ==
  ASSUME NEW q \in Seq(Candles), q # <<>>
  PROVE  /\ Down(q) \in Seq(Candles) /\ Len(Down(q)) = Len(q) /\ Range(Down(q)) = Range(q)
         /\ IsInjective(q) => IsInjective(Down(q))
  BY DownIsMove, MovedSeq

(* Pop without down: the last item has taken the place of the first.        *)
Rest(q) == <<Last(q)>> \o SubSeq(q, 2, Len(q) - 1)

(* Its items are those of the queue, but for the first.                     *)
LEMMA RestItems ==
  ASSUME NEW q \in Seq(Candles), Len(q) > 1
  PROVE  /\ Rest(q) \in Seq(Candles) /\ Len(Rest(q)) = Len(q) - 1 /\ Rest(q) # <<>>
         /\ \A i \in 1..(Len(q) - 1) : Rest(q)[i] = IF i = 1 THEN q[Len(q)] ELSE q[i]
<1> DEFINE n == Len(q)
           one == <<Last(q)>>
           mid == SubSeq(q, 2, n - 1)
<1>1. n \in Nat /\ n > 1 /\ n - 1 \in Nat
  OBVIOUS
<1>2. Last(q) = q[n] /\ q[n] \in Candles
  BY <1>1 DEF Last
<1>3. one \in Seq(Candles) /\ Len(one) = 1 /\ one[1] = q[n]
  BY <1>2
<1>4. mid \in Seq(Candles) /\ Len(mid) = n - 2 /\ \A i \in 1..(n - 2) : mid[i] = q[i + 1]
  <2>1. mid \in Seq(Candles) /\ Len(mid) = IF 2 <= n - 1 THEN (n - 1) - 2 + 1 ELSE 0
    BY <1>1, SubSeqProperties
  <2>2. \A i \in 1..(n - 2) : mid[i] = q[2 + i - 1]
    BY <1>1
  <2> HIDE DEF mid, n, one
  <2>3. Len(mid) = n - 2
    BY <1>1, <2>1
  <2>4. \A i \in 1..(n - 2) : mid[i] = q[i + 1]
    BY <1>1, <2>2
  <2> QED BY <2>1, <2>3, <2>4
<1> HIDE DEF n, one, mid
<1>5. /\ one \o mid \in Seq(Candles) /\ Len(one \o mid) = n - 1
      /\ \A i \in 1..(n - 1) : (one \o mid)[i] = IF i = 1 THEN q[n] ELSE q[i]
  <2>1. /\ one \o mid \in Seq(Candles) /\ Len(one \o mid) = Len(one) + Len(mid)
        /\ \A i \in 1..(Len(one) + Len(mid)) :
              (one \o mid)[i] = IF i <= Len(one) THEN one[i] ELSE mid[i - Len(one)]
    BY <1>3, <1>4, ConcatProperties
  <2>2. /\ one \o mid \in Seq(Candles) /\ Len(one \o mid) = n - 1
        /\ \A i \in 1..(n - 1) : (one \o mid)[i] = IF i <= 1 THEN one[i] ELSE mid[i - 1]
    <3>1. Len(one) = 1 /\ Len(mid) = n - 2 /\ Len(one) + Len(mid) = n - 1
      BY <1>1, <1>3, <1>4
    <3> QED BY <2>1, <3>1
  <2>3. ASSUME NEW i \in 1..(n - 1) PROVE (one \o mid)[i] = IF i = 1 THEN q[n] ELSE q[i]
    <3>1. CASE i = 1
      BY <1>3, <2>2, <3>1
    <3>2. CASE i # 1
      <4>1. i - 1 \in 1..(n - 2) /\ (i - 1) + 1 = i /\ ~(i <= 1)
        BY <1>1, <3>2
      <4>2. mid[i - 1] = q[i]
        BY <1>4, <4>1
      <4> QED BY <2>2, <3>2, <4>1, <4>2
    <3> QED BY <3>1, <3>2
  <2> QED BY <2>2, <2>3
<1>6. Rest(q) = one \o mid
  BY DEF Rest, one, mid, n
<1>7. one \o mid # <<>>
  BY <1>1, <1>5
<1> QED BY <1>5, <1>6, <1>7 DEF n

(* Pop takes the first item off and keeps the others.                       *)
LEMMA PopKept ==
  ASSUME NEW q \in Seq(Candles)
  PROVE  /\ Pop(q) \in Seq(Candles)
         /\ q = <<>> => Pop(q) = <<>>
         /\ q # <<>> => /\ Head(q) \in Candles /\ Len(Pop(q)) = Len(q) - 1
                        /\ Range(q) = Range(Pop(q)) \cup {Head(q)}
                        /\ IsInjective(q) => IsInjective(Pop(q)) /\ Head(q) \notin Range(Pop(q))
<1> DEFINE n == Len(q)
<1>1. n \in Nat /\ DOMAIN q = 1..n /\ \A i \in 1..n : q[i] \in Candles
  OBVIOUS
<1>2. CASE n = 0
  <2>1. q = <<>> /\ Pop(q) = <<>>
    BY <1>2, EmptySeq DEF Pop
  <2> QED BY <2>1
<1>3. CASE n = 1
  <2>1. q # <<>> /\ Pop(q) = <<>> /\ Head(q) = q[1] /\ DOMAIN q = {1}
    BY <1>1, <1>3 DEF Pop
  <2>2. Range(q) = {q[1]} /\ Range(<<>>) = {} /\ IsInjective(<<>>)
    BY <2>1 DEF Range, IsInjective
  <2> QED BY <1>1, <1>3, <2>1, <2>2
<1>4. CASE n > 1
  <2>1. PICK r : r = Rest(q)
    OBVIOUS
  <2>2. /\ r \in Seq(Candles) /\ Len(r) = n - 1 /\ r # <<>>
        /\ \A i \in 1..(n - 1) : r[i] = IF i = 1 THEN q[n] ELSE q[i]
    BY <1>4, <2>1, RestItems
  <2>3. Pop(q) = Down(r) /\ q # <<>> /\ Head(q) = q[1]
    BY <1>1, <1>4, <2>1 DEF Pop, Rest
  <2>4. /\ Down(r) \in Seq(Candles) /\ Len(Down(r)) = n - 1 /\ Range(Down(r)) = Range(r)
        /\ IsInjective(r) => IsInjective(Down(r))
    BY <2>2, DownKept
  <2>5. DOMAIN r = 1..(n - 1)
    BY <2>2
  <2> HIDE DEF n
  <2>6. Range(q) = Range(r) \cup {q[1]}
    <3>1. \A i \in 1..n : q[i] \in Range(r) \cup {q[1]}
      <4> SUFFICES ASSUME NEW i \in 1..n, i # 1 PROVE q[i] \in Range(r)
        OBVIOUS
      <4>1. CASE i = n
        <5>1. 1 \in 1..(n - 1) /\ r[1] = q[n]
          BY <1>1, <1>4, <2>2
        <5> QED BY <2>5, <4>1, <5>1 DEF Range
      <4>2. CASE i # n
        <5>1. i \in 1..(n - 1) /\ r[i] = q[i]
          BY <1>1, <2>2, <4>2
        <5> QED BY <2>5, <5>1 DEF Range
      <4> QED BY <4>1, <4>2
    <3>2. \A i \in 1..(n - 1) : \E j \in 1..n : r[i] = q[j]
      BY <1>1, <1>4, <2>2
    <3>3. q[1] \in Range(q) /\ \A i \in 1..n : q[i] \in Range(q)
      BY <1>1, <1>4 DEF Range
    <3>4. Range(q) \subseteq Range(r) \cup {q[1]}
      <4> SUFFICES ASSUME NEW x \in Range(q) PROVE x \in Range(r) \cup {q[1]}
        OBVIOUS
      <4>1. PICK i \in 1..n : x = q[i]
        BY <1>1 DEF Range
      <4> QED BY <3>1, <4>1
    <3>5. Range(r) \subseteq Range(q)
      <4> SUFFICES ASSUME NEW x \in Range(r) PROVE x \in Range(q)
        OBVIOUS
      <4>1. PICK i \in 1..(n - 1) : x = r[i]
        BY <2>5 DEF Range
      <4> QED BY <3>2, <3>3, <4>1
    <3> QED BY <3>3, <3>4, <3>5
  <2>7. ASSUME IsInjective(q) PROVE IsInjective(r) /\ q[1] \notin Range(r)
    <3>1. \A i, j \in 1..n : q[i] = q[j] => i = j
      BY <1>1, <2>7 DEF IsInjective
    <3>2. \A i, j \in 1..(n - 1) : r[i] = r[j] => i = j
      BY <1>1, <1>4, <2>2, <3>1
    <3>3. \A i \in 1..(n - 1) : r[i] # q[1]
      BY <1>1, <1>4, <2>2, <3>1
    <3> QED BY <2>5, <3>2, <3>3 DEF IsInjective, Range
  <2>8. q[1] \in Candles
    BY <1>1, <1>4
  <2>9. /\ Pop(q) \in Seq(Candles) /\ Len(Pop(q)) = n - 1
        /\ Range(Pop(q)) = Range(r) /\ Range(q) = Range(Pop(q)) \cup {Head(q)}
    BY <2>3, <2>4, <2>6
  <2>10. IsInjective(q) => IsInjective(Pop(q)) /\ Head(q) \notin Range(Pop(q))
    BY <2>3, <2>4, <2>7
  <2> QED BY <2>3, <2>8, <2>9, <2>10 DEF n
<1>5. n = 0 \/ n = 1 \/ n > 1
  BY <1>1
<1> QED BY ONLY <1>2, <1>3, <1>4, <1>5

(* Push adds its candle to the others.                                      *)
LEMMA PushKept ==
  ASSUME NEW c \in Candles, data \in Seq(Candles), Push(c)
  PROVE  /\ data' \in Seq(Candles) /\ Len(data') = Len(data) + 1
         /\ Range(data') = Range(data) \cup {c}
         /\ IsInjective(data) /\ c \notin Range(data) => IsInjective(data')
<1> DEFINE q == Append(data, c)
           n == Len(data)
<1>1. /\ q \in Seq(Candles) /\ Len(q) = n + 1 /\ q # <<>> /\ n \in Nat
      /\ \A i \in 1..n : q[i] = data[i]
      /\ q[n + 1] = c
  OBVIOUS
<1>2. data' = Up(q)
  BY DEF Push
<1>3. DOMAIN q = 1..(n + 1) /\ DOMAIN data = 1..n
  BY <1>1
<1> HIDE DEF q, n
<1>4. Range(q) = Range(data) \cup {c}
  <2>1. \A i \in 1..(n + 1) : i \in 1..n \/ i = n + 1
    BY <1>1
  <2>2. n + 1 \in 1..(n + 1) /\ \A i \in 1..n : i \in 1..(n + 1)
    BY <1>1
  <2> QED BY <1>1, <1>3, <2>1, <2>2 DEF Range
<1>5. IsInjective(data) /\ c \notin Range(data) => IsInjective(q)
  <2> SUFFICES ASSUME IsInjective(data), c \notin Range(data),
                      NEW i \in 1..(n + 1), NEW j \in 1..(n + 1), q[i] = q[j]
               PROVE  i = j
    BY <1>3 DEF IsInjective
  <2>1. \A k \in 1..n : data[k] # c
    BY <1>3 DEF Range
  <2>2. \A k, l \in 1..n : data[k] = data[l] => k = l
    BY <1>3 DEF IsInjective
  <2>3. (i \in 1..n \/ i = n + 1) /\ (j \in 1..n \/ j = n + 1)
    BY <1>1
  <2> QED BY <1>1, <2>1, <2>2, <2>3
<1>6. /\ Up(q) \in Seq(Candles) /\ Len(Up(q)) = Len(q) /\ Range(Up(q)) = Range(q)
      /\ IsInjective(q) => IsInjective(Up(q))
  BY <1>1, UpKept
<1> QED BY <1>1, <1>2, <1>4, <1>5, <1>6 DEF n

-----------------------------------------------------------------------------
(* The array is a heap: no item is less than its parent.                    *)
HeapOrder(q) == \A i \in 2..Len(q) : ~Less(q[i], q[Parent(i)])

(* Less orders the candles by time, update and pair: the order is total but *)
(* for the two candles of one period of a feed that is not resampled,      *)
(* which are equal.                                                        *)
LEMMA LessOrders ==
  ASSUME NEW a \in Candles, NEW b \in Candles, NEW c \in Candles
  PROVE  /\ ~Less(a, a)
         /\ Less(a, b) => ~Less(b, a)
         /\ ~Less(b, a) /\ ~Less(c, b) => ~Less(c, a)
<1>1. /\ Time(a) \in Nat /\ Time(b) \in Nat /\ Time(c) \in Nat
      /\ a.feed \in Int /\ b.feed \in Int /\ c.feed \in Int
      /\ a.n \in Nat /\ b.n \in Nat /\ c.n \in Nat
  BY CandleFields DEF Time, Feeds
<1>2. UpdatedAt(a) \in Int /\ UpdatedAt(b) \in Int /\ UpdatedAt(c) \in Int
  BY <1>1 DEF UpdatedAt
<1> QED BY <1>1, <1>2 DEF Less

(* The parent of a place, and the two children it has.                      *)
LEMMA Parents ==
  ASSUME NEW n \in Nat, NEW i \in 2..n
  PROVE  /\ Parent(i) \in 1..n /\ Parent(i) < i
         /\ i = 2 * Parent(i) \/ i = 2 * Parent(i) + 1
  BY DEF Parent

(* The root is the least item.                                              *)
LEMMA HeadIsLeast ==
  ASSUME NEW q \in Seq(Candles), HeapOrder(q), NEW i \in 1..Len(q)
  PROVE  ~Less(q[i], q[1])
<1> DEFINE n == Len(q)
           R == {r \in Nat : \A j \in 1..n : j <= r => ~Less(q[j], q[1])}
<1>1. n \in Nat /\ \A j \in 1..n : q[j] \in Candles
  OBVIOUS
<1>2. 0 \in R
  BY <1>1
<1>3. ASSUME NEW r \in Nat, r \in R PROVE r + 1 \in R
  <2> SUFFICES ASSUME NEW j \in 1..n, j <= r + 1 PROVE ~Less(q[j], q[1])
    OBVIOUS
  <2>1. q[j] \in Candles /\ q[1] \in Candles
    BY <1>1
  <2>2. CASE j = 1
    BY <2>1, <2>2, LessOrders
  <2>3. CASE j # 1
    <3>1. PICK k \in 1..n : k = Parent(j) /\ k < j
      BY <1>1, <2>3, Parents
    <3>2. ~Less(q[j], q[k])
      BY <1>1, <2>3, <3>1 DEF HeapOrder
    <3>3. ~Less(q[k], q[1])
      BY <1>3, <3>1
    <3> QED BY <1>1, <2>1, <3>2, <3>3, LessOrders
  <2> QED BY <2>2, <2>3
<1>4. Nat \subseteq R
  <2> HIDE DEF R
  <2> QED BY <1>2, <1>3, NatSetInduction
<1> QED BY <1>1, <1>4

(* up repairs an array that is a heap but for its last item.                *)
LEMMA UpHeap ==
  ASSUME NEW q \in Seq(Candles), q # <<>>,
         \A i \in 2..(Len(q) - 1) : ~Less(q[i], q[Parent(i)])
  PROVE  HeapOrder(Up(q))
<1>1. PICK n : n = Len(q) /\ n \in Nat /\ n \in 1..n
  BY EmptySeq
<1>2. \A i \in 1..n : q[i] \in Candles
  BY <1>1
<1>3. PICK P : /\ IsPath(P, n, n, UpLinks(q), UpRank(q))
               /\ Up(q) = Moved(q, P, n, n, UpLinks(q))
  BY <1>1, UpIsMove
<1>4. PICK t, nx : t = Up(q) /\ nx = UpLinks(q)
  OBVIOUS
<1>5. \A j \in 1..n : UpRank(q)[j] = j
  BY <1>1 DEF UpRank
<1>6. \A j \in 2..n : IF Less(q[n], q[Parent(j)]) THEN nx[j] = Parent(j) ELSE nx[j] = 0
  BY <1>1, <1>4 DEF UpLinks
<1>7. nx[1] = 0 /\ \A j \in 1..n : nx[j] = 0 \/ (j # 1 /\ nx[j] = Parent(j))
  BY <1>1, <1>4 DEF UpLinks
<1>8. /\ n \in P /\ P \subseteq 1..n
      /\ \A j \in P : nx[j] # 0 => nx[j] \in P
      /\ \A j \in P : j # n => \E k \in P : nx[k] = j
      /\ \A j, k \in P : nx[j] = nx[k] => j = k
  BY <1>3, <1>4 DEF IsPath
<1>9. \A j, k \in P : nx[j] = 0 => j <= k
  <2>1. PICK e \in P : nx[e] = 0 /\ \A j \in P : UpRank(q)[e] <= UpRank(q)[j]
    BY <1>3, <1>4 DEF IsPath
  <2> QED BY <1>5, <1>8, <2>1
<1>10. \A j \in 1..n : t[j] = IF j \notin P THEN q[j] ELSE IF nx[j] = 0 THEN q[n] ELSE q[nx[j]]
  BY <1>3, <1>4 DEF Moved
<1>11. Len(t) = n
  BY <1>1, <1>4, UpKept
<1>12. \A j \in 2..(n - 1) : ~Less(q[j], q[Parent(j)])
  BY <1>1
<1>13. ASSUME NEW i \in 2..n PROVE ~Less(t[i], t[Parent(i)])
  <2>1. PICK k \in 1..n : k = Parent(i) /\ k < i
    BY <1>1, Parents
  <2>2. i \in 1..n
    BY <1>1
  <2>3. CASE k \notin P
    <3>1. t[k] = q[k]
      BY <1>10, <2>3
    <3>2. CASE i \notin P
      <4>1. i \in 2..(n - 1) /\ t[i] = q[i]
        BY <1>1, <1>8, <1>10, <2>2, <3>2
      <4> QED BY <1>12, <2>1, <3>1, <4>1
    <3>3. CASE i \in P
      <4>1. nx[i] # k
        BY <1>1, <1>8, <2>1, <2>3, <3>3
      <4>2. nx[i] = 0 /\ ~Less(q[n], q[k])
        BY <1>6, <2>1, <4>1
      <4>3. t[i] = q[n]
        BY <1>10, <2>2, <3>3, <4>2
      <4> QED BY <2>1, <3>1, <4>2, <4>3
    <3> QED BY <3>2, <3>3
  <2>4. CASE k \in P
    <3>1. Less(q[n], q[k])
      <4>1. PICK m \in P : nx[m] = k
        BY <1>1, <1>8, <2>1, <2>4
      <4>2. m \in 2..n /\ k = Parent(m)
        BY <1>1, <1>7, <1>8, <2>1, <4>1
      <4> QED BY <1>6, <2>1, <4>1, <4>2
    <3>2. q[k] \in Candles /\ q[n] \in Candles /\ t[k] \in Candles /\ ~Less(q[k], t[k])
      <4>1. CASE nx[k] = 0
        BY <1>1, <1>2, <1>10, <2>4, <3>1, <4>1, LessOrders
      <4>2. CASE nx[k] # 0
        <5>0. k # 1 /\ nx[k] = Parent(k) /\ nx[k] \in 1..n
          BY <1>7, <1>8, <2>4, <4>2
        <5>1. k \in 2..(n - 1) /\ nx[k] = Parent(k) /\ nx[k] \in 1..n
          BY <1>1, <2>1, <5>0
        <5>2. t[k] = q[Parent(k)] /\ q[Parent(k)] \in Candles
          BY <1>2, <1>10, <2>4, <4>2, <5>1
        <5> QED BY <1>1, <1>2, <1>12, <5>1, <5>2
      <4> QED BY <4>1, <4>2
    <3>3. CASE i \notin P
      <4>1. i \in 2..(n - 1) /\ t[i] = q[i]
        BY <1>1, <1>8, <1>10, <2>2, <3>3
      <4>2. ~Less(q[i], q[k]) /\ q[i] \in Candles
        BY <1>2, <1>12, <2>1, <2>2, <4>1
      <4> QED BY <2>1, <3>2, <4>1, <4>2, LessOrders
    <3>4. CASE i \in P
      <4>1. nx[i] # 0
        BY <1>1, <1>9, <2>1, <2>4, <3>4
      <4>2. nx[i] = k
        BY <1>7, <2>1, <2>2, <4>1
      <4>3. t[i] = q[k]
        BY <1>10, <2>2, <3>4, <4>1, <4>2
      <4> QED BY <2>1, <3>2, <4>3
    <3> QED BY <3>3, <3>4
  <2> QED BY <2>3, <2>4
<1> QED BY <1>4, <1>11, <1>13 DEF HeapOrder

(* down repairs one that is a heap but for its first item.                  *)
LEMMA DownHeap ==
  ASSUME NEW q \in Seq(Candles), q # <<>>,
         \A i \in 2..Len(q) : Parent(i) # 1 => ~Less(q[i], q[Parent(i)])
  PROVE  HeapOrder(Down(q))
<1>1. PICK n : n = Len(q) /\ n \in Nat /\ 1 \in 1..n
  BY EmptySeq
<1>2. \A i \in 1..n : q[i] \in Candles
  BY <1>1
<1>3. PICK P : /\ IsPath(P, 1, n, DownLinks(q), DownRank(q))
               /\ Down(q) = Moved(q, P, 1, n, DownLinks(q))
  BY <1>1, DownIsMove
<1>4. PICK t, nx : t = Down(q) /\ nx = DownLinks(q)
  OBVIOUS
<1>5. \A j \in 1..n : 2 * j <= n =>
         /\ Best(q, j) \in 2..n /\ Parent(Best(q, j)) = j
         /\ IF Less(q[Best(q, j)], q[1]) THEN nx[j] = Best(q, j) ELSE nx[j] = 0
  <2> SUFFICES ASSUME NEW j \in 1..n, 2 * j <= n
               PROVE  /\ Best(q, j) \in 2..n /\ Parent(Best(q, j)) = j
                      /\ IF Less(q[Best(q, j)], q[1]) THEN nx[j] = Best(q, j) ELSE nx[j] = 0
    OBVIOUS
  <2>1. Best(q, j) = 2 * j \/ (Best(q, j) = 2 * j + 1 /\ 2 * j + 1 <= n)
    BY <1>1 DEF Best
  <2>2. Best(q, j) \in 2..n /\ Parent(Best(q, j)) = j
    BY <1>1, <2>1 DEF Parent
  <2>3. nx[j] = IF 2 * j > n \/ ~Less(q[Best(q, j)], q[1]) THEN 0 ELSE Best(q, j)
    BY <1>1, <1>4 DEF DownLinks
  <2>4. ~(2 * j > n)
    BY <1>1
  <2> QED BY <2>2, <2>3, <2>4
<1>6. \A j \in 1..n : nx[j] # 0 => 2 * j <= n /\ nx[j] = Best(q, j)
  BY <1>1, <1>4 DEF DownLinks
<1>7. /\ 1 \in P /\ P \subseteq 1..n
      /\ \A j \in P : nx[j] # 0 => nx[j] \in P
      /\ \A j \in P : j # 1 => \E k \in P : nx[k] = j
  BY <1>3, <1>4 DEF IsPath
<1>8. \A j \in 1..n : t[j] = IF j \notin P THEN q[j] ELSE IF nx[j] = 0 THEN q[1] ELSE q[nx[j]]
  BY <1>3, <1>4 DEF Moved
<1>9. Len(t) = n
  BY <1>1, <1>4, DownKept
<1>10. \A j \in 2..n : Parent(j) # 1 => ~Less(q[j], q[Parent(j)])
  BY <1>1
<1>11. ASSUME NEW j \in P, j # 1 PROVE Parent(j) \in P /\ nx[Parent(j)] = j
  <2>1. PICK m \in P : nx[m] = j
    BY <1>7, <1>11
  <2>2. j \in 1..n /\ j # 0 /\ m \in 1..n
    BY <1>1, <1>7
  <2>3. j = Best(q, m) /\ Parent(Best(q, m)) = m
    BY <1>5, <1>6, <2>1, <2>2
  <2> QED BY <2>1, <2>3
<1>12. ASSUME NEW i \in 2..n PROVE ~Less(t[i], t[Parent(i)])
  <2>1. PICK k \in 1..n : k = Parent(i) /\ k < i /\ (i = 2 * k \/ i = 2 * k + 1)
    BY <1>1, Parents
  <2>2. i \in 1..n /\ i # 1 /\ 2 * k <= n /\ q[i] \in Candles /\ q[k] \in Candles /\ q[1] \in Candles
    BY <1>1, <1>2, <2>1
  <2>3. CASE k \notin P
    <3>1. i \notin P /\ k # 1
      BY <1>7, <1>11, <2>1, <2>2, <2>3
    <3> QED BY <1>8, <1>10, <2>1, <2>2, <2>3, <3>1
  <2>4. CASE k \in P
    <3>1. PICK b : b = Best(q, k)
      OBVIOUS
    <3>2. b \in 2..n /\ b \in 1..n /\ q[b] \in Candles
      BY <1>1, <1>2, <1>5, <2>2, <3>1
    <3>3. ~Less(q[i], q[b])
      <4>1. CASE i = b
        BY <2>2, <4>1, LessOrders
      <4>2. CASE i # b
        <5>1. \/ i = 2 * k /\ 2 * k + 1 <= n /\ b = 2 * k + 1 /\ Less(q[2 * k + 1], q[2 * k])
              \/ i = 2 * k + 1 /\ b = 2 * k /\ ~(2 * k + 1 <= n /\ Less(q[2 * k + 1], q[2 * k]))
          BY <1>1, <2>1, <3>1, <4>2 DEF Best
        <5>2. CASE i = 2 * k /\ b = 2 * k + 1 /\ Less(q[2 * k + 1], q[2 * k])
          <6>1. Less(q[b], q[i])
            BY <5>2
          <6> QED BY <2>2, <3>2, <6>1, LessOrders
        <5>3. CASE i = 2 * k + 1 /\ b = 2 * k /\ ~(2 * k + 1 <= n /\ Less(q[2 * k + 1], q[2 * k]))
          BY <1>1, <5>3
        <5> QED BY <5>1, <5>2, <5>3
      <4> QED BY <4>1, <4>2
    <3>4. CASE nx[k] = 0
      <4>1. i \notin P
        BY <1>11, <2>1, <2>2, <3>4
      <4>2. ~Less(q[b], q[1])
        BY <1>5, <2>2, <3>1, <3>2, <3>4
      <4>3. t[i] = q[i] /\ t[k] = q[1]
        BY <1>8, <2>2, <2>4, <3>4, <4>1
      <4> QED BY <2>1, <2>2, <3>2, <3>3, <4>2, <4>3, LessOrders
    <3>5. CASE nx[k] # 0
      <4>1. nx[k] = b /\ Less(q[b], q[1]) /\ t[k] = q[b] /\ b \in P
        BY <1>5, <1>6, <1>7, <1>8, <2>2, <2>4, <3>1, <3>5
      <4>2. CASE i # b
        <5>1. i \notin P
          BY <1>11, <2>1, <2>2, <4>1, <4>2
        <5> QED BY <1>8, <2>1, <2>2, <3>3, <4>1, <5>1
      <4>3. CASE i = b /\ nx[b] = 0
        <5>1. t[i] = q[1]
          BY <1>8, <3>2, <4>1, <4>3
        <5> QED BY <2>1, <2>2, <3>2, <4>1, <5>1, LessOrders
      <4>4. CASE i = b /\ nx[b] # 0
        <5>1. PICK d : d = Best(q, b) /\ d \in 2..n /\ Parent(d) = b /\ nx[b] = d
          BY <1>5, <1>6, <3>2, <4>4
        <5>2. t[i] = q[d]
          BY <1>8, <3>2, <4>1, <4>4, <5>1
        <5>3. ~Less(q[d], q[b])
          BY <1>10, <3>2, <5>1
        <5> QED BY <2>1, <4>1, <5>2, <5>3
      <4> QED BY <4>2, <4>3, <4>4
    <3> QED BY <3>4, <3>5
  <2> QED BY <2>3, <2>4
<1> QED BY <1>4, <1>9, <1>12 DEF HeapOrder

(* Pop and Push keep the heap.                                              *)
LEMMA PopHeap ==
  ASSUME NEW q \in Seq(Candles), HeapOrder(q)
  PROVE  HeapOrder(Pop(q))
<1>1. CASE Len(q) <= 1
  <2>1. Pop(q) = <<>> /\ Len(<<>>) = 0
    BY <1>1 DEF Pop
  <2> QED BY <2>1 DEF HeapOrder
<1>2. CASE Len(q) > 1
  <2>1. PICK r, n : r = Rest(q) /\ n = Len(q) /\ n \in Nat /\ n > 1
    BY <1>2
  <2>2. /\ r \in Seq(Candles) /\ Len(r) = n - 1 /\ r # <<>>
        /\ \A i \in 1..(n - 1) : r[i] = IF i = 1 THEN q[n] ELSE q[i]
    BY <1>2, <2>1, RestItems
  <2>3. Pop(q) = Down(r)
    BY <1>2, <2>1 DEF Pop, Rest
  <2>4. ASSUME NEW i \in 2..(n - 1), Parent(i) # 1 PROVE ~Less(r[i], r[Parent(i)])
    <3>1. n - 1 \in Nat /\ i \in 2..n /\ i \in 1..(n - 1) /\ i # 1
      BY <2>1
    <3>2. Parent(i) \in 1..(n - 1)
      BY <3>1, Parents
    <3>3. r[i] = q[i] /\ r[Parent(i)] = q[Parent(i)]
      BY <2>2, <2>4, <3>1, <3>2
    <3> QED BY <2>1, <3>1, <3>3 DEF HeapOrder
  <2> QED BY <2>2, <2>3, <2>4, DownHeap
<1> QED BY <1>1, <1>2

LEMMA PushHeap ==
  ASSUME NEW c \in Candles, data \in Seq(Candles), HeapOrder(data), Push(c)
  PROVE  HeapOrder(data')
<1>0. Len(data) \in Nat
  OBVIOUS
<1>1. PICK q, n : q = Append(data, c) /\ n = Len(data) /\ n \in Nat
  BY ONLY <1>0, Zenon
<1>2. /\ q \in Seq(Candles) /\ Len(q) = n + 1 /\ q # <<>>
      /\ \A i \in 1..n : q[i] = data[i]
  BY <1>1
<1>3. ASSUME NEW i \in 2..n PROVE ~Less(q[i], q[Parent(i)])
  <2>1. Parent(i) \in 1..n /\ i \in 1..n
    BY <1>1, Parents
  <2>2. q[i] = data[i] /\ q[Parent(i)] = data[Parent(i)]
    BY <1>2, <2>1
  <2> QED BY <1>1, <2>2 DEF HeapOrder
<1>4. (n + 1) - 1 = n
  BY <1>1
<1>5. HeapOrder(Up(q))
  BY <1>2, <1>3, <1>4, UpHeap
<1> QED BY <1>1, <1>5 DEF Push

-----------------------------------------------------------------------------
(* Each action keeps the types of what it changes.                         *)

StreamTypeOK ==
    /\ cancelled \in BOOLEAN
    /\ loop \in [Feeds -> LoopPCs] /\ reader \in [Feeds -> ReaderPCs]
    /\ receiver \in [Feeds -> {"off", "on", "ended"}]
    /\ published \in [Feeds -> Nat]
    /\ wire \in [Feeds -> Seq(Nat)]
    /\ \A f \in Feeds : /\ published[f] <= LastCandle[f]
                        /\ wire[f] \in Seq(1..LastCandle[f])

QueueTypeOK ==
    /\ hooked \in BOOLEAN /\ fresh \in Nat
    /\ data \in Seq(Candles) /\ held \subseteq Candles

FrameTypeOK ==
    /\ acted \in [Feeds -> Nat] /\ frame \in [Feeds -> Seq(Nat)]
    /\ \A f \in Feeds : acted[f] <= LastCandle[f] /\ frame[f] \in Seq(1..LastCandle[f])

BotTypeOK ==
    /\ mode \in Modes /\ partials \in HighFrequency
    /\ main \in MainPCs /\ setup \in 0..(NFeeds - 1)
    /\ current \subseteq Candles

LEMMA TypeParts == TypeOK <=> StreamTypeOK /\ QueueTypeOK /\ FrameTypeOK /\ BotTypeOK
  BY DEF TypeOK, StreamTypeOK, QueueTypeOK, FrameTypeOK, BotTypeOK

LEMMA NextParts ==
  ASSUME StreamTypeOK', QueueTypeOK', FrameTypeOK', BotTypeOK', StreamsOpen', ClosedRows'
  PROVE  PipelineInv'
  BY DEF PipelineInv, TypeOK, StreamTypeOK, QueueTypeOK, FrameTypeOK, BotTypeOK

(* The steps of the streams.                                               *)
LEMMA SetSeq ==
  ASSUME NEW s \in [Feeds -> Seq(Nat)], \A g \in Feeds : s[g] \in Seq(1..LastCandle[g]),
         NEW f \in Feeds, NEW w \in Seq(1..LastCandle[f])
  PROVE  /\ [s EXCEPT ![f] = w] \in [Feeds -> Seq(Nat)]
         /\ \A g \in Feeds : [s EXCEPT ![f] = w][g] \in Seq(1..LastCandle[g])
<1>1. LastCandle[f] \in Nat
  BY StreamAssumption
<1>2. 1..LastCandle[f] \subseteq Nat
  BY <1>1
<1>3. w \in Seq(Nat)
  BY <1>2, SeqMonotonic
<1>4. [s EXCEPT ![f] = w] \in [Feeds -> Seq(Nat)]
  BY <1>3
<1>5. ASSUME NEW g \in Feeds PROVE [s EXCEPT ![f] = w][g] \in Seq(1..LastCandle[g])
  <2>1. CASE g = f
    BY <2>1
  <2>2. CASE g # f
    BY <2>2
  <2> QED BY <2>1, <2>2
<1> QED BY <1>4, <1>5

LEMMA PublishType ==
  ASSUME StreamTypeOK, NEW f \in Feeds, Publish(f)
  PROVE  StreamTypeOK'
<1> DEFINE w == Append(wire[f], published[f] + 1)
<1>1. published[f] \in Nat /\ LastCandle[f] \in Nat /\ published[f] < LastCandle[f]
  BY StreamAssumption DEF StreamTypeOK, Publish
<1>2. published[f] + 1 \in 1..LastCandle[f] /\ published[f] + 1 \in Nat
  BY <1>1
<1>3. w \in Seq(1..LastCandle[f])
  <2>1. wire[f] \in Seq(1..LastCandle[f])
    BY DEF StreamTypeOK
  <2> HIDE DEF StreamTypeOK
  <2> QED BY <1>2, <2>1
<1>4. wire' = [wire EXCEPT ![f] = w] \/ wire' = wire
  BY DEF Publish
<1> HIDE DEF w
<1>5. wire' \in [Feeds -> Seq(Nat)] /\ \A g \in Feeds : wire'[g] \in Seq(1..LastCandle[g])
  <2>1. CASE wire' = wire
    BY <2>1 DEF StreamTypeOK
  <2>2. CASE wire' = [wire EXCEPT ![f] = w]
    BY <1>3, <2>2, SetSeq DEF StreamTypeOK
  <2> QED BY <1>4, <2>1, <2>2
<1>6. published' \in [Feeds -> Nat] /\ \A g \in Feeds : published'[g] <= LastCandle[g]
  BY <1>1, <1>2 DEF StreamTypeOK, Publish
<1> QED BY <1>5, <1>6 DEF Publish, StreamTypeOK

LEMMA CutType ==
  ASSUME StreamTypeOK, NEW f \in Feeds, wire' = [wire EXCEPT ![f] = <<>>]
  PROVE  wire' \in [Feeds -> Seq(Nat)] /\ \A g \in Feeds : wire'[g] \in Seq(1..LastCandle[g])
<1>1. <<>> \in Seq(1..LastCandle[f])
  OBVIOUS
<1> QED BY <1>1, SetSeq DEF StreamTypeOK

LEMMA StreamStepType ==
  ASSUME StreamTypeOK, NEW f \in Feeds,
         \/ LoopEnds(f) \/ DialFails(f) \/ DialReported(f) \/ Wake(f) \/ ConnectionEnds(f)
         \/ StopConnection(f) \/ Join(f) \/ CsvCloses(f) \/ Dial(f) \/ Read(f)
         \/ ErrorReported(f) \/ Disconnect(f) \/ ReceiverEnds(f) \/ Cancel
  PROVE  StreamTypeOK'
<1>1. CASE LoopEnds(f) \/ DialFails(f) \/ DialReported(f) \/ Wake(f) \/ ConnectionEnds(f)
  BY <1>1 DEF LoopEnds, DialFails, DialReported, Wake, ConnectionEnds,
              StreamTypeOK, LoopPCs, LoopTo
<1>2. CASE StopConnection(f) \/ Join(f) \/ CsvCloses(f) \/ ReceiverEnds(f) \/ Cancel
  BY <1>2 DEF StopConnection, Join, CsvCloses, ReceiverEnds, Cancel,
              StreamTypeOK, LoopPCs, LoopTo
<1>3. CASE Dial(f)
  <2>1. loop' \in [Feeds -> LoopPCs] /\ reader' \in [Feeds -> ReaderPCs]
    BY <1>3 DEF Dial, StreamTypeOK, LoopPCs, ReaderPCs, LoopTo
  <2> QED BY <1>3, <2>1, CutType DEF Dial, StreamTypeOK
<1>4. CASE Read(f) \/ ErrorReported(f)
  BY <1>4 DEF Read, ErrorReported, StreamTypeOK, ReaderPCs, ReaderTo
<1>5. CASE Disconnect(f)
  <2>1. reader' \in [Feeds -> ReaderPCs]
    BY <1>5 DEF Disconnect, StreamTypeOK, ReaderPCs, ReaderTo
  <2> QED BY <1>5, <2>1, CutType DEF Disconnect, StreamTypeOK
<1> QED BY <1>1, <1>2, <1>3, <1>4, <1>5

LEMMA SendType ==
  ASSUME StreamTypeOK, NEW f \in Feeds,
         \/ DropCandle(f) /\ wire[f] # <<>>
         \/ \E n \in 1..LastCandle[f] : Hand(f, n)
  PROVE  StreamTypeOK'
<1>1. wire[f] # <<>> /\ wire' = [wire EXCEPT ![f] = Tail(@)]
  BY DEF Hand, DropCandle
<1>2. Tail(wire[f]) \in Seq(1..LastCandle[f])
  BY <1>1 DEF StreamTypeOK
<1>3. wire' \in [Feeds -> Seq(Nat)] /\ \A g \in Feeds : wire'[g] \in Seq(1..LastCandle[g])
  BY <1>1, <1>2, SetSeq DEF StreamTypeOK
<1>4. reader' \in [Feeds -> ReaderPCs]
  BY DEF StreamTypeOK, Hand, DropCandle, ReaderTo, ReaderPCs
<1> QED BY <1>3, <1>4 DEF StreamTypeOK, Hand, DropCandle, ReaderTo

-----------------------------------------------------------------------------
(* The strategy controller: rows of a dataframe.                           *)

LEMMA RowsType ==
  ASSUME NEW c \in Candles, NEW rows \in Seq(1..LastCandle[c.feed])
  PROVE  /\ UpdateDataFrame(rows, c) \in Seq(1..LastCandle[c.feed])
         /\ Len(UpdateDataFrame(rows, c)) >= Len(rows)
         /\ Len(UpdateDataFrame(rows, c)) \in Nat \ {0}
         /\ UpdateDataFrame(rows, c)[Len(UpdateDataFrame(rows, c))] = c.n
         /\ \A i \in 1..Len(UpdateDataFrame(rows, c)) :
               \/ UpdateDataFrame(rows, c)[i] = c.n
               \/ i \in 1..Len(rows) /\ UpdateDataFrame(rows, c)[i] = rows[i]
<1> DEFINE S == 1..LastCandle[c.feed]
<1>1. c.n \in S
  BY CandleFields
<1>2. Len(rows) \in Nat /\ (rows # <<>> => Len(rows) \in 1..Len(rows))
  BY EmptySeq
<1>3. CASE UpdateDataFrame(rows, c) = Append(rows, c.n)
  <2>1. Append(rows, c.n) \in Seq(S) /\ Len(Append(rows, c.n)) = Len(rows) + 1
    BY <1>1
  <2>2. \A i \in 1..Len(rows) + 1 :
           Append(rows, c.n)[i] = IF i = Len(rows) + 1 THEN c.n ELSE rows[i]
    BY <1>1
  <2> QED BY <1>2, <1>3, <2>1, <2>2
<1>4. CASE rows # <<>> /\ UpdateDataFrame(rows, c) = [rows EXCEPT ![Len(rows)] = c.n]
  <2> DEFINE r == [rows EXCEPT ![Len(rows)] = c.n]
  <2>1. r \in Seq(S) /\ Len(r) = Len(rows)
        /\ \A j \in 1..Len(rows) : r[j] = IF j = Len(rows) THEN c.n ELSE rows[j]
    BY <1>1, <1>2, <1>4, ExceptSeq
  <2>2. UpdateDataFrame(rows, c) = r
    BY <1>4
  <2>3. r[Len(rows)] = c.n /\ Len(rows) \in Nat \ {0}
    BY <1>2, <1>4, <2>1
  <2>4. \A i \in 1..Len(r) : r[i] = c.n \/ (i \in 1..Len(rows) /\ r[i] = rows[i])
    BY <2>1
  <2> HIDE DEF r
  <2> QED BY <1>2, <2>1, <2>2, <2>3, <2>4
<1>5. \/ UpdateDataFrame(rows, c) = Append(rows, c.n)
      \/ rows # <<>> /\ UpdateDataFrame(rows, c) = [rows EXCEPT ![Len(rows)] = c.n]
  BY DEF UpdateDataFrame
<1> QED BY <1>3, <1>4, <1>5

(* What processCandle may do to the dataframe and to the strategy.         *)
LEMMA ProcessCases ==
  ASSUME frame \in [Feeds -> Seq(Nat)], NEW c \in Candles, ProcessCandle(c)
  PROVE  LET w == UpdateDataFrame(frame[c.feed], c)
         IN  \/ frame' = frame /\ acted' = acted
             \/ /\ ~Complete(c) /\ partials
                /\ frame' = [frame EXCEPT ![c.feed] = w] /\ acted' = acted
             \/ /\ Complete(c) /\ ~Late(frame[c.feed], c)
                /\ frame' = [frame EXCEPT ![c.feed] = w]
                /\ acted' = IF Len(w) >= WarmupPeriod
                            THEN [acted EXCEPT ![c.feed] = c.n] ELSE acted
<1> DEFINE f == c.feed
           write == [frame EXCEPT ![f] = UpdateDataFrame(@, c)]
<1>1. f \in Feeds
  BY CandleFields
<1>2. write = [frame EXCEPT ![f] = UpdateDataFrame(frame[f], c)]
  OBVIOUS
<1>3. write[f] = UpdateDataFrame(frame[f], c)
  BY <1>1
<1> HIDE DEF write
<1>4. \/ /\ ~Complete(c)
         /\ frame' = IF partials /\ Len(frame[f]) >= WarmupPeriod THEN write ELSE frame
         /\ UNCHANGED acted
      \/ Complete(c) /\ Late(frame[f], c) /\ UNCHANGED strategyVars
      \/ /\ Complete(c) /\ ~Late(frame[f], c) /\ frame' = write
         /\ acted' = IF Len(write[f]) >= WarmupPeriod
                     THEN [acted EXCEPT ![f] = c.n] ELSE acted
  <2>1. CASE ~Complete(c)
    BY <2>1 DEF ProcessCandle, write
  <2>2. CASE Complete(c) /\ Late(frame[f], c)
    BY <2>2 DEF ProcessCandle
  <2>3. CASE Complete(c) /\ ~Late(frame[f], c)
    BY <2>3 DEF ProcessCandle, write
  <2> QED BY <2>1, <2>2, <2>3
<1> QED BY <1>2, <1>3, <1>4 DEF strategyVars

LEMMA ProcessType ==
  ASSUME FrameTypeOK, NEW c \in Candles, ProcessCandle(c)
  PROVE  FrameTypeOK'
<1> DEFINE f == c.feed
           w == UpdateDataFrame(frame[f], c)
<1>1. f \in Feeds /\ c.n \in 1..LastCandle[f] /\ c.n \in Nat
  BY CandleFields
<1>2. frame[f] \in Seq(1..LastCandle[f])
  BY <1>1 DEF FrameTypeOK
<1>3. w \in Seq(1..LastCandle[f])
  BY <1>2, RowsType
<1>4. /\ frame' = frame \/ frame' = [frame EXCEPT ![f] = w]
      /\ acted' = acted \/ acted' = [acted EXCEPT ![f] = c.n]
  BY ProcessCases DEF FrameTypeOK
<1> HIDE DEF w
<1>6. frame' \in [Feeds -> Seq(Nat)] /\ \A g \in Feeds : frame'[g] \in Seq(1..LastCandle[g])
  <2>1. CASE frame' = frame
    BY <2>1 DEF FrameTypeOK
  <2>2. CASE frame' = [frame EXCEPT ![f] = w]
    BY <1>1, <1>3, <2>2, SetSeq DEF FrameTypeOK
  <2> QED BY <1>4, <2>1, <2>2
<1>7. acted' \in [Feeds -> Nat] /\ \A g \in Feeds : acted'[g] <= LastCandle[g]
  <2>1. CASE acted' = acted
    BY <2>1 DEF FrameTypeOK
  <2>2. CASE acted' = [acted EXCEPT ![f] = c.n]
    BY <1>1, <2>2, StreamAssumption DEF FrameTypeOK
  <2> QED BY <1>4, <2>1, <2>2
<1> QED BY <1>6, <1>7 DEF FrameTypeOK

(* Closed candles have even numbers: one that is not earlier has no smaller *)
(* number.                                                                 *)
LEMMA EvenTimes ==
  ASSUME NEW m \in Nat, NEW l \in Nat, m % 2 = 0, l % 2 = 0,
         ~((m + 1) \div 2 < (l + 1) \div 2)
  PROVE  m >= l
<1>1. (m + 1) \div 2 = m \div 2 /\ (l + 1) \div 2 = l \div 2
  OBVIOUS
<1>2. m = 2 * (m \div 2) /\ l = 2 * (l \div 2) /\ m \div 2 \in Nat /\ l \div 2 \in Nat
  OBVIOUS
<1> QED BY <1>1, <1>2

(* A closed candle that is not late lies after everything the strategy      *)
(* acted on.                                                               *)
LEMMA ProcessRows ==
  ASSUME FrameTypeOK, ClosedRows, main # "setup", main' # "setup", partials' = partials,
         NEW c \in Candles, ProcessCandle(c), partials \in BOOLEAN
  PROVE  /\ ClosedRows'
         /\ ~partials => \A g \in Feeds : acted'[g] # acted[g] => acted'[g] > acted[g]
<1> DEFINE f == c.feed
           w == UpdateDataFrame(frame[f], c)
<1>1. f \in Feeds /\ c.n \in 1..LastCandle[f] /\ c.n \in Nat /\ LastCandle[f] \in Nat
  BY CandleFields, StreamAssumption
<1>2. frame[f] \in Seq(1..LastCandle[f]) /\ Len(frame[f]) \in Nat
  BY <1>1 DEF FrameTypeOK
<1>3. SUFFICES ASSUME ~partials
               PROVE  /\ \A g \in Feeds :
                            /\ \A i \in 1..Len(frame'[g]) : frame'[g][i] % 2 = 0
                            /\ acted'[g] # 0 => /\ Len(frame'[g]) >= WarmupPeriod
                                                /\ frame'[g][Len(frame'[g])] = acted'[g]
                      /\ \A g \in Feeds : acted'[g] # acted[g] => acted'[g] > acted[g]
  BY DEF ClosedRows
<1>4. CASE frame' = frame /\ acted' = acted
  BY <1>3, <1>4 DEF ClosedRows
<1>5. CASE /\ Complete(c) /\ ~Late(frame[f], c)
           /\ frame' = [frame EXCEPT ![f] = w]
           /\ acted' = IF Len(w) >= WarmupPeriod THEN [acted EXCEPT ![f] = c.n] ELSE acted
  <2>1. /\ Len(w) >= Len(frame[f]) /\ Len(w) \in Nat \ {0} /\ w[Len(w)] = c.n
        /\ \A i \in 1..Len(w) : \/ w[i] = c.n
                                \/ i \in 1..Len(frame[f]) /\ w[i] = frame[f][i]
    <3> DEFINE rows == frame[f]
    <3>1. rows \in Seq(1..LastCandle[c.feed])
      BY <1>2
    <3> HIDE DEF rows
    <3>2. /\ Len(UpdateDataFrame(rows, c)) >= Len(rows)
          /\ Len(UpdateDataFrame(rows, c)) \in Nat \ {0}
          /\ UpdateDataFrame(rows, c)[Len(UpdateDataFrame(rows, c))] = c.n
          /\ \A i \in 1..Len(UpdateDataFrame(rows, c)) :
                \/ UpdateDataFrame(rows, c)[i] = c.n
                \/ i \in 1..Len(rows) /\ UpdateDataFrame(rows, c)[i] = rows[i]
      BY <3>1, RowsType
    <3> QED BY <3>2 DEF rows
  <2> HIDE DEF w
  <2>2. c.n % 2 = 0
    BY <1>5 DEF Complete
  <2>3. \A i \in 1..Len(w) : w[i] % 2 = 0
    BY <1>1, <1>3, <2>1, <2>2 DEF ClosedRows
  <2>4. frame'[f] = w /\ \A g \in Feeds \ {f} : frame'[g] = frame[g] /\ acted'[g] = acted[g]
    BY <1>1, <1>5 DEF FrameTypeOK
  <2>5. Len(w) >= WarmupPeriod => acted'[f] = c.n
    BY <1>1, <1>5 DEF FrameTypeOK
  <2>6. ~(Len(w) >= WarmupPeriod) => acted'[f] = acted[f] /\ acted[f] = 0
    <3>1. acted[f] # 0 => Len(frame[f]) >= WarmupPeriod
      BY <1>1, <1>3 DEF ClosedRows
    <3> QED BY <1>2, <1>5, <2>1, <3>1, PipelineAssumption
  <2>7. acted[f] # 0 => c.n >= acted[f]
    <3>1. SUFFICES ASSUME acted[f] # 0 PROVE c.n >= acted[f]
      OBVIOUS
    <3> DEFINE l == frame[f][Len(frame[f])]
    <3>2. Len(frame[f]) >= WarmupPeriod /\ l = acted[f]
      BY <1>1, <1>3, <3>1 DEF ClosedRows
    <3>3. Len(frame[f]) \in 1..Len(frame[f])
      BY <1>2, <3>2, PipelineAssumption
    <3>4. l % 2 = 0 /\ l \in Nat
      BY <1>1, <1>2, <1>3, <3>3, ElementOfSeq DEF ClosedRows
    <3>5. frame[f] # <<>>
      BY <3>3
    <3> HIDE DEF l
    <3>6. ~((c.n + 1) \div 2 < (l + 1) \div 2)
      BY <1>5, <3>5 DEF Late, Time, Candle, Last, l
    <3>7. c.n >= l
      BY ONLY <1>1, <2>2, <3>4, <3>6, EvenTimes
    <3> QED BY ONLY <3>2, <3>7
  <2>8. acted[f] \in Nat
    BY <1>1 DEF FrameTypeOK
  <2>9. ASSUME NEW g \in Feeds
        PROVE  /\ \A i \in 1..Len(frame'[g]) : frame'[g][i] % 2 = 0
               /\ acted'[g] # 0 => /\ Len(frame'[g]) >= WarmupPeriod
                                   /\ frame'[g][Len(frame'[g])] = acted'[g]
               /\ acted'[g] # acted[g] => acted'[g] > acted[g]
    <3>1. CASE g # f
      BY <1>3, <2>4, <3>1 DEF ClosedRows
    <3>2. CASE g = f /\ Len(w) >= WarmupPeriod
      BY <1>1, <2>1, <2>3, <2>4, <2>5, <2>7, <2>8, <3>2
    <3>3. CASE g = f /\ ~(Len(w) >= WarmupPeriod)
      BY <2>3, <2>4, <2>6, <3>3
    <3> QED BY <3>1, <3>2, <3>3
  <2> QED BY <2>9
<1>6. \/ frame' = frame /\ acted' = acted
      \/ /\ Complete(c) /\ ~Late(frame[f], c)
         /\ frame' = [frame EXCEPT ![f] = w]
         /\ acted' = IF Len(w) >= WarmupPeriod THEN [acted EXCEPT ![f] = c.n] ELSE acted
  BY <1>3, ProcessCases DEF FrameTypeOK
<1> QED BY <1>4, <1>5, <1>6

-----------------------------------------------------------------------------
(* The streams and the goroutines that receive from them.                  *)

LEMMA StreamStepOpen ==
  ASSUME StreamTypeOK, StreamsOpen, UNCHANGED <<main, setup>>, NEW f \in Feeds,
         \/ LoopEnds(f) \/ DialFails(f) \/ DialReported(f) \/ Wake(f) \/ ConnectionEnds(f)
         \/ StopConnection(f) \/ Join(f) \/ CsvCloses(f) \/ Dial(f) \/ Read(f)
         \/ ErrorReported(f) \/ Disconnect(f) \/ ReceiverEnds(f) \/ Cancel
  PROVE  StreamsOpen'
<1>1. CASE LoopEnds(f) \/ DialFails(f) \/ DialReported(f) \/ Wake(f) \/ ConnectionEnds(f)
  BY <1>1 DEF LoopEnds, DialFails, DialReported, Wake, ConnectionEnds, LoopTo,
              StreamTypeOK, StreamsOpen
<1>2. CASE StopConnection(f) \/ Join(f) \/ CsvCloses(f) \/ ReceiverEnds(f) \/ Cancel
  BY <1>2 DEF StopConnection, Join, CsvCloses, ReceiverEnds, Cancel, LoopTo,
              StreamTypeOK, StreamsOpen
<1>3. CASE Dial(f)
  BY <1>3 DEF Dial, LoopTo, StreamTypeOK, StreamsOpen
<1>4. CASE Read(f) \/ ErrorReported(f)
  BY <1>4 DEF Read, ErrorReported, ReaderTo, StreamTypeOK, StreamsOpen
<1>5. CASE Disconnect(f)
  BY <1>5 DEF Disconnect, ReaderTo, StreamTypeOK, StreamsOpen
<1> QED BY <1>1, <1>2, <1>3, <1>4, <1>5

LEMMA SendOpen ==
  ASSUME StreamTypeOK, StreamsOpen, UNCHANGED <<main, setup>>, NEW f \in Feeds,
         DropCandle(f) \/ \E n \in 1..LastCandle[f] : Hand(f, n)
  PROVE  StreamsOpen'
<1>1. /\ wire' = [wire EXCEPT ![f] = Tail(@)]
      /\ \/ ReaderTo(f, "candle", "read") /\ UNCHANGED loop
         \/ loop[f] = "csv" /\ UNCHANGED <<loop, reader>>
  BY DEF DropCandle, Hand
<1>2. \A g \in Feeds \ {f} : wire'[g] = wire[g] /\ reader'[g] = reader[g]
  BY <1>1 DEF StreamTypeOK, ReaderTo
<1>3. reader'[f] # "candle" /\ (reader'[f] = reader[f] \/ loop[f] \in {"wait", "join"})
  BY <1>1 DEF StreamTypeOK, StreamsOpen, ReaderTo
<1> QED BY <1>1, <1>2, <1>3 DEF StreamsOpen

LEMMA PublishOpen ==
  ASSUME StreamTypeOK, StreamsOpen, UNCHANGED <<main, setup>>, NEW f \in Feeds, Publish(f)
  PROVE  StreamsOpen'
<1>1. Append(wire[f], published[f] + 1) # <<>>
  <2>1. wire[f] \in Seq(Nat) /\ published[f] + 1 \in Nat
    BY DEF StreamTypeOK
  <2> QED BY <2>1
<1>2. \A g \in Feeds : wire[g] # <<>> => wire'[g] # <<>>
  BY <1>1 DEF Publish, StreamTypeOK
<1> QED BY <1>2 DEF Publish, StreamsOpen

(* They change neither what Run keeps nor the dataframes.                  *)
LEMMA StreamsInv ==
  ASSUME PipelineInv,
         \/ Environment
         \/ \E f \in Feeds : \/ ServeCandles(f) \/ Dials(f) \/ Reading(f) \/ Disconnects(f)
                             \/ Receiving(f) \/ OnCandle(f)
  PROVE  PipelineInv' /\ UNCHANGED strategyVars
<1>1. /\ StreamTypeOK /\ QueueTypeOK /\ FrameTypeOK /\ BotTypeOK
      /\ StreamsOpen /\ ClosedRows
  BY TypeParts DEF PipelineInv
<1>2. UNCHANGED <<mode, partials, botVars, strategyVars>>
  BY DEF Environment, ServeCandles, Dials, Reading, Disconnects, Receiving, OnCandle
<1>3. FrameTypeOK' /\ BotTypeOK' /\ ClosedRows' /\ UNCHANGED <<main, setup>>
  BY <1>1, <1>2 DEF FrameTypeOK, BotTypeOK, ClosedRows, botVars, strategyVars
<1>4. ASSUME NEW f \in Feeds, OnCandle(f)
      PROVE  StreamTypeOK' /\ StreamsOpen' /\ QueueTypeOK'
  <2>1. PICK n \in 1..LastCandle[f] : Hand(f, n) /\ Push(Candle(f, n))
    BY <1>4 DEF OnCandle
  <2>2. StreamTypeOK' /\ StreamsOpen'
    BY <1>1, <1>3, <2>1, SendType, SendOpen
  <2>3. data' \in Seq(Candles) /\ fresh' \in Nat
    BY <1>1, <2>1, CandleType, PushKept DEF Push, QueueTypeOK
  <2> QED BY <1>1, <1>4, <2>2, <2>3 DEF OnCandle, QueueTypeOK
<1>5. ASSUME NEW f \in Feeds,
             \/ ServeCandles(f) \/ Dials(f) \/ Reading(f) \/ Disconnects(f) \/ Receiving(f)
      PROVE  StreamTypeOK' /\ StreamsOpen' /\ UNCHANGED queueVars
  <2>1. \/ LoopEnds(f) \/ DialFails(f) \/ DialReported(f) \/ Wake(f) \/ ConnectionEnds(f)
        \/ StopConnection(f) \/ Join(f) \/ CsvCloses(f) \/ Dial(f) \/ Read(f)
        \/ ErrorReported(f) \/ Disconnect(f) \/ ReceiverEnds(f) \/ DropCandle(f)
    BY <1>5 DEF ServeCandles, Dials, Reading, Disconnects, Receiving
  <2>2. DropCandle(f) => wire[f] # <<>>
    BY <1>1 DEF DropCandle, ReaderTo, StreamsOpen
  <2>3. StreamTypeOK' /\ StreamsOpen'
    BY <1>1, <1>3, <2>1, <2>2, StreamStepType, StreamStepOpen, SendType, SendOpen
  <2>4. UNCHANGED queueVars
    BY <1>5 DEF ServeCandles, Dials, Reading, Disconnects, Receiving
  <2> QED BY <2>3, <2>4
<1>6. ASSUME Environment
      PROVE  StreamTypeOK' /\ StreamsOpen' /\ UNCHANGED queueVars
  <2>1. 1 \in Feeds
    BY StreamAssumption DEF Feeds
  <2>2. Cancel => StreamTypeOK' /\ StreamsOpen'
    BY <1>1, <1>3, <2>1, StreamStepType, StreamStepOpen
  <2>3. ASSUME NEW f \in Feeds, Publish(f) PROVE StreamTypeOK' /\ StreamsOpen'
    BY <1>1, <1>3, <2>3, PublishType, PublishOpen
  <2>4. StreamTypeOK' /\ StreamsOpen'
    BY <1>6, <2>2, <2>3 DEF Environment
  <2> QED BY <1>6, <2>4 DEF Environment
<1>7. UNCHANGED queueVars => QueueTypeOK'
  BY <1>1 DEF QueueTypeOK, queueVars
<1>8. StreamTypeOK' /\ StreamsOpen' /\ QueueTypeOK'
  BY <1>4, <1>5, <1>6, <1>7
<1> QED BY <1>2, <1>3, <1>8, NextParts

-----------------------------------------------------------------------------
(* The goroutine of Run.                                                   *)

(* What a preload writes: closed candles that the exchange has published.  *)
LEMMA CandlesByLimitRows ==
  ASSUME NEW f \in Feeds, published[f] \in Nat, published[f] <= LastCandle[f]
  PROVE  /\ CandlesByLimit(f) \in Seq(1..LastCandle[f])
         /\ \A i \in 1..Len(CandlesByLimit(f)) : CandlesByLimit(f)[i] % 2 = 0
<1> DEFINE closed == published[f] \div 2
           first == IF closed > WarmupPeriod THEN closed - WarmupPeriod ELSE 0
           n == closed - first
           rows == [i \in 1..n |-> 2 * (first + i)]
<1>1. closed \in Nat /\ 2 * closed <= published[f] /\ WarmupPeriod \in Nat /\ LastCandle[f] \in Nat
  BY StreamAssumption, PipelineAssumption
<1> HIDE DEF closed
<1>2. first \in Nat /\ n \in Nat /\ first + n = closed
  BY <1>1
<1>3. CandlesByLimit(f) = rows
  BY DEF CandlesByLimit, closed
<1> HIDE DEF first, n
<1>4. \A i \in 1..n : 2 * (first + i) \in 1..LastCandle[f] /\ (2 * (first + i)) % 2 = 0
  BY <1>1, <1>2
<1>5. rows \in Seq(1..LastCandle[f]) /\ Len(rows) = n
  BY <1>2, <1>4
<1> QED BY <1>3, <1>4, <1>5

LEMMA PreloadInv ==
  ASSUME PipelineInv, Preload
  PROVE  PipelineInv' /\ acted' = acted
<1>1. /\ StreamTypeOK /\ QueueTypeOK /\ FrameTypeOK /\ BotTypeOK
      /\ StreamsOpen /\ ClosedRows
  BY TypeParts DEF PipelineInv
<1> DEFINE f == setup + 1
<1>2. f \in Feeds /\ NextPair \in 0..(NFeeds - 1)
  BY <1>1, StreamAssumption DEF BotTypeOK, Feeds, NextPair
<1>3. StreamTypeOK' /\ QueueTypeOK' /\ BotTypeOK' /\ acted' = acted
  BY <1>1, <1>2
     DEF Preload, StreamTypeOK, QueueTypeOK, BotTypeOK, MainPCs, streamVars, queueVars
<1>4. /\ CandlesByLimit(f) \in Seq(1..LastCandle[f])
      /\ \A i \in 1..Len(CandlesByLimit(f)) : CandlesByLimit(f)[i] % 2 = 0
  BY <1>1, <1>2, CandlesByLimitRows DEF StreamTypeOK
<1>5. frame' = frame \/ frame' = [frame EXCEPT ![f] = CandlesByLimit(f)]
  BY DEF Preload
<1>6. FrameTypeOK'
  <2>1. frame' \in [Feeds -> Seq(Nat)] /\ \A g \in Feeds : frame'[g] \in Seq(1..LastCandle[g])
    <3>1. CASE frame' = frame
      BY <1>1, <3>1 DEF FrameTypeOK
    <3>2. CASE frame' = [frame EXCEPT ![f] = CandlesByLimit(f)]
      <4> HIDE DEF f
      <4> QED BY <1>1, <1>2, <1>4, <3>2, SetSeq DEF FrameTypeOK
    <3> QED BY <1>5, <3>1, <3>2
  <2> QED BY <1>1, <1>3, <2>1 DEF FrameTypeOK
<1>7. StreamsOpen'
  BY <1>1 DEF Preload, StreamsOpen, streamVars
<1>8. ClosedRows'
  <2>1. \A g \in Feeds : acted[g] = 0
    BY <1>1 DEF Preload, ClosedRows
  <2>2. ASSUME ~partials, NEW g \in Feeds
        PROVE  \A i \in 1..Len(frame'[g]) : frame'[g][i] % 2 = 0
    <3>1. frame'[g] = frame[g] \/ (g = f /\ frame'[g] = CandlesByLimit(f))
      BY <1>1, <1>2, <1>5 DEF FrameTypeOK
    <3>2. \A i \in 1..Len(frame[g]) : frame[g][i] % 2 = 0
      BY <1>1, <2>2 DEF ClosedRows
    <3> QED BY <1>4, <3>1, <3>2
  <2>3. partials' = partials
    BY DEF Preload
  <2> QED BY <1>3, <2>1, <2>2, <2>3 DEF ClosedRows
<1> QED BY <1>3, <1>6, <1>7, <1>8, NextParts

(* What a CSV file sends: candles of the feed in ascending order, closed    *)
(* ones only when it is not resampled.                                     *)
LEMMA CsvCandlesRows ==
  ASSUME NEW f \in Feeds
  PROVE  /\ CsvCandles(f) \in Seq(1..LastCandle[f])
         /\ \A i, j \in 1..Len(CsvCandles(f)) : i < j => CsvCandles(f)[i] < CsvCandles(f)[j]
         /\ f \notin Resampled => \A i \in 1..Len(CsvCandles(f)) : CsvCandles(f)[i] % 2 = 0
<1> DEFINE closed == LastCandle[f] \div 2
           all == [i \in 1..(2 * closed) |-> i]
           even == [i \in 1..closed |-> 2 * i]
<1>1. LastCandle[f] \in Nat /\ closed \in Nat /\ 2 * closed <= LastCandle[f]
  BY StreamAssumption
<1>2. CsvCandles(f) = IF f \in Resampled THEN all ELSE even
  BY DEF CsvCandles
<1> HIDE DEF closed
<1>3. /\ \A i \in 1..(2 * closed) : i \in 1..LastCandle[f]
      /\ \A i \in 1..closed : 2 * i \in 1..LastCandle[f] /\ (2 * i) % 2 = 0
  BY <1>1
<1>4. all \in Seq(1..LastCandle[f]) /\ Len(all) = 2 * closed
  BY <1>1, <1>3
<1>5. even \in Seq(1..LastCandle[f]) /\ Len(even) = closed
  BY <1>1, <1>3
<1> QED BY <1>1, <1>2, <1>3, <1>4, <1>5

LEMMA ConnectInv ==
  ASSUME PipelineInv, Connect
  PROVE  PipelineInv' /\ UNCHANGED strategyVars
<1>1. /\ StreamTypeOK /\ QueueTypeOK /\ FrameTypeOK /\ BotTypeOK
      /\ StreamsOpen /\ ClosedRows
  BY TypeParts DEF PipelineInv
<1> DEFINE f == setup + 1
           csv == CsvCandles(f)
<1>2. f \in Feeds /\ NextPair \in 0..(NFeeds - 1) /\ NFeeds \in Nat /\ setup \in Nat
  BY <1>1, StreamAssumption DEF BotTypeOK, Feeds, NextPair
<1>3. QueueTypeOK' /\ FrameTypeOK' /\ BotTypeOK' /\ UNCHANGED strategyVars
  BY <1>1, <1>2
     DEF Connect, QueueTypeOK, FrameTypeOK, BotTypeOK, MainPCs, queueVars, strategyVars
<1>4. /\ main = "connect" /\ main' \in {"connect", "listen"}
      /\ main' = "connect" => f # NFeeds /\ setup' = f
      /\ loop' \in {[loop EXCEPT ![f] = "head"], [loop EXCEPT ![f] = "csv"]}
      /\ wire' = wire \/ wire' = [wire EXCEPT ![f] = csv]
      /\ UNCHANGED <<cancelled, published, reader, receiver>>
  BY DEF Connect, NextPair
<1>5. csv \in Seq(1..LastCandle[f])
  BY <1>2, CsvCandlesRows
<1> HIDE DEF f, csv
<1>6. wire' \in [Feeds -> Seq(Nat)] /\ \A g \in Feeds : wire'[g] \in Seq(1..LastCandle[g])
  <2>1. CASE wire' = wire
    BY <1>1, <2>1 DEF StreamTypeOK
  <2>2. CASE wire' = [wire EXCEPT ![f] = csv]
    BY <1>1, <1>2, <1>5, <2>2, SetSeq DEF StreamTypeOK
  <2> QED BY <1>4, <2>1, <2>2
<1>7. StreamTypeOK'
  BY <1>1, <1>4, <1>6 DEF StreamTypeOK, LoopPCs
<1>8. StreamsOpen'
  <2>1. loop[f] = "unopened" /\ reader[f] \notin {"read", "candle", "error"}
    BY <1>1, <1>2, <1>4 DEF StreamsOpen, f
  <2>2. \A g \in Feeds \ {f} : loop'[g] = loop[g] /\ wire'[g] = wire[g]
    BY <1>1, <1>2, <1>4 DEF StreamTypeOK
  <2>3. \A g \in Feeds : main' = "connect" /\ g > setup' => g > setup /\ g # f
    BY <1>2, <1>4 DEF f, Feeds
  <2> QED BY <1>1, <1>4, <2>1, <2>2, <2>3 DEF StreamsOpen
<1>9. ClosedRows'
  BY <1>1, <1>3, <1>4 DEF Connect, ClosedRows, strategyVars
<1> QED BY <1>3, <1>7, <1>8, <1>9, NextParts

(* The steps of Run that only move it on.                                  *)
LEMMA MainStepInv ==
  ASSUME PipelineInv,
         \/ Start \/ Drained \/ BacktestReturns \/ PopLock \/ Done \/ CancelledFirst
         \/ PreloadFails \/ \E c \in Candles : Receive(c)
  PROVE  PipelineInv' /\ UNCHANGED strategyVars
<1>1. /\ StreamTypeOK /\ QueueTypeOK /\ FrameTypeOK /\ BotTypeOK
      /\ StreamsOpen /\ ClosedRows
  BY TypeParts DEF PipelineInv
<1>2. /\ UNCHANGED <<cancelled, published, loop, reader, wire>>
      /\ receiver' = receiver \/ receiver' = [f \in Feeds |-> "on"]
      /\ UNCHANGED <<mode, partials, setup, data, fresh>>
      /\ hooked' = hooked \/ hooked' = TRUE
      /\ held' \subseteq held
      /\ main' \in MainPCs \ {"setup", "connect"}
      /\ current' = current \/ current' = {} \/ \E c \in held : current' = {c}
      /\ UNCHANGED strategyVars
  BY DEF Start, Drained, BacktestReturns, PopLock, Done, CancelledFirst, PreloadFails,
         Receive, MainTo, MainPCs, streamVars, queueVars
<1>3. StreamTypeOK'
  BY <1>1, <1>2 DEF StreamTypeOK
<1>4. QueueTypeOK' /\ BotTypeOK'
  BY <1>1, <1>2 DEF QueueTypeOK, BotTypeOK
<1>5. FrameTypeOK' /\ StreamsOpen' /\ ClosedRows'
  BY <1>1, <1>2 DEF FrameTypeOK, StreamsOpen, ClosedRows, strategyVars
<1> QED BY <1>2, <1>3, <1>4, <1>5, NextParts

(* The steps that process a candle.                                        *)
LEMMA ProcessInv ==
  ASSUME PipelineInv, BacktestCandle \/ ProcessCandles
  PROVE  /\ PipelineInv'
         /\ ~partials => \A f \in Feeds : acted'[f] # acted[f] => acted'[f] > acted[f]
<1>1. /\ StreamTypeOK /\ QueueTypeOK /\ FrameTypeOK /\ BotTypeOK
      /\ StreamsOpen /\ ClosedRows
  BY TypeParts DEF PipelineInv
<1>2. PICK c \in Candles : ProcessCandle(c)
  <2>1. CASE BacktestCandle
    <3>1. Head(data) \in Candles
      BY <1>1, <2>1 DEF BacktestCandle, QueueTypeOK
    <3> QED BY <2>1, <3>1 DEF BacktestCandle
  <2>2. CASE ProcessCandles
    BY <1>1, <2>2 DEF ProcessCandles, BotTypeOK
  <2> QED BY <2>1, <2>2
<1>3. /\ main # "setup" /\ main' \in MainPCs \ {"setup", "connect"}
      /\ UNCHANGED <<streamVars, mode, partials, hooked, fresh, held, setup>>
      /\ current' \subseteq current
      /\ data' = data \/ data' = Pop(data)
  BY DEF BacktestCandle, ProcessCandles, MainTo, MainPCs, queueVars, botVars
<1>4. FrameTypeOK'
  BY <1>1, <1>2, ProcessType
<1>5. partials \in BOOLEAN
  BY <1>1, PipelineAssumption DEF BotTypeOK
<1>6. /\ ClosedRows'
      /\ ~partials => \A f \in Feeds : acted'[f] # acted[f] => acted'[f] > acted[f]
  BY <1>1, <1>2, <1>3, <1>5, ProcessRows
<1>7. QueueTypeOK' /\ BotTypeOK'
  BY <1>1, <1>3, PopKept DEF QueueTypeOK, BotTypeOK
<1>8. StreamTypeOK' /\ StreamsOpen'
  BY <1>1, <1>3 DEF StreamTypeOK, StreamsOpen, streamVars
<1> QED BY <1>4, <1>6, <1>7, <1>8, NextParts

(* The goroutines of Push.                                                 *)
LEMMA NotifyingInv ==
  ASSUME PipelineInv, Notifying
  PROVE  PipelineInv' /\ UNCHANGED strategyVars
<1>1. /\ StreamTypeOK /\ QueueTypeOK /\ FrameTypeOK /\ BotTypeOK
      /\ StreamsOpen /\ ClosedRows
  BY TypeParts DEF PipelineInv
<1>2. UNCHANGED <<streamVars, mode, partials, hooked, botVars, strategyVars>>
  BY DEF Notifying, Notify, NotifyDrops
<1>3. QueueTypeOK'
  <2>1. CASE Notify
    <3>1. data # <<>> => Head(data) \in Candles
      BY <1>1 DEF QueueTypeOK
    <3>2. Pop(data) \in Seq(Candles)
      BY <1>1, PopKept DEF QueueTypeOK
    <3> QED BY <1>1, <2>1, <3>1, <3>2 DEF Notify, QueueTypeOK
  <2>2. ASSUME NEW c \in Candles, NotifyDrops(c) PROVE QueueTypeOK'
    BY <1>1, <2>2 DEF NotifyDrops, QueueTypeOK
  <2> QED BY <2>1, <2>2 DEF Notifying
<1>4. StreamTypeOK' /\ FrameTypeOK' /\ BotTypeOK' /\ StreamsOpen' /\ ClosedRows'
  BY <1>1, <1>2 DEF StreamTypeOK, FrameTypeOK, BotTypeOK, StreamsOpen, ClosedRows,
                    streamVars, botVars, strategyVars
<1> QED BY <1>2, <1>3, <1>4, NextParts

-----------------------------------------------------------------------------
(* The queue: QueueInv says that it is a heap of the candles that are       *)
(* waiting, and why a candle is never in two places: a connection carries   *)
(* its candles in ascending order, all later than the ones taken from it.  *)
InOrder ==
    \A f \in Feeds :
       /\ \A i, j \in 1..Len(wire[f]) : i < j => wire[f][i] < wire[f][j]
       /\ \A i \in 1..Len(wire[f]) : mode = "live" => wire[f][i] <= published[f]
       /\ \A c \in InFlight : c.feed = f =>
             /\ mode = "live" => c.n <= published[f]
             /\ \A i \in 1..Len(wire[f]) : c.n < wire[f][i]

(* Nothing is received before Start, a backtest starts no goroutine for a   *)
(* Push, and processCandles holds a candle only between its two looks at    *)
(* the context.                                                             *)
Phases ==
    /\ main \in {"setup", "connect", "listen"} =>
          InFlight = {} /\ \A f \in Feeds : receiver[f] = "off"
    /\ mode = "backtest" => /\ ~hooked /\ fresh = 0 /\ held = {} /\ current = {}
                            /\ main \notin {"hook", "select", "check"}
    /\ mode = "live" => main \notin {"drain", "backtest"}
    /\ current # {} => main = "check"

QueueInv == HeapOrder(data) /\ NotifyFindsCandle /\ InOrder /\ Phases

(* What the two action properties say of one step.                          *)
PopsEarliestStep == \A c \in Queued \ Queued' : \A d \in Queued' : ~Less(d, c)

NothingLostStep ==
    \A c \in InFlight \ InFlight' : cancelled \/ c \in current \/ main = "backtest"

(* What is in flight is a candle of the exchange.                           *)
LEMMA CandleInFlight ==
  ASSUME QueueTypeOK, BotTypeOK, NEW c \in InFlight
  PROVE  c \in Candles /\ c.feed \in Feeds /\ c.n \in Nat
<1>1. c \in Candles
  BY DEF InFlight, Queued, Range, QueueTypeOK, BotTypeOK
<1> QED BY <1>1, CandleFields

(* A sequence whose first item may have been taken, or that was cut.        *)
LEMMA CutSeq ==
  ASSUME NEW w \in Seq(Nat), NEW v, v = w \/ v = <<>> \/ (w # <<>> /\ v = Tail(w))
  PROVE  /\ Len(v) \in Nat
         /\ \E d \in {0, 1} : /\ Len(v) + d <= Len(w)
                              /\ \A i \in 1..Len(v) : v[i] = w[i + d]
         /\ w # <<>> /\ v = Tail(w) =>
               Len(w) = Len(v) + 1 /\ \A i \in 1..Len(v) : v[i] = w[i + 1]
<1>1. Len(w) \in Nat /\ Len(<<>>) = 0
  OBVIOUS
<1>2. w # <<>> /\ v = Tail(w) => Len(w) = Len(v) + 1 /\ Len(v) \in Nat
                                 /\ \A i \in 1..Len(v) : v[i] = w[i + 1]
  BY EmptySeq
<1>3. CASE v = w
  <2>1. Len(v) + 0 <= Len(w) /\ \A i \in 1..Len(v) : v[i] = w[i + 0]
    BY <1>1, <1>3
  <2> QED BY <1>1, <1>2, <1>3, <2>1
<1>4. CASE v = <<>>
  <2>1. Len(v) + 0 <= Len(w) /\ \A i \in 1..Len(v) : v[i] = w[i + 0]
    BY <1>1, <1>4
  <2> QED BY <1>1, <1>2, <1>4, <2>1
<1>5. CASE w # <<>> /\ v = Tail(w)
  BY <1>1, <1>2, <1>5
<1> QED BY <1>3, <1>4, <1>5

(* The order is kept while connections are cut or read, when the only new   *)
(* candles in flight are the ones read from them.                          *)
LEMMA OrderStays ==
  ASSUME wire \in [Feeds -> Seq(Nat)], InOrder, mode' = mode, published' = published,
         \A g \in Feeds : \/ wire'[g] = wire[g] \/ wire'[g] = <<>>
                          \/ wire[g] # <<>> /\ wire'[g] = Tail(wire[g]),
         \A c \in InFlight' \ InFlight :
            /\ c.feed \in Feeds
            /\ wire[c.feed] # <<>> /\ wire'[c.feed] = Tail(wire[c.feed])
            /\ c.n = wire[c.feed][1]
  PROVE  InOrder'
<1> SUFFICES ASSUME NEW f \in Feeds
             PROVE  /\ \A i, j \in 1..Len(wire'[f]) : i < j => wire'[f][i] < wire'[f][j]
                    /\ \A i \in 1..Len(wire'[f]) : mode' = "live" => wire'[f][i] <= published'[f]
                    /\ \A c \in InFlight' : c.feed = f =>
                          /\ mode' = "live" => c.n <= published'[f]
                          /\ \A i \in 1..Len(wire'[f]) : c.n < wire'[f][i]
  BY DEF InOrder
<1>0. PICK v : v = wire'[f]
  OBVIOUS
<1>1. PICK w \in Seq(Nat) : w = wire[f] /\ v = wire'[f]
  BY <1>0
<1>a. v = w \/ v = <<>> \/ (w # <<>> /\ v = Tail(w))
  BY <1>1
<1>b. /\ Len(v) \in Nat
      /\ \E d \in {0, 1} : Len(v) + d <= Len(w) /\ \A i \in 1..Len(v) : v[i] = w[i + d]
  BY ONLY <1>a, CutSeq
<1>2. PICK m : m = Len(v) /\ m \in Nat
  BY <1>b
<1>3. Len(w) \in Nat
  OBVIOUS
<1>4. PICK d \in {0, 1} : m + d <= Len(w) /\ \A i \in 1..m : v[i] = w[i + d]
  BY <1>2, <1>b
<1>5. \A i \in 1..m : i + d \in 1..Len(w)
  BY <1>2, <1>3, <1>4
<1>6. /\ \A i, j \in 1..Len(w) : i < j => w[i] < w[j]
      /\ \A i \in 1..Len(w) : mode = "live" => w[i] <= published[f]
      /\ \A c \in InFlight : c.feed = f => /\ mode = "live" => c.n <= published[f]
                                           /\ \A i \in 1..Len(w) : c.n < w[i]
  BY <1>1 DEF InOrder
<1>7. \A i, j \in 1..m : i < j => v[i] < v[j]
  <2> SUFFICES ASSUME NEW i \in 1..m, NEW j \in 1..m, i < j PROVE v[i] < v[j]
    OBVIOUS
  <2>1. i + d < j + d
    BY <1>2
  <2> QED BY <1>4, <1>5, <1>6, <2>1
<1>8. \A i \in 1..m : mode = "live" => v[i] <= published[f]
  BY <1>4, <1>5, <1>6
<1>9. ASSUME NEW c \in InFlight', c.feed = f
      PROVE  (mode = "live" => c.n <= published[f]) /\ \A i \in 1..m : c.n < v[i]
  <2>1. CASE c \in InFlight
    BY <1>4, <1>5, <1>6, <1>9, <2>1
  <2>2. CASE c \notin InFlight
    <3>1. w # <<>> /\ v = Tail(w) /\ c.n = w[1]
      BY <1>1, <1>9, <2>2
    <3>2. Len(w) = m + 1 /\ \A i \in 1..m : v[i] = w[i + 1]
      BY <1>1, <1>2, <3>1, CutSeq
    <3>3. 1 \in 1..Len(w) /\ \A i \in 1..m : i + 1 \in 1..Len(w) /\ 1 < i + 1
      BY <1>2, <3>2
    <3>4. \A i \in 1..m : w[1] < w[i + 1]
      BY <1>6, <3>3
    <3>5. mode = "live" => w[1] <= published[f]
      BY <1>6, <3>3
    <3> QED BY <3>1, <3>2, <3>4, <3>5
  <2> QED BY <2>1, <2>2
<1> QED BY <1>1, <1>2, <1>7, <1>8, <1>9

(* The order of the queue depends on the mode of the bot, which no step     *)
(* changes.                                                                 *)
LEMMA HeapStays ==
  ASSUME mode' = mode, HeapOrder(data')
  PROVE  HeapOrder(data)'
  BY DEF HeapOrder, Less, UpdatedAt, Time

(* A step that leaves the queue alone.                                      *)
LEMMA SameQueue ==
  ASSUME QueueInv, UNCHANGED <<queueVars, current>>, mode' = mode
  PROVE  /\ HeapOrder(data)' /\ NotifyFindsCandle' /\ Queued' = Queued /\ InFlight' = InFlight
         /\ PopsEarliestStep /\ NothingLostStep
<1>1. HeapOrder(data)'
  <2>1. HeapOrder(data')
    BY DEF QueueInv, queueVars
  <2> QED BY <2>1, HeapStays
<1> QED BY <1>1 DEF QueueInv, queueVars, NotifyFindsCandle, Queued, InFlight,
                    PopsEarliestStep, NothingLostStep

(* The steps of the streams but the publication and the reading.            *)
LEMMA StreamQueue ==
  ASSUME StreamTypeOK, StreamsOpen, QueueInv, NEW f \in Feeds,
         \/ Cancel /\ UNCHANGED <<mode, partials, queueVars, botVars, strategyVars>>
         \/ ServeCandles(f) \/ Dials(f) \/ Reading(f) \/ Disconnects(f) \/ Receiving(f)
  PROVE  QueueInv' /\ PopsEarliestStep /\ NothingLostStep
<1>1. /\ UNCHANGED <<queueVars, current>> /\ UNCHANGED <<mode, main, published>>
      /\ hooked' = hooked /\ fresh' = fresh /\ held' = held
  BY DEF ServeCandles, LoopEnds, DialFails, DialReported, Wake, ConnectionEnds, StopConnection,
         Join, CsvCloses, Dials, Dial, Reading, Read, DropCandle, ErrorReported, Disconnects,
         Disconnect, Receiving, ReceiverEnds, Cancel, botVars, queueVars
<1>2. /\ HeapOrder(data)' /\ NotifyFindsCandle' /\ Queued' = Queued /\ InFlight' = InFlight
      /\ PopsEarliestStep /\ NothingLostStep
  BY <1>1, SameQueue
<1>3. \/ wire' = wire \/ wire' = [wire EXCEPT ![f] = <<>>]
      \/ wire[f] # <<>> /\ wire' = [wire EXCEPT ![f] = Tail(wire[f])]
  BY DEF ServeCandles, LoopEnds, DialFails, DialReported, Wake, ConnectionEnds, StopConnection,
         Join, CsvCloses, Dials, Dial, Reading, Read, DropCandle, ErrorReported, Disconnects,
         Disconnect, Receiving, ReceiverEnds, Cancel, StreamsOpen, ReaderTo
<1>4. wire \in [Feeds -> Seq(Nat)]
  BY DEF StreamTypeOK
<1>5. \A g \in Feeds : \/ wire'[g] = wire[g] \/ wire'[g] = <<>>
                       \/ wire[g] # <<>> /\ wire'[g] = Tail(wire[g])
  BY <1>3, <1>4
<1>6. InOrder'
  BY <1>1, <1>2, <1>4, <1>5, OrderStays DEF QueueInv
<1>7. receiver' = receiver \/ receiver[f] = "on"
  BY DEF ServeCandles, LoopEnds, DialFails, DialReported, Wake, ConnectionEnds, StopConnection,
         Join, CsvCloses, Dials, Dial, Reading, Read, DropCandle, ErrorReported, Disconnects,
         Disconnect, Receiving, ReceiverEnds, Cancel
<1>8. Phases'
  BY <1>1, <1>2, <1>7 DEF QueueInv, Phases
<1> QED BY <1>2, <1>6, <1>8 DEF QueueInv

(* The exchange publishes a candle later than all that are on their way.    *)
LEMMA PublishQueue ==
  ASSUME StreamTypeOK, QueueTypeOK, BotTypeOK, QueueInv, NEW f \in Feeds,
         mode = "live", Publish(f),
         UNCHANGED <<mode, partials, queueVars, botVars, strategyVars>>
  PROVE  QueueInv' /\ PopsEarliestStep /\ NothingLostStep
<1>1. /\ UNCHANGED <<queueVars, current>> /\ UNCHANGED <<mode, main, receiver>>
      /\ hooked' = hooked /\ fresh' = fresh /\ held' = held
  BY DEF Publish, botVars, queueVars
<1>2. /\ HeapOrder(data)' /\ NotifyFindsCandle' /\ Queued' = Queued /\ InFlight' = InFlight
      /\ PopsEarliestStep /\ NothingLostStep
  BY <1>1, SameQueue
<1>3. InOrder'
  <2> SUFFICES ASSUME NEW g \in Feeds
               PROVE  /\ \A i, j \in 1..Len(wire'[g]) : i < j => wire'[g][i] < wire'[g][j]
                      /\ \A i \in 1..Len(wire'[g]) : mode' = "live" => wire'[g][i] <= published'[g]
                      /\ \A c \in InFlight' : c.feed = g =>
                            /\ mode' = "live" => c.n <= published'[g]
                            /\ \A i \in 1..Len(wire'[g]) : c.n < wire'[g][i]
    BY DEF InOrder
  <2>1. PICK w \in Seq(Nat), p \in Nat : w = wire[g] /\ p = published[g]
    BY DEF StreamTypeOK
  <2>2. /\ \A i, j \in 1..Len(w) : i < j => w[i] < w[j]
        /\ \A i \in 1..Len(w) : w[i] <= p
        /\ \A c \in InFlight : c.feed = g => c.n <= p /\ \A i \in 1..Len(w) : c.n < w[i]
    BY <2>1 DEF QueueInv, InOrder
  <2>3. CASE wire'[g] = w /\ published'[g] = p
    BY <1>1, <1>2, <2>2, <2>3
  <2>4. CASE wire'[g] = w /\ published'[g] = p + 1
    <3>1. \A c \in InFlight : c.feed = g => c.n <= p + 1
      <4> SUFFICES ASSUME NEW c \in InFlight, c.feed = g PROVE c.n <= p + 1
        OBVIOUS
      <4>1. c.n \in Nat
        BY CandleInFlight
      <4> QED BY <2>1, <2>2, <4>1
    <3>2. \A i \in 1..Len(w) : w[i] <= p + 1
      BY <2>1, <2>2
    <3> QED BY <1>1, <1>2, <2>2, <2>4, <3>1, <3>2
  <2>5. CASE wire'[g] = Append(w, p + 1) /\ published'[g] = p + 1
    <3>1. PICK m, v : m = Len(w) /\ v = Append(w, p + 1)
      OBVIOUS
    <3>2. /\ m \in Nat /\ Len(v) = m + 1 /\ v[m + 1] = p + 1
          /\ \A i \in 1..m : v[i] = w[i] /\ v[i] <= p /\ v[i] \in Nat
      BY <2>1, <2>2, <3>1
    <3>3. \A i \in 1..(m + 1) : i = m + 1 \/ i \in 1..m
      BY <3>2
    <3>4. \A i, j \in 1..(m + 1) : i < j => v[i] < v[j]
      <4> SUFFICES ASSUME NEW i \in 1..(m + 1), NEW j \in 1..(m + 1), i < j PROVE v[i] < v[j]
        OBVIOUS
      <4>1. i \in 1..m
        BY <3>2
      <4>2. CASE j \in 1..m
        BY <2>2, <3>1, <3>2, <4>1, <4>2
      <4>3. CASE j = m + 1
        BY <2>1, <3>2, <4>1, <4>3
      <4> QED BY <3>3, <4>2, <4>3
    <3>5. \A i \in 1..(m + 1) : v[i] <= p + 1
      BY <2>1, <3>2, <3>3
    <3>6. ASSUME NEW c \in InFlight, c.feed = g
          PROVE  c.n <= p + 1 /\ \A i \in 1..(m + 1) : c.n < v[i]
      <4>1. c.n \in Nat
        BY CandleInFlight
      <4>2. c.n <= p /\ \A i \in 1..m : c.n < v[i]
        BY <2>2, <3>1, <3>2, <3>6
      <4> QED BY <2>1, <3>2, <3>3, <4>1, <4>2
    <3> QED BY <1>1, <1>2, <2>5, <3>1, <3>2, <3>4, <3>5, <3>6
  <2> QED BY <2>1, <2>3, <2>4, <2>5 DEF Publish, StreamTypeOK
<1>4. Phases'
  BY <1>1, <1>2 DEF QueueInv, Phases
<1> QED BY <1>2, <1>3, <1>4 DEF QueueInv

(* A candle that is handed over is new: it is later than all that its pair  *)
(* has in flight.                                                           *)
LEMMA OnCandleQueue ==
  ASSUME StreamTypeOK, QueueTypeOK, BotTypeOK, QueueInv, NEW f \in Feeds, OnCandle(f)
  PROVE  QueueInv' /\ PopsEarliestStep /\ NothingLostStep
<1>1. PICK n \in 1..LastCandle[f] : Hand(f, n) /\ Push(Candle(f, n))
  BY DEF OnCandle
<1>2. PICK c : c = Candle(f, n)
  OBVIOUS
<1>3. c \in Candles /\ c.feed = f /\ c.n = n /\ Push(c)
  BY <1>1, <1>2, CandleType DEF Candle
<1>4. UNCHANGED <<mode, hooked, held, current, main, published, receiver>>
  BY <1>1 DEF OnCandle, Hand, botVars
<1>5. wire[f] # <<>> /\ n = Head(wire[f]) /\ wire' = [wire EXCEPT ![f] = Tail(wire[f])]
      /\ receiver[f] = "on"
  BY <1>1 DEF Hand
<1>6. wire \in [Feeds -> Seq(Nat)] /\ wire[f] \in Seq(Nat)
  BY DEF StreamTypeOK
<1>7. n = wire[f][1] /\ 1 \in 1..Len(wire[f])
  <2>1. PICK w \in Seq(Nat) : w = wire[f]
    BY <1>6
  <2>2. w # <<>> /\ n = Head(w)
    BY <1>5, <2>1
  <2>3. n = w[1] /\ 1 \in 1..Len(w)
    BY <2>2, EmptySeq
  <2> QED BY <2>1, <2>3
<1>8. c \notin InFlight
  <2> SUFFICES ASSUME c \in InFlight PROVE FALSE
    OBVIOUS
  <2>1. c.n < wire[f][1]
    BY <1>3, <1>7 DEF QueueInv, InOrder
  <2>2. c.n \in Nat
    BY CandleInFlight
  <2> QED BY <1>3, <1>7, <2>1, <2>2
<1>9. data \in Seq(Candles)
  BY DEF QueueTypeOK
<1>10. /\ Len(data') = Len(data) + 1 /\ Queued' = Queued \cup {c}
       /\ IsInjective(data) /\ c \notin Queued => IsInjective(data')
  BY <1>3, <1>9, PushKept DEF Queued
<1>11. InFlight' = InFlight \cup {c}
  BY <1>4, <1>10 DEF InFlight
<1>12. HeapOrder(data)'
  <2>1. HeapOrder(data')
    BY <1>3, <1>9, PushHeap DEF QueueInv
  <2> QED BY <1>4, <2>1, HeapStays
<1>13. NotifyFindsCandle'
  <2>1. /\ fresh <= Len(data) /\ IsInjective(data)
        /\ Queued \cap held = {} /\ (Queued \cup held) \cap current = {}
    BY DEF QueueInv, NotifyFindsCandle
  <2>2. c \notin Queued /\ c \notin held /\ c \notin current
    BY <1>8 DEF InFlight
  <2>3. fresh \in Nat /\ Len(data) \in Nat /\ (fresh' = fresh \/ fresh' = fresh + 1)
    BY <1>3, <1>9 DEF Push, QueueTypeOK
  <2>4. fresh' <= Len(data')
    BY <1>10, <2>1, <2>3
  <2>5. IsInjective(data')
    BY <1>10, <2>1, <2>2
  <2>6. Queued' \cap held' = {} /\ (Queued' \cup held') \cap current' = {}
    BY <1>4, <1>10, <2>1, <2>2
  <2> QED BY <2>4, <2>5, <2>6 DEF NotifyFindsCandle
<1>14. InOrder'
  <2>1. \A g \in Feeds : \/ wire'[g] = wire[g] \/ wire'[g] = <<>>
                         \/ wire[g] # <<>> /\ wire'[g] = Tail(wire[g])
    BY <1>5, <1>6
  <2>2. wire'[f] = Tail(wire[f])
    BY <1>5, <1>6
  <2>3. \A d \in InFlight' \ InFlight : d = c
    BY <1>11
  <2>4. \A d \in InFlight' \ InFlight :
           /\ d.feed \in Feeds
           /\ wire[d.feed] # <<>> /\ wire'[d.feed] = Tail(wire[d.feed])
           /\ d.n = wire[d.feed][1]
    BY <1>3, <1>5, <1>7, <2>2, <2>3
  <2> QED BY <1>4, <1>6, <2>1, <2>4, OrderStays DEF QueueInv
<1>15. Phases'
  <2>1. main \notin {"setup", "connect", "listen"}
    BY <1>5 DEF QueueInv, Phases
  <2>2. hooked \in BOOLEAN /\ (~hooked => fresh' = fresh)
    BY <1>3 DEF Push, QueueTypeOK
  <2> QED BY <1>4, <2>1, <2>2 DEF QueueInv, Phases
<1>16. PopsEarliestStep /\ NothingLostStep
  BY <1>10, <1>11 DEF PopsEarliestStep, NothingLostStep
<1> QED BY <1>12, <1>13, <1>14, <1>15, <1>16 DEF QueueInv

(* The steps of Run that take no candle.                                    *)
LEMMA MainQueue ==
  ASSUME StreamTypeOK, QueueTypeOK, BotTypeOK, QueueInv,
         \/ Preload \/ PreloadFails \/ Start \/ Drained \/ BacktestReturns \/ PopLock \/ Done
  PROVE  QueueInv' /\ PopsEarliestStep /\ NothingLostStep
<1>1. UNCHANGED <<data, fresh, held, current, mode, published, wire>>
  BY DEF Preload, PreloadFails, Start, Drained, BacktestReturns, PopLock, Done,
         queueVars, streamVars
<1>2. /\ HeapOrder(data)' /\ NotifyFindsCandle' /\ Queued' = Queued /\ InFlight' = InFlight
      /\ PopsEarliestStep /\ NothingLostStep
  <2>1. HeapOrder(data')
    BY <1>1 DEF QueueInv
  <2>2. HeapOrder(data)'
    BY <1>1, <2>1, HeapStays
  <2> QED BY <1>1, <2>2 DEF QueueInv, NotifyFindsCandle, Queued, InFlight, PopsEarliestStep,
                            NothingLostStep
<1>3. InOrder'
  <2>1. wire \in [Feeds -> Seq(Nat)]
    BY DEF StreamTypeOK
  <2> QED BY <1>1, <1>2, <2>1, OrderStays DEF QueueInv
<1>4. Phases'
  <2>1. CASE Preload
    <3>1. /\ main = "setup" /\ main' \in {"setup", "connect"}
          /\ UNCHANGED <<receiver, hooked>>
      BY <2>1 DEF Preload, streamVars, queueVars
    <3> QED BY <1>1, <1>2, <3>1 DEF QueueInv, Phases
  <2>2. CASE PreloadFails \/ Drained \/ BacktestReturns \/ Done
    <3>1. /\ hooked' = hooked
          /\ \/ main' = "returned" /\ main # "check"
             \/ main = "drain" /\ main' = "backtest"
      BY <2>2 DEF PreloadFails, Drained, BacktestReturns, Done, MainTo, queueVars
    <3> QED BY <1>1, <1>2, <3>1 DEF QueueInv, Phases
  <2>3. CASE Start
    <3>1. /\ hooked' = hooked /\ main = "listen"
          /\ main' = IF mode = "live" THEN "hook" ELSE "drain"
      BY <2>3 DEF Start, MainTo, queueVars
    <3> QED BY <1>1, <1>2, <3>1 DEF QueueInv, Phases
  <2>4. CASE PopLock
    <3>1. main = "hook" /\ main' = "select"
      BY <2>4 DEF PopLock, MainTo
    <3> QED BY <1>1, <1>2, <3>1 DEF QueueInv, Phases
  <2> QED BY <2>1, <2>2, <2>3, <2>4
<1> QED BY <1>2, <1>3, <1>4 DEF QueueInv

(* Connect: the CSV feeds send their candles in order.                      *)
LEMMA ConnectQueue ==
  ASSUME StreamTypeOK, QueueTypeOK, BotTypeOK, QueueInv, Connect
  PROVE  QueueInv' /\ PopsEarliestStep /\ NothingLostStep
<1>1. /\ UNCHANGED <<queueVars, current>> /\ UNCHANGED <<mode, published, receiver>>
      /\ main = "connect" /\ main' \in {"connect", "listen"}
      /\ hooked' = hooked /\ fresh' = fresh /\ held' = held
  BY DEF Connect, queueVars
<1>2. /\ HeapOrder(data)' /\ NotifyFindsCandle' /\ Queued' = Queued /\ InFlight' = InFlight
      /\ PopsEarliestStep /\ NothingLostStep
  BY <1>1, SameQueue
<1>3. InFlight = {}
  BY <1>1 DEF QueueInv, Phases
<1>4. InOrder'
  <2>1. CASE mode = "live"
    <3>1. wire' = wire /\ wire \in [Feeds -> Seq(Nat)]
      BY <2>1 DEF Connect, StreamTypeOK
    <3> QED BY <1>1, <1>2, <3>1, OrderStays DEF QueueInv
  <2>2. CASE mode # "live"
    <3>1. PICK f \in Feeds : wire' = [wire EXCEPT ![f] = CsvCandles(f)]
      <4>1. setup + 1 \in Feeds
        BY StreamAssumption DEF BotTypeOK, Feeds
      <4> QED BY <2>2, <4>1 DEF Connect
    <3> SUFFICES ASSUME NEW g \in Feeds, NEW i \in 1..Len(wire'[g]), NEW j \in 1..Len(wire'[g]),
                        i < j
                 PROVE  wire'[g][i] < wire'[g][j]
      BY <1>1, <1>2, <1>3, <2>2 DEF InOrder
    <3>2. CASE g = f
      <4>1. wire'[g] = CsvCandles(f)
        BY <3>1, <3>2 DEF StreamTypeOK
      <4> QED BY <4>1, CsvCandlesRows
    <3>3. CASE g # f
      <4>1. wire'[g] = wire[g]
        BY <3>1, <3>3 DEF StreamTypeOK
      <4> QED BY <4>1 DEF QueueInv, InOrder
    <3> QED BY <3>2, <3>3
  <2> QED BY <2>1, <2>2
<1>5. Phases'
  BY <1>1, <1>2 DEF QueueInv, Phases
<1> QED BY <1>2, <1>4, <1>5 DEF QueueInv

(* The steps that pass a candle on, without the queue.                      *)
LEMMA TakeQueue ==
  ASSUME StreamTypeOK, QueueTypeOK, BotTypeOK, QueueInv,
         \/ CancelledFirst \/ ProcessCandles
         \/ \E c \in Candles : Receive(c) \/ NotifyDrops(c)
  PROVE  QueueInv' /\ PopsEarliestStep /\ NothingLostStep
<1>1. UNCHANGED <<data, hooked, fresh, mode, published, wire, receiver>>
  BY DEF CancelledFirst, ProcessCandles, Receive, NotifyDrops, streamVars, queueVars
<1>2. \/ /\ held' = held /\ current' = {}
         /\ main = "check" /\ main' \in {"select", "returned"}
      \/ \E c \in held : /\ held' = held \ {c} /\ current' = {c}
                         /\ main = "select" /\ main' = "check"
      \/ \E c \in held : /\ held' = held \ {c} /\ current' = current
                         /\ main' = main /\ cancelled
  BY DEF CancelledFirst, ProcessCandles, Receive, NotifyDrops, MainTo, botVars, queueVars
<1>3. /\ HeapOrder(data) /\ fresh <= Len(data) /\ IsInjective(data)
      /\ Queued \cap held = {} /\ (Queued \cup held) \cap current = {}
      /\ InOrder /\ Phases
  BY DEF QueueInv, NotifyFindsCandle
<1>4. Queued' = Queued /\ HeapOrder(data)' /\ PopsEarliestStep
  <2>1. data' = data /\ mode' = mode
    BY <1>1
  <2>2. HeapOrder(data')
    BY <1>3, <2>1
  <2> QED BY <2>1, <2>2, HeapStays DEF Queued, PopsEarliestStep
<1>5. main = "select" => current = {}
  BY <1>3 DEF Phases
<1>6. NotifyFindsCandle'
  BY <1>1, <1>2, <1>3, <1>4, <1>5 DEF NotifyFindsCandle
<1>7. InFlight' \subseteq InFlight
  BY <1>2, <1>4, <1>5 DEF InFlight
<1>8. NothingLostStep
  BY <1>2, <1>4, <1>5 DEF InFlight, NothingLostStep
<1>9. InOrder'
  <2>1. wire \in [Feeds -> Seq(Nat)] /\ \A c \in InFlight' : c \in InFlight
    BY <1>7 DEF StreamTypeOK
  <2> QED BY <1>1, <1>3, <2>1, OrderStays
<1>10. Phases'
  <2>1. main' \in {"setup", "connect", "listen"} => main' = main
    BY <1>2
  <2>2. mode = "backtest" => main' = main /\ held' = {} /\ current' = {}
    BY <1>2, <1>3 DEF Phases
  <2>3. mode = "live" => main' \notin {"drain", "backtest"}
    BY <1>2, <1>3 DEF Phases
  <2>4. current' # {} => main' = "check"
    BY <1>2, <1>3 DEF Phases
  <2> QED BY <1>1, <1>3, <1>7, <2>1, <2>2, <2>3, <2>4 DEF Phases
<1> QED BY <1>3, <1>4, <1>6, <1>8, <1>9, <1>10 DEF QueueInv

(* The steps that pop: the first candle of the heap is the earliest.        *)
LEMMA PopQueue ==
  ASSUME StreamTypeOK, QueueTypeOK, BotTypeOK, QueueInv, BacktestCandle \/ Notify
  PROVE  QueueInv' /\ PopsEarliestStep /\ NothingLostStep
<1>1. /\ UNCHANGED <<mode, hooked, published, wire, receiver, main, current>>
      /\ data' = Pop(data)
  BY DEF BacktestCandle, Notify, streamVars, botVars
<1>2. /\ HeapOrder(data) /\ fresh <= Len(data) /\ IsInjective(data)
      /\ Queued \cap held = {} /\ (Queued \cup held) \cap current = {}
      /\ InOrder /\ Phases /\ data \in Seq(Candles) /\ fresh \in Nat
  BY DEF QueueInv, NotifyFindsCandle, QueueTypeOK
<1>3. data # <<>>
  <2>1. CASE BacktestCandle
    BY <2>1 DEF BacktestCandle
  <2>2. CASE Notify
    <3>1. fresh > 0
      BY <2>2 DEF Notify
    <3>2. Len(data) > 0
      BY <1>2, <3>1
    <3>3. Len(<<>>) = 0
      OBVIOUS
    <3> QED BY <3>2, <3>3
  <2> QED BY <2>1, <2>2
<1>4. PICK h : h = Head(data)
  OBVIOUS
<1>5. /\ h \in Candles /\ Len(data') = Len(data) - 1 /\ Queued = Queued' \cup {h}
      /\ IsInjective(data') /\ h \notin Queued'
  BY <1>1, <1>2, <1>3, <1>4, PopKept DEF Queued
<1>6. HeapOrder(data)'
  <2>1. HeapOrder(Pop(data))
    BY <1>2, PopHeap
  <2> QED BY <1>1, <2>1, HeapStays
<1>7. PopsEarliestStep
  <2>1. h = data[1] /\ \A i \in 1..Len(data) : ~Less(data[i], data[1])
    BY <1>2, <1>3, <1>4, HeadIsLeast
  <2>2. \A d \in Queued' : \E i \in 1..Len(data) : d = data[i]
    <3>1. Queued' \subseteq Queued
      BY <1>5
    <3>2. DOMAIN data = 1..Len(data)
      BY <1>2
    <3>3. \A d \in Queued : \E i \in 1..Len(data) : d = data[i]
      BY <3>2 DEF Queued, Range
    <3> QED BY <3>1, <3>3
  <2>3. \A d \in Queued' : ~Less(d, h)
    BY <2>1, <2>2
  <2>4. \A c \in Queued \ Queued' : c = h
    BY <1>5
  <2> QED BY <2>3, <2>4 DEF PopsEarliestStep
<1>8. \/ /\ main = "backtest" /\ held' = held /\ fresh' = fresh /\ fresh = 0
      \/ /\ held' = held \cup {h} /\ fresh' = fresh - 1 /\ fresh > 0
  <2>1. CASE BacktestCandle
    <3>1. main = "backtest" /\ held' = held /\ fresh' = fresh
      BY <2>1 DEF BacktestCandle
    <3>2. mode \in {"live", "backtest"}
      BY PipelineAssumption DEF BotTypeOK
    <3>3. fresh = 0
      BY <1>2, <3>1, <3>2 DEF Phases
    <3> QED BY <3>1, <3>3
  <2>2. CASE Notify
    BY <1>3, <1>4, <2>2 DEF Notify
  <2> QED BY <2>1, <2>2
<1>9. fresh' <= Len(data') /\ fresh' \in Nat
  <2>1. Len(data) \in Nat \ {0}
    BY <1>2, <1>3, EmptySeq
  <2> QED BY <1>2, <1>5, <1>8, <2>1
<1>10. Queued' \cap held' = {} /\ (Queued' \cup held') \cap current' = {}
  BY <1>1, <1>2, <1>5, <1>8
<1>11. NotifyFindsCandle'
  BY <1>5, <1>9, <1>10 DEF NotifyFindsCandle
<1>12. InFlight' \subseteq InFlight /\ NothingLostStep
  BY <1>1, <1>5, <1>8 DEF InFlight, NothingLostStep
<1>13. InOrder'
  <2>1. wire \in [Feeds -> Seq(Nat)] /\ \A c \in InFlight' : c \in InFlight
    BY <1>12 DEF StreamTypeOK
  <2> QED BY <1>1, <1>2, <2>1, OrderStays
<1>14. Phases'
  <2>1. mode = "backtest" => fresh' = 0 /\ held' = {}
    BY <1>2, <1>8 DEF Phases
  <2> QED BY <1>1, <1>2, <1>12, <2>1 DEF Phases
<1> QED BY <1>6, <1>7, <1>11, <1>12, <1>13, <1>14 DEF QueueInv

-----------------------------------------------------------------------------
LEMMA InitPipeline ==
  ASSUME Init
  PROVE  PipelineInv
<1>1. <<>> \in Seq(Candles) /\ <<>> \in Seq(Nat)
  OBVIOUS
<1>2. \A f \in Feeds : <<>> \in Seq(1..LastCandle[f]) /\ LastCandle[f] \in Nat
  BY StreamAssumption
<1>3. 0 \in 0..(NFeeds - 1)
  BY StreamAssumption
<1>4. StreamTypeOK
  BY <1>1, <1>2, StreamAssumption DEF Init, StreamInit, StreamTypeOK, LoopPCs, ReaderPCs
<1>5. QueueTypeOK /\ BotTypeOK
  BY <1>1, <1>3 DEF Init, QueueTypeOK, BotTypeOK, MainPCs
<1>6. FrameTypeOK
  BY <1>1, <1>2 DEF Init, FrameTypeOK
<1>7. StreamsOpen /\ ClosedRows
  BY DEF Init, StreamInit, StreamsOpen, ClosedRows
<1> QED BY <1>4, <1>5, <1>6, <1>7, TypeParts DEF PipelineInv

(* Every step preserves the invariant and moves no strategy back.           *)
LEMMA PipelineStep ==
  ASSUME PipelineInv, [Next]_vars
  PROVE  /\ PipelineInv'
         /\ ~partials => \A f \in Feeds : acted'[f] # acted[f] => acted'[f] > acted[f]
<1>1. CASE UNCHANGED vars
  BY <1>1 DEF vars, streamVars, queueVars, botVars, strategyVars, PipelineInv, TypeOK,
              StreamsOpen, ClosedRows
<1>2. CASE \/ Environment
           \/ \E f \in Feeds : \/ ServeCandles(f) \/ Dials(f) \/ Reading(f) \/ Disconnects(f)
                               \/ Receiving(f) \/ OnCandle(f)
  BY <1>2, StreamsInv DEF strategyVars
<1>3. CASE Notifying
  BY <1>3, NotifyingInv DEF strategyVars
<1>4. CASE PreloadFails \/ Run
  BY <1>4, PreloadInv, ConnectInv, MainStepInv, ProcessInv DEF Run, strategyVars
<1> QED BY <1>1, <1>2, <1>3, <1>4 DEF Next

(* Every variable of the pipeline keeps a value of its kind: the heap and   *)
(* the dataframes hold candles of the exchange, whatever the interleaving. *)
THEOREM PipelineTypeCorrect == Spec => []TypeOK
<1>1. PipelineInv => TypeOK
  BY DEF PipelineInv
<1> QED BY <1>1, InitPipeline, PipelineStep, PTL DEF Spec

(* serveCandles closes its channels only when no handler of a connection    *)
(* can still send: no run of the bot sends on a closed channel.            *)
THEOREM CloseIsLast == Spec => []NoSendAfterClose
<1>1. PipelineInv => NoSendAfterClose
  BY DEF PipelineInv, TypeOK, StreamsOpen, NoSendAfterClose, ReaderPCs
<1> QED BY <1>1, InitPipeline, PipelineStep, PTL DEF Spec

(* The late-candle test of the controller is enough: whatever order the     *)
(* goroutines of Push deliver in, a strategy that takes closed candles only *)
(* is called for later and later candles of a pair.                        *)
THEOREM StrategyNeverGoesBack == Spec => StrategyMovesForward
<1>1. PipelineInv /\ [Next]_vars =>
        [\A f \in Feeds : ~partials /\ acted'[f] # acted[f] => acted'[f] > acted[f]]_vars
  BY PipelineStep
<1> QED BY <1>1, InitPipeline, PipelineStep, PTL DEF Spec, StrategyMovesForward
-----------------------------------------------------------------------------
(* The invariant of the queue, from the first state on.                     *)
LEMMA InitQueue ==
  ASSUME Init
  PROVE  QueueInv
<1>1. Len(<<>>) = 0 /\ Range(<<>>) = {} /\ IsInjective(<<>>)
  BY DEF Range, IsInjective
<1>2. InFlight = {} /\ Queued = {}
  BY <1>1 DEF Init, InFlight, Queued
<1>3. HeapOrder(data) /\ NotifyFindsCandle
  BY <1>1, <1>2 DEF Init, HeapOrder, NotifyFindsCandle
<1>4. InOrder
  BY <1>1, <1>2 DEF Init, StreamInit, InOrder
<1>5. Phases
  BY <1>2 DEF Init, StreamInit, Phases
<1> QED BY <1>3, <1>4, <1>5 DEF QueueInv

(* Every step keeps the queue, pops the earliest candle and loses none.     *)
LEMMA QueueStep ==
  ASSUME PipelineInv, QueueInv, [Next]_vars
  PROVE  QueueInv' /\ PopsEarliestStep /\ NothingLostStep
<1>1. StreamTypeOK /\ QueueTypeOK /\ BotTypeOK /\ StreamsOpen
  BY TypeParts DEF PipelineInv
<1>2. CASE UNCHANGED vars
  <2>1. /\ UNCHANGED <<queueVars, current>> /\ UNCHANGED <<mode, main, published, wire, receiver>>
        /\ hooked' = hooked /\ fresh' = fresh /\ held' = held
    BY <1>2 DEF vars, streamVars, queueVars, botVars
  <2>2. /\ HeapOrder(data)' /\ NotifyFindsCandle' /\ Queued' = Queued /\ InFlight' = InFlight
        /\ PopsEarliestStep /\ NothingLostStep
    BY <2>1, SameQueue
  <2>3. InOrder' /\ Phases'
    BY <2>1, <2>2 DEF QueueInv, InOrder, Phases
  <2> QED BY <2>2, <2>3 DEF QueueInv
<1>3. CASE Environment
  <2>1. CASE Cancel
    <3>1. PICK f \in Feeds : TRUE
      BY StreamAssumption DEF Feeds
    <3> QED BY <1>1, <1>3, <2>1, <3>1, StreamQueue DEF Environment
  <2>2. ASSUME NEW f \in Feeds, Publish(f) PROVE QueueInv' /\ PopsEarliestStep /\ NothingLostStep
    BY <1>1, <1>3, <2>2, PublishQueue DEF Environment
  <2> QED BY <1>3, <2>1, <2>2 DEF Environment
<1>4. CASE \E f \in Feeds : \/ ServeCandles(f) \/ Dials(f) \/ Reading(f) \/ Disconnects(f)
                            \/ Receiving(f)
  BY <1>1, <1>4, StreamQueue
<1>5. CASE \E f \in Feeds : OnCandle(f)
  BY <1>1, <1>5, OnCandleQueue
<1>6. CASE Run \/ PreloadFails \/ Notifying
  BY <1>1, <1>6, MainQueue, ConnectQueue, TakeQueue, PopQueue DEF Run, Notifying
<1> QED BY <1>2, <1>3, <1>4, <1>5, <1>6 DEF Next

LEMMA QueueInvariant == Spec => [](PipelineInv /\ QueueInv)
<1>1. Init => PipelineInv /\ QueueInv
  BY InitPipeline, InitQueue
<1>2. PipelineInv /\ QueueInv /\ [Next]_vars => PipelineInv' /\ QueueInv'
  BY PipelineStep, QueueStep
<1> QED BY <1>1, <1>2, PTL DEF Spec

(* The goroutine that a Push starts always finds a candle to pop, whatever  *)
(* other goroutines popped before it, and no candle is queued twice or is   *)
(* with two goroutines: the nil that Pop returns for an empty queue never   *)
(* reaches processCandles.                                                  *)
THEOREM NotifyFindsCandleCorrect == Spec => []NotifyFindsCandle
<1>1. QueueInv => NotifyFindsCandle
  BY DEF QueueInv
<1> QED BY <1>1, QueueInvariant, PTL

(* The array of model/priorityqueue.go is a heap after any sequence of      *)
(* pushes and pops, ordered by Less as the code compares: each Pop returns  *)
(* a candle than which none of the others has an older time, or the same    *)
(* time and an older update, so a backtest of any number of pairs, with     *)
(* resampled files or without, is in chronological order.                  *)
THEOREM PopsTheEarliestCorrect == Spec => PopsTheEarliest
<1>1. PopsEarliestStep => \A c \in Queued \ Queued' : \A d \in Queued' : ~Earlier(d, c)
  BY DEF PopsEarliestStep, Less, Earlier
<1>2. PipelineInv /\ QueueInv /\ [Next]_vars =>
        [\A c \in Queued \ Queued' : \A d \in Queued' : ~Earlier(d, c)]_vars
  BY <1>1, QueueStep
<1> QED BY <1>2, QueueInvariant, PTL DEF Spec, PopsTheEarliest

(* Until the bot is cancelled a candle leaves the queue and its goroutines  *)
(* only to be processed: the rendezvous of PopLock loses none.              *)
THEOREM NothingLostCorrect == Spec => NothingLost
<1>1. PipelineInv /\ QueueInv /\ [Next]_vars =>
        [\A c \in InFlight \ InFlight' :
            cancelled \/ c \in current \/ main = "backtest"]_vars
  BY QueueStep DEF NothingLostStep
<1> QED BY <1>1, QueueInvariant, PTL DEF Spec, NothingLost

-----------------------------------------------------------------------------
(* A backtest: nothing is handed over any more, feeds that are not          *)
(* resampled send closed candles only, and what is left in the queue is     *)
(* later than what the dataframes hold.                                    *)
BacktestOrder ==
    mode = "backtest" =>
       /\ main \notin {"backtest", "returned"} => \A f \in Feeds : frame[f] = <<>>
       /\ main = "backtest" => \A f \in Feeds : receiver[f] = "ended"
       /\ \A f \in Feeds \ Resampled :
             /\ \A i \in 1..Len(wire[f]) : wire[f][i] % 2 = 0
             /\ \A c \in Queued : c.feed = f => c.n % 2 = 0
       /\ main = "backtest" => \A c \in Queued :
             frame[c.feed] = <<>> \/ Last(frame[c.feed]) < c.n

(* What the action property says of one step.                               *)
ForwardStep ==
    \A f \in Feeds : main = "backtest" /\ frame'[f] # frame[f] =>
       frame[f] = <<>> \/ Last(frame'[f]) > Last(frame[f])

(* A step of a backtest that takes no candle and hands none over.           *)
Calm ==
    /\ UNCHANGED <<mode, data, frame>>
    /\ \A f \in Feeds : \/ wire'[f] = wire[f] \/ wire'[f] = <<>>
                        \/ wire[f] # <<>> /\ wire'[f] = Tail(wire[f])
    /\ \A f \in Feeds : receiver'[f] = receiver[f] \/ receiver[f] = "on" \/ main = "listen"
    /\ \/ main' = main \/ main' = "returned" \/ Drained
       \/ {main, main'} \cap {"backtest", "returned"} = {}

LEMMA CalmKeeps ==
  ASSUME StreamTypeOK, QueueTypeOK, BotTypeOK, BacktestOrder, mode = "backtest", Calm
  PROVE  BacktestOrder' /\ ForwardStep
<1>1. UNCHANGED <<mode, data, frame>> /\ Queued' = Queued
  BY DEF Calm, Queued
<1>2. main' \notin {"backtest", "returned"} => main \notin {"backtest", "returned"}
  BY DEF Calm, Drained, MainTo
<1>3. main' = "backtest" => main = "backtest" \/ Drained
  BY DEF Calm
<1>4. main' = "backtest" => \A f \in Feeds : receiver'[f] = "ended"
  <2>1. CASE Drained
    BY <2>1 DEF Drained, streamVars
  <2>2. CASE main = "backtest"
    BY <2>2 DEF BacktestOrder, Calm
  <2> QED BY <1>3, <2>1, <2>2
<1>5. ASSUME NEW f \in Feeds \ Resampled PROVE \A i \in 1..Len(wire'[f]) : wire'[f][i] % 2 = 0
  <2>0. PICK v : v = wire'[f]
    OBVIOUS
  <2>1. PICK w \in Seq(Nat) : w = wire[f] /\ v = wire'[f]
    BY <2>0 DEF StreamTypeOK
  <2>2. v = w \/ v = <<>> \/ (w # <<>> /\ v = Tail(w))
    BY <2>1 DEF Calm
  <2>3. /\ Len(v) \in Nat
        /\ \E d \in {0, 1} : Len(v) + d <= Len(w) /\ \A i \in 1..Len(v) : v[i] = w[i + d]
    BY ONLY <2>2, CutSeq
  <2>4. PICK d \in {0, 1} : Len(v) + d <= Len(w) /\ \A i \in 1..Len(v) : v[i] = w[i + d]
    BY <2>3
  <2>5. \A i \in 1..Len(w) : w[i] % 2 = 0
    BY <2>1 DEF BacktestOrder
  <2>6. Len(w) \in Nat
    OBVIOUS
  <2>7. \A i \in 1..Len(v) : i + d \in 1..Len(w)
    BY <2>3, <2>4, <2>6
  <2>8. \A i \in 1..Len(v) : v[i] % 2 = 0
    BY <2>4, <2>5, <2>7
  <2> QED BY <2>1, <2>8
<1>6. main' = "backtest" => \A c \in Queued :
         frame[c.feed] = <<>> \/ Last(frame[c.feed]) < c.n
  <2>1. CASE Drained
    <3>1. \A f \in Feeds : frame[f] = <<>>
      BY <2>1 DEF BacktestOrder, Drained, MainTo
    <3>2. \A c \in Queued : c.feed \in Feeds
      BY CandleInFlight DEF InFlight
    <3> QED BY <3>1, <3>2
  <2>2. CASE main = "backtest"
    BY <2>2 DEF BacktestOrder
  <2> QED BY <1>3, <2>1, <2>2
<1>7. BacktestOrder'
  BY <1>1, <1>2, <1>4, <1>5, <1>6 DEF BacktestOrder
<1>8. ForwardStep
  BY <1>1 DEF ForwardStep
<1> QED BY <1>7, <1>8

(* The files send what CsvCandlesRows says.                                 *)
LEMMA ConnectKeeps ==
  ASSUME StreamTypeOK, BotTypeOK, BacktestOrder, mode = "backtest", Connect
  PROVE  BacktestOrder' /\ ForwardStep
<1>1. UNCHANGED <<mode, data, frame>> /\ Queued' = Queued
  BY DEF Connect, queueVars, strategyVars, Queued
<1>2. main = "connect" /\ main' \in {"connect", "listen"}
  BY DEF Connect
<1>3. PICK f \in Feeds : wire' = [wire EXCEPT ![f] = CsvCandles(f)]
  <2>1. setup + 1 \in Feeds
    BY StreamAssumption DEF BotTypeOK, Feeds
  <2> QED BY <2>1 DEF Connect
<1>4. ASSUME NEW g \in Feeds \ Resampled PROVE \A i \in 1..Len(wire'[g]) : wire'[g][i] % 2 = 0
  <2>1. CASE g = f
    <3>1. wire'[g] = CsvCandles(g)
      BY <1>3, <2>1 DEF StreamTypeOK
    <3> QED BY <3>1, CsvCandlesRows
  <2>2. CASE g # f
    <3>1. wire'[g] = wire[g]
      BY <1>3, <2>2 DEF StreamTypeOK
    <3> QED BY <3>1 DEF BacktestOrder
  <2> QED BY <2>1, <2>2
<1>5. BacktestOrder'
  BY <1>1, <1>2, <1>4 DEF BacktestOrder
<1>6. ForwardStep
  BY <1>1 DEF ForwardStep
<1> QED BY <1>5, <1>6

(* What is handed over was on the wire; nothing is once the queue is full.  *)
LEMMA HandKeeps ==
  ASSUME StreamTypeOK, QueueTypeOK, BotTypeOK, BacktestOrder, mode = "backtest",
         NEW f \in Feeds, OnCandle(f)
  PROVE  BacktestOrder' /\ ForwardStep
<1>1. PICK n \in 1..LastCandle[f] : Hand(f, n) /\ Push(Candle(f, n))
  BY DEF OnCandle
<1>2. PICK c : c = Candle(f, n)
  OBVIOUS
<1>3. c \in Candles /\ c.feed = f /\ c.n = n /\ Push(c)
  BY <1>1, <1>2, CandleType DEF Candle
<1>4. UNCHANGED <<mode, main, frame, receiver>>
  BY <1>1 DEF OnCandle, Hand, botVars, strategyVars
<1>5. /\ wire[f] # <<>> /\ n = Head(wire[f]) /\ wire' = [wire EXCEPT ![f] = Tail(wire[f])]
      /\ receiver[f] = "on"
  BY <1>1 DEF Hand
<1>6. Queued' = Queued \cup {c}
  BY <1>3, PushKept DEF Queued, QueueTypeOK
<1>7. main # "backtest"
  BY <1>5 DEF BacktestOrder
<1>0. PICK v : v = Tail(wire[f])
  OBVIOUS
<1>8. PICK w \in Seq(Nat) : w = wire[f] /\ v = Tail(w) /\ w # <<>> /\ n = Head(w)
  BY <1>0, <1>5 DEF StreamTypeOK
<1>9. /\ Len(w) \in Nat /\ Len(w) = Len(v) + 1 /\ n = w[1] /\ 1 \in 1..Len(w) /\ Len(v) \in Nat
      /\ \A i \in 1..Len(v) : v[i] = w[i + 1]
  BY <1>8, EmptySeq
<1>10. wire'[f] = v /\ \A g \in Feeds \ {f} : wire'[g] = wire[g]
  BY <1>5, <1>8 DEF StreamTypeOK
<1>11. ASSUME f \notin Resampled PROVE n % 2 = 0 /\ \A i \in 1..Len(v) : v[i] % 2 = 0
  <2>1. \A i \in 1..Len(w) : w[i] % 2 = 0
    BY <1>8, <1>11 DEF BacktestOrder
  <2>2. \A i \in 1..Len(v) : i + 1 \in 1..Len(w)
    BY <1>9
  <2> QED BY <1>9, <2>1, <2>2
<1>12. ASSUME NEW g \in Feeds \ Resampled
       PROVE  /\ \A i \in 1..Len(wire'[g]) : wire'[g][i] % 2 = 0
              /\ \A d \in Queued' : d.feed = g => d.n % 2 = 0
  <2>1. \A i \in 1..Len(wire'[g]) : wire'[g][i] % 2 = 0
    <3>1. CASE g = f
      BY <1>10, <1>11, <3>1
    <3>2. CASE g # f
      BY <1>10, <3>2 DEF BacktestOrder
    <3> QED BY <3>1, <3>2
  <2>2. \A d \in Queued' : d.feed = g => d.n % 2 = 0
    BY <1>3, <1>6, <1>11 DEF BacktestOrder
  <2> QED BY <2>1, <2>2
<1>13. BacktestOrder'
  BY <1>4, <1>7, <1>12 DEF BacktestOrder
<1>14. ForwardStep
  BY <1>4 DEF ForwardStep
<1> QED BY <1>13, <1>14

(* Two candles of a feed in the queue of a backtest are ordered by Less as  *)
(* the market made them.                                                    *)
LEMMA NotLessIsLater ==
  ASSUME NEW c \in Candles, NEW d \in Candles, d.feed = c.feed, d # c, ~Less(d, c),
         mode = "backtest", c.feed \notin Resampled => c.n % 2 = 0 /\ d.n % 2 = 0
  PROVE  c.n < d.n
<1>1. /\ c.n \in Nat /\ d.n \in Nat /\ c = Candle(c.feed, c.n) /\ d = Candle(d.feed, d.n)
  BY CandleFields
<1>2. c.n # d.n
  BY <1>1
<1>3. (c.n + 1) \div 2 <= (d.n + 1) \div 2
  BY <1>1 DEF Less, Time
<1>4. CASE c.feed \in Resampled
  <2>1. (c.n + 1) \div 2 = (d.n + 1) \div 2 => ~(d.n < c.n)
    BY <1>4 DEF Less, Time, UpdatedAt
  <2> QED BY <1>1, <1>2, <1>3, <2>1
<1>5. CASE c.feed \notin Resampled
  BY <1>1, <1>2, <1>3, <1>5
<1> QED BY <1>4, <1>5

(* The candle that a backtest takes is later than the rows, and what stays  *)
(* behind is later than it.                                                 *)
LEMMA TakenKeeps ==
  ASSUME StreamTypeOK, QueueTypeOK, FrameTypeOK, BotTypeOK, QueueInv, BacktestOrder,
         mode = "backtest", BacktestCandle
  PROVE  BacktestOrder' /\ ForwardStep
<1>1. /\ main = "backtest" /\ data # <<>> /\ data' = Pop(data)
      /\ UNCHANGED <<mode, main, wire, receiver>>
  BY DEF BacktestCandle, streamVars, botVars
<1>2. PICK c : c = Head(data)
  OBVIOUS
<1>3. ProcessCandle(c)
  BY <1>2 DEF BacktestCandle
<1>4. c \in Candles /\ Queued = Queued' \cup {c} /\ c \notin Queued'
  BY <1>1, <1>2, PopKept DEF Queued, QueueTypeOK, QueueInv, NotifyFindsCandle
<1>5. PopsEarliestStep
  BY PopQueue
<1>6. c.feed \in Feeds /\ c.n \in Nat
  BY <1>4, CandleFields
<1>7. ASSUME NEW d \in Queued', d.feed = c.feed PROVE c.n < d.n
  <2>1. c \in Queued /\ d \in Queued /\ d # c /\ ~Less(d, c)
    BY <1>4, <1>5 DEF PopsEarliestStep
  <2>2. d \in Candles
    BY <2>1, CandleInFlight DEF InFlight
  <2>3. c.feed \notin Resampled => c.n % 2 = 0 /\ d.n % 2 = 0
    BY <1>6, <1>7, <2>1 DEF BacktestOrder
  <2> QED BY <1>4, <1>7, <2>1, <2>2, <2>3, NotLessIsLater
<1>8. frame[c.feed] = <<>> \/ Last(frame[c.feed]) < c.n
  BY <1>1, <1>4 DEF BacktestOrder
<1>9. \/ frame' = frame
      \/ /\ Last(frame'[c.feed]) = c.n
         /\ \A f \in Feeds \ {c.feed} : frame'[f] = frame[f]
  <2>1. frame[c.feed] \in Seq(1..LastCandle[c.feed])
    BY <1>6 DEF FrameTypeOK
  <2> DEFINE w == UpdateDataFrame(frame[c.feed], c)
  <2>2. frame' = frame \/ frame' = [frame EXCEPT ![c.feed] = w]
    BY <1>3, <1>4, ProcessCases DEF FrameTypeOK
  <2>3. Last(w) = c.n
    BY <1>4, <2>1, RowsType DEF Last
  <2> HIDE DEF w
  <2> QED BY <1>6, <2>2, <2>3 DEF FrameTypeOK
<1>10. ForwardStep
  BY <1>8, <1>9 DEF ForwardStep
<1>11. ASSUME NEW d \in Queued' PROVE frame'[d.feed] = <<>> \/ Last(frame'[d.feed]) < d.n
  <2>1. d.feed \in Feeds /\ (frame[d.feed] = <<>> \/ Last(frame[d.feed]) < d.n)
    <3>1. d \in Queued
      BY <1>4
    <3> QED BY <1>1, <3>1, CandleInFlight DEF InFlight, BacktestOrder
  <2>2. CASE d.feed = c.feed
    BY <1>7, <1>9, <2>1, <2>2
  <2>3. CASE d.feed # c.feed
    BY <1>9, <2>1, <2>3
  <2> QED BY <2>2, <2>3
<1>12. \A f \in Feeds \ Resampled : \A d \in Queued' : d.feed = f => d.n % 2 = 0
  BY <1>4 DEF BacktestOrder
<1>13. BacktestOrder'
  BY <1>1, <1>11, <1>12 DEF BacktestOrder
<1> QED BY <1>10, <1>13

(* In a backtest every step is one of these.                                *)
LEMMA BacktestSteps ==
  ASSUME StreamTypeOK, StreamsOpen, BotTypeOK, QueueInv, mode = "backtest", [Next]_vars
  PROVE  Calm \/ Connect \/ BacktestCandle \/ \E f \in Feeds : OnCandle(f)
<1>1. /\ held = {} /\ current = {} /\ fresh = 0
      /\ main \notin {"hook", "select", "check"}
  BY DEF QueueInv, Phases
<1>2. CASE UNCHANGED vars
  BY <1>2 DEF vars, streamVars, queueVars, botVars, strategyVars, Calm
<1>3. CASE Environment \/ PreloadFails
  BY <1>3 DEF Environment, PreloadFails
<1>4. CASE Notifying
  BY <1>1, <1>4 DEF Notifying, Notify, NotifyDrops
<1>5. CASE Preload
  BY <1>5 DEF Preload, streamVars, queueVars, Calm
<1>6. CASE Start \/ Drained \/ BacktestReturns
  BY <1>6 DEF Start, Drained, BacktestReturns, MainTo, streamVars, queueVars, strategyVars, Calm
<1>7. CASE PopLock \/ Done \/ CancelledFirst \/ ProcessCandles \/ \E c \in Candles : Receive(c)
  BY <1>1, <1>7 DEF PopLock, Done, CancelledFirst, ProcessCandles, Receive, MainTo
<1>8. ASSUME NEW f \in Feeds,
             ServeCandles(f) \/ Dials(f) \/ Reading(f) \/ Disconnects(f) \/ Receiving(f)
      PROVE  Calm
  <2>1. UNCHANGED <<mode, data, frame, main>>
    BY <1>8 DEF ServeCandles, Dials, Reading, Disconnects, Receiving, queueVars, botVars,
                strategyVars
  <2>2. \/ wire' = wire \/ wire' = [wire EXCEPT ![f] = <<>>]
        \/ wire[f] # <<>> /\ wire' = [wire EXCEPT ![f] = Tail(wire[f])]
    BY <1>8 DEF ServeCandles, LoopEnds, DialFails, DialReported, Wake, ConnectionEnds,
         StopConnection, Join, CsvCloses, Dials, Dial, Reading, Read, DropCandle, ErrorReported,
         Disconnects, Disconnect, Receiving, ReceiverEnds, StreamsOpen, ReaderTo
  <2>3. receiver' = receiver \/ (receiver[f] = "on" /\ receiver' = [receiver EXCEPT ![f] = "ended"])
    BY <1>8 DEF ServeCandles, LoopEnds, DialFails, DialReported, Wake, ConnectionEnds,
         StopConnection, Join, CsvCloses, Dials, Dial, Reading, Read, DropCandle, ErrorReported,
         Disconnects, Disconnect, Receiving, ReceiverEnds
  <2>4. \A g \in Feeds : \/ wire'[g] = wire[g] \/ wire'[g] = <<>>
                         \/ wire[g] # <<>> /\ wire'[g] = Tail(wire[g])
    BY <2>2 DEF StreamTypeOK
  <2>5. \A g \in Feeds : receiver'[g] = receiver[g] \/ receiver[g] = "on"
    BY <2>3 DEF StreamTypeOK
  <2> QED BY <2>1, <2>4, <2>5 DEF Calm
<1> QED BY <1>2, <1>3, <1>4, <1>5, <1>6, <1>7, <1>8 DEF Next, Run

LEMMA BacktestStep ==
  ASSUME PipelineInv, QueueInv, BacktestOrder, [Next]_vars
  PROVE  BacktestOrder' /\ ForwardStep
<1>1. StreamTypeOK /\ QueueTypeOK /\ FrameTypeOK /\ BotTypeOK /\ StreamsOpen
  BY TypeParts DEF PipelineInv
<1>2. CASE mode = "backtest"
  BY <1>1, <1>2, BacktestSteps, CalmKeeps, ConnectKeeps, HandKeeps, TakenKeeps
<1>3. CASE mode # "backtest"
  <2>1. mode = "live"
    BY <1>1, <1>3, PipelineAssumption DEF BotTypeOK
  <2>2. main # "backtest"
    BY <2>1 DEF QueueInv, Phases
  <2>3. mode' = mode
    BY DEF Next, vars, Environment, Run, PreloadFails, Notifying, ServeCandles, Dials, Reading,
           Disconnects, Receiving, OnCandle, Preload, Connect, Start, Drained, BacktestCandle,
           BacktestReturns, PopLock, Done, CancelledFirst, ProcessCandles, Receive, Notify,
           NotifyDrops
  <2> QED BY <1>3, <2>2, <2>3 DEF BacktestOrder, ForwardStep
<1> QED BY <1>2, <1>3

(* A backtest of any number of pairs and files writes the rows of every     *)
(* dataframe in the order in which the market made them: the partial        *)
(* candles of a resampled period come before the one that closes it, which *)
(* depends on Less comparing UpdatedAt, and no row goes back in time.       *)
THEOREM BacktestMovesForwardCorrect == Spec => BacktestMovesForward
<1>1. Init => BacktestOrder
  <2>1. ASSUME Init PROVE Queued = {} /\ \A f \in Feeds : Len(wire[f]) = 0
    <3>1. Range(<<>>) = {} /\ Len(<<>>) = 0
      BY DEF Range
    <3> QED BY <2>1, <3>1 DEF Init, StreamInit, Queued
  <2>2. ASSUME Init PROVE main = "setup" /\ \A f \in Feeds : frame[f] = <<>>
    BY <2>2 DEF Init
  <2>3. ASSUME Init PROVE \A f \in Feeds : \A i \in 1..Len(wire[f]) : wire[f][i] % 2 = 0
    BY <2>1, <2>3
  <2> QED BY <2>1, <2>2, <2>3 DEF BacktestOrder
<1>2. PipelineInv /\ QueueInv /\ BacktestOrder /\ [Next]_vars => BacktestOrder'
  BY BacktestStep
<1>3. PipelineInv /\ QueueInv /\ BacktestOrder /\ [Next]_vars =>
        [\A f \in Feeds : main = "backtest" /\ frame'[f] # frame[f] =>
            frame[f] = <<>> \/ Last(frame'[f]) > Last(frame[f])]_vars
  BY BacktestStep DEF ForwardStep
<1> QED BY <1>1, <1>2, <1>3, QueueInvariant, PTL DEF Spec, BacktestMovesForward
=============================================================================
