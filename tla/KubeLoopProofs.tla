--------------------------- MODULE KubeLoopProofs ---------------------------
(* What KubeLoop does for every database, capacity, number of attempts and *)
(* number of faults: what becomes of nodes, of the fake pod and of the     *)
(* cleanings.                                                              *)
EXTENDS KubeLoop, SequenceTheorems, WellFoundedInduction, TLAPS

USE DEF serverVars, loopVars, uploadVars, vars

-----------------------------------------------------------------------------
(* Nodes.                                                                  *)

(* Others change the node; what the loop has read of it is stale then.     *)
LEMMA OthersNode ==
  ASSUME Others, NodeInv, SinceTruthful
  PROVE  NodeInv' /\ SinceTruthful'
<1> USE NoneAssumption DEF NodeInv, SinceTruthful, NodeChanged
<1>1. CASE DeleteNode
  BY <1>1 DEF DeleteNode
<1>2. CASE CreateForeignNode
  <2>1. node' \in Node
    BY <1>2 DEF CreateForeignNode, Node
  <2> QED
    BY <1>2, <2>1 DEF CreateForeignNode
<1>3. CASE MarkUnknown
  <2>1. node' \in Node
    BY <1>3 DEF MarkUnknown, Node, Condition
  <2>2. node'.ext = node.ext /\ node'.ready.since = "change"
    BY <1>3 DEF MarkUnknown, Node
  <2> QED
    BY <1>3, <2>1, <2>2 DEF MarkUnknown
<1>4. CASE DeletePod
  BY <1>4 DEF DeletePod
<1> QED
  BY <1>1, <1>2, <1>3, <1>4 DEF Others

(* Registration leaves the condition of a node alone and creates one that  *)
(* is Ready since now.                                                     *)
LEMMA RegistrationNode ==
  ASSUME Registration, NodeInv, SinceTruthful
  PROVE  NodeInv' /\ SinceTruthful'
<1> USE NoneAssumption DEF NodeInv, SinceTruthful, Registered, Again, AfterRegistration, Call, CallLost
<1>0. NewNode \in Node /\ NewNode.ready.since = "change"
  BY DEF NewNode, Node, Condition
<1>1. CASE CreateNode
  BY <1>0, <1>1 DEF CreateNode
<1>2. CASE CompareNode
  BY <1>2 DEF CompareNode, Ours, Node
<1>3. CASE ReplaceNode
  BY <1>3 DEF ReplaceNode
<1> QED
  BY <1>1, <1>2, <1>3 DEF Registration

(* The condition written is that of a node which has not changed since it  *)
(* was read.                                                               *)
LEMMA StatusNode ==
  ASSUME NodeStatus, NodeInv, SinceTruthful
  PROVE  NodeInv' /\ SinceTruthful'
<1> USE NoneAssumption DEF NodeInv, SinceTruthful, Retry
<1>1. CASE GetNode
  BY <1>1 DEF GetNode, CallLost
<1>2. CASE UpdateNode
  <2>1. pc' \in {"loop", "nodeGet"}
    BY <1>2 DEF UpdateNode, Call, CallLost
  <2>2. ASSUME Accepts, node' = [node EXCEPT !.ready = [status |-> "True", since |-> Since(node.ready)]]
        PROVE  node' \in Node /\ node'.ready.since = "change"
    <3>1. node \in Node /\ copy = ReadyCondition(node.ready) /\ pc = "nodeUpdate"
      BY <1>2, <2>2 DEF Accepts, UpdateNode
    <3>2. node.ready \in Condition \cup {None}
      BY <3>1 DEF Node
    <3>3. Since(node.ready) = "change"
      BY <3>1, <3>2 DEF Since, ReadyCondition
    <3> QED
      BY <2>2, <3>1, <3>3 DEF Node, Condition
  <2> QED
    BY <1>2, <2>1, <2>2 DEF UpdateNode, Call, CallLost
<1> QED
  BY <1>1, <1>2 DEF NodeStatus

LEMMA NodeStep ==
  ASSUME [Next]_vars, NodeInv, SinceTruthful
  PROVE  NodeInv' /\ SinceTruthful'
<1> USE DEF NodeInv, SinceTruthful
<1>1. CASE Others
  BY <1>1, OthersNode
<1>2. CASE Registration
  BY <1>2, RegistrationNode
<1>3. CASE NodeStatus
  BY <1>3, StatusNode
<1>4. CASE Start \/ Tick \/ TakeCleaning \/ End
  BY <1>4 DEF Start, Tick, AfterRegistration, TakeCleaning, End
<1>5. CASE FakePods
  BY <1>5 DEF FakePods, DeleteFakePod, GetFakePod, CreateFakePod, UpdateFakePod, Call, CallLost, Continue
<1>6. CASE Reader \/ Stop
  BY <1>6 DEF Reader, ReadDatabase, SendCleaning, Stop
<1>7. CASE Uploader
  BY <1>7 DEF Uploader, GetCleaning, CreateCleaning, Call, CallLost
<1>8. CASE UNCHANGED vars
  BY <1>8
<1> QED
  BY <1>1, <1>2, <1>3, <1>4, <1>5, <1>6, <1>7, <1>8 DEF Next, MainLoop

LEMMA NodeInit == Init => NodeInv /\ SinceTruthful
BY NoneAssumption DEF Init, NodeInv, SinceTruthful, Node, Condition

(* LastTransitionTime of the Ready condition is when its status changed,   *)
(* whatever others do to the node (node_status.go:295-313).                *)
THEOREM Truthful == Spec => []SinceTruthful
BY NodeInit, NodeStep, PTL DEF Spec

(* Only another machine's node is deleted to make room for ours            *)
(* (node_status.go:192-205).                                               *)
THEOREM OwnKept == Spec => OwnNodeKept
<1>1. NodeInv /\ [Next]_vars =>
        [pc = "replace" /\ pc' = "create" /\ node' # node => node.ext = "other"]_vars
  <2> SUFFICES ASSUME NodeInv, Next, pc = "replace", pc' = "create", node' # node
               PROVE  node.ext = "other"
    OBVIOUS
  <2>1. ReplaceNode
    <3>1. ~Others
      BY DEF Others, DeleteNode, CreateForeignNode, MarkUnknown, DeletePod
    <3>2. ~(Start \/ Tick \/ TakeCleaning \/ End \/ NodeStatus \/ CreateNode \/ CompareNode)
      BY DEF Start, Tick, TakeCleaning, End, NodeStatus, GetNode, UpdateNode, CreateNode, CompareNode
    <3>3. ~FakePods
      BY DEF FakePods, DeleteFakePod, GetFakePod, CreateFakePod, UpdateFakePod
    <3>4. ~(Reader \/ Stop \/ Uploader)
      BY DEF Reader, ReadDatabase, SendCleaning, Stop, Uploader, GetCleaning, CreateCleaning
    <3> QED
      BY <3>1, <3>2, <3>3, <3>4 DEF Next, MainLoop, Registration
  <2> QED
    BY <2>1 DEF NodeInv, ReplaceNode, Call, CallLost
<1> QED
  BY <1>1, NodeInit, NodeStep, PTL DEF Spec, OwnNodeKept

-----------------------------------------------------------------------------
(* The fake pod.                                                           *)

LEMMA PodStep ==
  ASSUME [Next]_vars, PodInv, FakePodFresh
  PROVE  PodInv' /\ FakePodFresh'
<1> USE NoneAssumption DEF PodInv, FakePodFresh
<1>1. CASE Others
  BY <1>1 DEF Others, DeleteNode, CreateForeignNode, MarkUnknown, DeletePod
<1>2. CASE Registration
  BY <1>2 DEF Registration, CreateNode, CompareNode, ReplaceNode, Registered, Again,
       AfterRegistration, Call, CallLost
<1>3. CASE NodeStatus
  BY <1>3 DEF NodeStatus, GetNode, UpdateNode, Retry, Call, CallLost
<1>4. CASE Start \/ Tick \/ TakeCleaning \/ End
  BY <1>4 DEF Start, Tick, AfterRegistration, TakeCleaning, End
<1>5. CASE DeleteFakePod
  BY <1>5 DEF DeleteFakePod, Call, CallLost
<1>6. CASE GetFakePod
  BY <1>6 DEF GetFakePod, CallLost, Continue
<1>7. CASE CreateFakePod
  <2>1. [fresh |-> TRUE, running |-> FALSE] \in Pod /\ [fresh |-> TRUE, running |-> FALSE].fresh
    BY DEF Pod
  <2>2. pod' = pod \/ pod' = [fresh |-> TRUE, running |-> FALSE]
    BY <1>7 DEF CreateFakePod, Call, CallLost
  <2>3. UNCHANGED kept /\ (fakeDone' = fakeDone \/ pod' = [fresh |-> TRUE, running |-> FALSE])
    BY <1>7 DEF CreateFakePod, Call, CallLost
  <2>4. pc = "fakeCreate"
    BY <1>7 DEF CreateFakePod
  <2>5. PodInv'
    BY <2>1, <2>2, <2>3, <2>4
  <2>6. FakePodFresh'
    BY <2>1, <2>2, <2>3, <2>4
  <2> QED
    BY <2>5, <2>6
<1>8. CASE UpdateFakePod
  <2>1. pod # None => /\ [pod EXCEPT !.running = TRUE] \in Pod
                      /\ [pod EXCEPT !.running = TRUE].fresh <=> pod.fresh
    BY DEF Pod
  <2>2. pc' = "nodeGet" /\ UNCHANGED <<fakeDone, kept>>
    BY <1>8 DEF UpdateFakePod, Continue
  <2>3. pod' = pod \/ (pod # None /\ pod' = [pod EXCEPT !.running = TRUE])
    BY <1>8 DEF UpdateFakePod, Call, CallLost
  <2>4. PodInv'
    BY <2>1, <2>2, <2>3
  <2>5. FakePodFresh'
    BY <2>1, <2>2, <2>3
  <2> QED
    BY <2>4, <2>5
<1>9. CASE Reader \/ Stop
  BY <1>9 DEF Reader, ReadDatabase, SendCleaning, Stop
<1>10. CASE Uploader
  BY <1>10 DEF Uploader, GetCleaning, CreateCleaning, Call, CallLost
<1>11. CASE UNCHANGED vars
  BY <1>11
<1> QED
  BY <1>1, <1>2, <1>3, <1>4, <1>5, <1>6, <1>7, <1>8, <1>9, <1>10, <1>11
  DEF Next, MainLoop, FakePods

LEMMA PodInit == Init => PodInv /\ FakePodFresh
<1>1. [fresh |-> FALSE, running |-> TRUE] \in Pod
  BY DEF Pod
<1> QED
  BY <1>1 DEF Init, PodInv, FakePodFresh

(* Once the fake pod is taken care of it is this process's, unless the     *)
(* deletion of an earlier one failed unnoticed (node_status.go:132-135).   *)
THEOREM PodFresh == Spec => []FakePodFresh
BY PodInit, PodStep, PTL DEF Spec

-----------------------------------------------------------------------------
(* Sets of numbers.                                                        *)

(* Some number of a set is least: what holds for no least number of a set  *)
(* holds for none.                                                         *)
LEMMA Least ==
  ASSUME NEW S, S \subseteq Nat, S # {}
  PROVE  \E n \in S : \A m \in S : n <= m
<1>1. PICK x \in S : \A y \in S : ~(<<y, x>> \in OpToRel(<, Nat))
  BY NatLessThanWellFounded, WFMin
<1>2. \A y \in S : ~(y < x)
  BY <1>1 DEF OpToRel
<1> QED
  BY <1>2

(* One of numbers up to n has a greatest: its distance to n is least.      *)
LEMMA Greatest ==
  ASSUME NEW n \in Nat, NEW S, S \subseteq 1..n, S # {}
  PROVE  Max(S) \in S /\ \A m \in S : m <= Max(S)
<1> DEFINE distances == {n - s : s \in S}
<1>1. \A s \in S : s \in Nat /\ n - s \in Nat
  <2> SUFFICES ASSUME NEW s \in S PROVE s \in Nat /\ n - s \in Nat
    OBVIOUS
  <2>1. s \in 1..n
    OBVIOUS
  <2> QED
    BY <2>1
<1>2. distances \subseteq Nat /\ distances # {}
  BY <1>1
<1>3. PICK d \in distances : \A e \in distances : d <= e
  BY <1>2, Least
<1>4. PICK s \in S : d = n - s
  OBVIOUS
<1>5. \A m \in S : m <= s
  <2> SUFFICES ASSUME NEW m \in S PROVE m <= s
    OBVIOUS
  <2>1. n - s <= n - m
    BY <1>3, <1>4
  <2> QED
    BY <1>1, <2>1
<1> QED
  BY <1>5 DEF Max

(* The last block of a type, and the last record of a time.                *)
LEMMA LastOfIs ==
  ASSUME NEW blocks, Len(blocks) \in Nat, NEW t, LastOf(blocks, t) # 0
  PROVE  LastOf(blocks, t) \in 1..Len(blocks) /\ blocks[LastOf(blocks, t)].type = t
<1> DEFINE I == {i \in 1..Len(blocks) : blocks[i].type = t}
<1>1. LastOf(blocks, t) = IF I # {} THEN Max(I) ELSE 0
  BY DEF LastOf, SelectLastInSeq
<1>2. I # {} /\ LastOf(blocks, t) = Max(I)
  BY <1>1
<1>3. Max(I) \in I
  BY <1>2, Greatest
<1> QED
  BY <1>2, <1>3

LEMMA IndexOfIs ==
  ASSUME NEW list, Len(list) \in Nat, NEW begin
  PROVE  /\ IndexOf(begin, list) = 0 => \A i \in 1..Len(list) : list[i].name # begin
         /\ IndexOf(begin, list) # 0 =>
              /\ IndexOf(begin, list) \in 1..Len(list) /\ list[IndexOf(begin, list)].name = begin
              /\ \A i \in 1..Len(list) : list[i].name = begin => i <= IndexOf(begin, list)
<1> DEFINE I == {i \in 1..Len(list) : list[i].name = begin}
<1>1. IndexOf(begin, list) = IF I # {} THEN Max(I) ELSE 0
  BY DEF IndexOf, SelectLastInSeq
<1>2. CASE I = {}
  BY <1>1, <1>2
<1>3. CASE I # {}
  <2>1. Max(I) \in I /\ \A m \in I : m <= Max(I)
    BY <1>3, Greatest
  <2> QED
    BY <1>1, <1>3, <2>1
<1> QED
  BY <1>2, <1>3

-----------------------------------------------------------------------------
(* The list of cleanings.                                                  *)

(* After the first n maps, for a function f of the lists before.           *)
First(d) == [ok |-> TRUE, list |-> [i \in DOMAIN d.records |-> Unmapped(d.records[i])]]
After(d, f, n) == IF n = 0 THEN First(d) ELSE AddTo(f[n - 1], d.maps[n])

(* The lists are the ones the equation describes: there are such lists for *)
(* the first k maps, whatever k is, since there is no least k without.     *)
LEMMA ListsAre ==
  ASSUME NEW d, Len(d.maps) \in Nat
  PROVE  /\ Lists(d)[0] = First(d)
         /\ \A n \in 1..Len(d.maps) : Lists(d)[n] = AddTo(Lists(d)[n - 1], d.maps[n])
<1> DEFINE N == Len(d.maps)
           short == {k \in 0..N : ~\E f : f = [n \in 0..k |-> After(d, f, n)]}
<1>1. short = {}
  <2> SUFFICES ASSUME short # {} PROVE FALSE
    OBVIOUS
  <2>0. short \subseteq Nat
    OBVIOUS
  <2>1. PICK k \in short : \A m \in short : k <= m
    <3> HIDE DEF short
    <3> QED
      BY <2>0, Least
  <2>2. k # 0
    <3> DEFINE f == [n \in 0..0 |-> First(d)]
    <3>1. f = [n \in 0..0 |-> After(d, f, n)]
      BY DEF After
    <3> QED
      BY <3>1
  <2>3. k \in Nat /\ k - 1 \in Nat /\ k - 1 \in 0..N /\ k - 1 \notin short
    BY <2>1, <2>2
  <2>4. PICK f : f = [n \in 0..(k - 1) |-> After(d, f, n)]
    BY <2>3
  <2> DEFINE g == [n \in 0..k |-> IF n = k THEN AddTo(f[k - 1], d.maps[k]) ELSE f[n]]
  <2>5. \A n \in 0..k : g[n] = After(d, g, n)
    <3> SUFFICES ASSUME NEW n \in 0..k PROVE g[n] = After(d, g, n)
      OBVIOUS
    <3>1. CASE n = k
      BY <2>2, <2>3, <3>1 DEF After
    <3>2. CASE n # k
      <4>1. n \in 0..(k - 1) /\ g[n] = f[n]
        BY <2>3, <3>2
      <4>2. f[n] = After(d, f, n)
        BY <2>4, <4>1
      <4>3. n # 0 => n - 1 \in 0..k /\ n - 1 # k /\ g[n - 1] = f[n - 1]
        BY <2>3, <4>1
      <4> QED
        BY <4>1, <4>2, <4>3 DEF After
    <3> QED
      BY <3>1, <3>2
  <2>6. g = [n \in 0..k |-> After(d, g, n)]
    BY <2>5
  <2> QED
    BY <2>1, <2>6
<1>2. \E f : f = [n \in 0..N |-> After(d, f, n)]
  BY <1>1
<1>3. Lists(d) = CHOOSE f : f = [n \in 0..N |-> After(d, f, n)]
  BY DEF Lists, After, First
<1>4. Lists(d) = [n \in 0..N |-> After(d, Lists(d), n)]
  BY <1>2, <1>3
<1>5. \A n \in 0..N : Lists(d)[n] = After(d, Lists(d), n)
  BY <1>4
<1> QED
  BY <1>5 DEF After

(* A cleaning is a record of these fields, whatever they hold.             *)
Shaped(c) == c = [name |-> c.name, complete |-> c.complete, map |-> c.map, path |-> c.path,
                  charger |-> c.charger]

(* A cleaning drawn from blocks has their cells, path and charger.         *)
Drawn(c, blocks) ==
  LET points == parsePath(blocks[LastOf(blocks, 3)])
      charger == LastOf(blocks, 1)
  IN /\ \A i \in DOMAIN blocks : Readable(blocks[i])
     /\ c.map = drawMap(blocks[LastOf(blocks, 2)])
     /\ c.path = [i \in DOMAIN points |-> positionInMapDimensions(c.map, points[i])]
     /\ charger # 0 =>
          c.charger = <<positionInMapDimensions(c.map, blocks[charger].at)>>

(* A stream that is read to its end draws what is in it.                   *)
LEMMA Converted ==
  ASSUME NEW blocks, NEW c, Shaped(c), ConvertMap(blocks, c).ok
  PROVE  LET d == ConvertMap(blocks, c).cleaning
         IN /\ Shaped(d) /\ d.name = c.name
            /\ LastOf(blocks, 2) # 0 /\ LastOf(blocks, 3) # 0 => Drawn(d, blocks)
<1> DEFINE path == LastOf(blocks, 3)
           m == IF LastOf(blocks, 2) = 0 THEN c.map ELSE drawMap(blocks[LastOf(blocks, 2)])
           points == parsePath(blocks[path])
           p == IF path = 0 THEN c.path ELSE [i \in DOMAIN points |-> positionInMapDimensions(m, points[i])]
           ch == IF LastOf(blocks, 1) = 0 THEN c.charger
                 ELSE <<positionInMapDimensions(m, blocks[LastOf(blocks, 1)].at)>>
           d == [c EXCEPT !.map = m, !.path = p, !.charger = ch]
<1>1. ConvertMap(blocks, c) =
        IF (\E i \in DOMAIN blocks : ~Readable(blocks[i])) \/ m = NoMap THEN Fail
        ELSE [ok |-> TRUE, cleaning |-> d]
  BY DEF ConvertMap
<1>2. ~Fail.ok
  BY DEF Fail
<1>3. ConvertMap(blocks, c).cleaning = d /\ \A i \in DOMAIN blocks : Readable(blocks[i])
  BY <1>1, <1>2
<1> HIDE DEF m, p, ch
<1>4. d = [name |-> c.name, complete |-> c.complete, map |-> m, path |-> p, charger |-> ch]
  <2>1. DOMAIN c = {"name", "complete", "map", "path", "charger"}
    BY DEF Shaped
  <2>2. d = [f \in DOMAIN c |-> d[f]] /\ DOMAIN d = DOMAIN c
    OBVIOUS
  <2>3. d.name = c.name /\ d.complete = c.complete
    BY <2>1
  <2>4. d.map = m
    BY <2>1
  <2>5. d.path = p
    BY <2>1
  <2>6. d.charger = ch
    BY <2>1
  <2> HIDE DEF d
  <2> QED
    BY <2>1, <2>2, <2>3, <2>4, <2>5, <2>6
<1> HIDE DEF d
<1>5. Shaped(d) /\ d.name = c.name /\ d.map = m /\ d.path = p /\ d.charger = ch
  BY <1>4 DEF Shaped
<1>6. ASSUME LastOf(blocks, 2) # 0, path # 0 PROVE Drawn(d, blocks)
  BY <1>3, <1>5, <1>6 DEF Drawn, m, p, ch
<1> QED
  BY <1>3, <1>5, <1>6

(* After n maps the last record of its time has the last of the maps of    *)
(* that time; other records have none.                                     *)
LastRecord(d, i) == \A k \in 1..Len(d.records) : k > i => d.records[k].begin # d.records[i].begin
LastUpTo(d, n, j) == \A k \in 1..n : k > j => d.maps[k].begin # d.maps[j].begin
Whole(blocks) == LastOf(blocks, 2) # 0 /\ LastOf(blocks, 3) # 0

Settled(d, n, list) ==
  /\ list = [i \in 1..Len(d.records) |-> list[i]]
  /\ \A i \in 1..Len(d.records) :
       /\ Shaped(list[i]) /\ list[i].name = d.records[i].begin
       /\ ~LastRecord(d, i) => list[i].map = NoMap
       /\ LastRecord(d, i) =>
            \A j \in 1..n : d.maps[j].begin = d.records[i].begin /\ LastUpTo(d, n, j)
                              /\ Whole(d.maps[j].blocks)
                            => Drawn(list[i], d.maps[j].blocks)

(* Without maps no record has one.                                         *)
LEMMA FirstSettled ==
  ASSUME NEW d, d.records \in Seq(ToSet(d.records))
  PROVE  Settled(d, 0, First(d).list)
<1>1. DOMAIN d.records = 1..Len(d.records)
  OBVIOUS
<1>2. First(d).list = [i \in 1..Len(d.records) |-> Unmapped(d.records[i])]
  BY <1>1 DEF First
<1> DEFINE list == First(d).list
<1>3. ASSUME NEW i \in 1..Len(d.records)
      PROVE  Shaped(list[i]) /\ list[i].name = d.records[i].begin /\ list[i].map = NoMap
  BY <1>2 DEF Unmapped, Shaped
<1> HIDE DEF list
<1> SUFFICES Settled(d, 0, list)
  BY DEF list
<1>4. list = [i \in 1..Len(d.records) |-> list[i]]
  BY <1>2 DEF list
<1>5. \A j \in 1..0 : FALSE
  OBVIOUS
<1> QED
  BY <1>3, <1>4, <1>5 DEF Settled

(* A map is added to the last record of its time and leaves the others.    *)
LEMMA AddSettles ==
  ASSUME NEW d, NEW n \in 1..Len(d.maps), Len(d.maps) \in Nat, Len(d.records) \in Nat,
         NEW list, Settled(d, n - 1, list), AddMap(list, d.maps[n]).ok
  PROVE  Settled(d, n, AddMap(list, d.maps[n]).list)
<1> DEFINE m == d.maps[n]
           R == 1..Len(d.records)
           x == IndexOf(m.begin, list)
           c == ConvertMap(m.blocks, list[x])
<1>1. ~Fail.ok
  BY DEF Fail
<1>2. AddMap(list, m) = IF ~m.gzip THEN Fail
                        ELSE IF x = 0 THEN [ok |-> TRUE, list |-> list]
                        ELSE IF ~c.ok THEN Fail
                        ELSE [ok |-> TRUE, list |-> [list EXCEPT ![x] = c.cleaning]]
  BY DEF AddMap
<1>3. /\ list = [i \in R |-> list[i]]
      /\ \A i \in R : Shaped(list[i]) /\ list[i].name = d.records[i].begin
                       /\ (~LastRecord(d, i) => list[i].map = NoMap)
  BY DEF Settled
<1>4. /\ Len(list) = Len(d.records) /\ Len(list) \in Nat
      /\ \A i \in R : list[i].name = d.records[i].begin
  <2>1. DOMAIN list = 1..Len(d.records)
    BY <1>3
  <2>2. Len(list) = Len(d.records)
    BY <2>1
  <2> QED
    BY <1>3, <2>2
<1>5. /\ x = 0 => \A i \in R : d.records[i].begin # m.begin
      /\ x # 0 => x \in R /\ d.records[x].begin = m.begin /\ LastRecord(d, x)
  <2>1. CASE x = 0
    <3>1. \A i \in R : list[i].name # m.begin
      BY <1>4, <2>1, IndexOfIs
    <3> QED
      BY <1>4, <2>1, <3>1
  <2>2. CASE x # 0
    <3>1. /\ x \in R /\ list[x].name = m.begin
          /\ \A i \in R : list[i].name = m.begin => i <= x
      BY <1>4, <2>2, IndexOfIs
    <3> HIDE DEF x
    <3>2. ASSUME NEW k \in R, k > x PROVE d.records[k].begin # d.records[x].begin
      <4>1. ~(k <= x)
        BY <3>1, <3>2
      <4> QED
        BY <1>4, <3>1, <4>1
    <3> QED
      BY <1>4, <2>2, <3>1, <3>2 DEF LastRecord
  <2> QED
    BY <2>1, <2>2
<1>6. ASSUME NEW i \in R, NEW j \in 1..n, LastRecord(d, i), d.records[i].begin # m.begin,
             d.maps[j].begin = d.records[i].begin, LastUpTo(d, n, j), Whole(d.maps[j].blocks)
      PROVE  Drawn(list[i], d.maps[j].blocks)
  <2>1. j \in 1..(n - 1)
    BY <1>6
  <2>2. LastUpTo(d, n - 1, j)
    BY <1>6 DEF LastUpTo
  <2> QED
    BY <1>6, <2>1, <2>2 DEF Settled
<1>7. CASE x = 0
  <2>1. AddMap(list, m).list = list
    BY <1>1, <1>2, <1>7
  <2> QED
    BY <1>3, <1>5, <1>6, <1>7, <2>1 DEF Settled
<1>8. CASE x # 0
  <2> DEFINE new == [list EXCEPT ![x] = c.cleaning]
  <2>1. c.ok /\ AddMap(list, m).list = new
    BY <1>1, <1>2, <1>8
  <2>2. x \in R /\ d.records[x].begin = m.begin /\ LastRecord(d, x)
    BY <1>5, <1>8
  <2>3. /\ Shaped(c.cleaning) /\ c.cleaning.name = m.begin
        /\ Whole(m.blocks) => Drawn(c.cleaning, m.blocks)
    <3>1. Shaped(list[x]) /\ list[x].name = m.begin
      BY <1>3, <2>2
    <3> QED
      BY <2>1, <3>1, Converted DEF Whole
  <2> HIDE DEF c
  <2>4. new = [i \in R |-> new[i]] /\ \A i \in R : new[i] = IF i = x THEN c.cleaning ELSE list[i]
    BY <1>3, <2>2
  <2> HIDE DEF new, x
  <2>5. ASSUME NEW i \in R, i # x, LastRecord(d, i) PROVE d.records[i].begin # m.begin
    BY <2>2, <2>5 DEF LastRecord
  <2>6. ASSUME NEW j \in 1..n, d.maps[j].begin = m.begin, LastUpTo(d, n, j) PROVE j = n
    BY <2>6 DEF LastUpTo
  <2>7. ASSUME NEW i \in R
        PROVE  /\ Shaped(new[i]) /\ new[i].name = d.records[i].begin
               /\ ~LastRecord(d, i) => new[i].map = NoMap
    BY <1>3, <2>2, <2>3, <2>4
  <2>8. ASSUME NEW i \in R, NEW j \in 1..n, LastRecord(d, i),
               d.maps[j].begin = d.records[i].begin, LastUpTo(d, n, j), Whole(d.maps[j].blocks)
        PROVE  Drawn(new[i], d.maps[j].blocks)
    <3>1. CASE i = x
      BY <2>2, <2>3, <2>4, <2>6, <2>8, <3>1
    <3>2. CASE i # x
      BY <1>6, <2>4, <2>5, <2>8, <3>2
    <3> QED
      BY <3>1, <3>2
  <2>9. Settled(d, n, new)
    BY <2>4, <2>7, <2>8 DEF Settled
  <2> QED
    BY <2>1, <2>9
<1> QED
  BY <1>7, <1>8

(* So it is after all maps: no number of maps is the first to break it.    *)
LEMMA AllSettled ==
  ASSUME NEW d, d.records \in Seq(ToSet(d.records)), Len(d.maps) \in Nat, ListCleanings(d).ok
  PROVE  Settled(d, Len(d.maps), ListCleanings(d).list)
<1> DEFINE N == Len(d.maps)
           bad == {n \in 0..N : Lists(d)[n].ok /\ ~Settled(d, n, Lists(d)[n].list)}
<1>0. Len(d.records) \in Nat
  OBVIOUS
<1>1. bad = {}
  <2> SUFFICES ASSUME bad # {} PROVE FALSE
    OBVIOUS
  <2>1. bad \subseteq Nat
    OBVIOUS
  <2>2. PICK n \in bad : \A m \in bad : n <= m
    <3> HIDE DEF bad
    <3> QED
      BY <2>1, Least
  <2>3. n # 0
    BY ListsAre, FirstSettled
  <2>4. n \in 1..N /\ n - 1 \in 0..N /\ n - 1 \notin bad
    BY <2>2, <2>3
  <2> DEFINE before == Lists(d)[n - 1]
  <2>5. Lists(d)[n] = AddTo(before, d.maps[n])
    BY <2>4, ListsAre
  <2>6. before.ok /\ Lists(d)[n] = AddMap(before.list, d.maps[n])
    BY <2>2, <2>5 DEF AddTo
  <2>7. Settled(d, n - 1, before.list)
    BY <2>4, <2>6
  <2>8. AddMap(before.list, d.maps[n]).ok
    BY <2>2, <2>6
  <2> HIDE DEF before
  <2>9. Settled(d, n, AddMap(before.list, d.maps[n]).list)
    BY <1>0, <2>4, <2>7, <2>8, AddSettles
  <2> QED
    BY <2>2, <2>6, <2>9
<1> QED
  BY <1>1 DEF ListCleanings

-----------------------------------------------------------------------------
(* Where cells and positions lie in the picture.                           *)

(* The pixel of a cell is its own.                                         *)
LEMMA PixelOf ==
  ASSUME NEW w \in Nat, NEW x \in Nat, x < w, NEW y \in Nat
  PROVE  /\ (w * y + x) % w = x /\ (w * y + x) \div w = y
         /\ \A p \in Nat : p % w = x /\ p \div w = y => p = w * y + x
<1>1. (w * y + x) % w = x
  OBVIOUS
<1>2. (w * y + x) \div w = y
  OBVIOUS
<1>3. \A p \in Nat : p = w * (p \div w) + (p % w)
  OBVIOUS
<1> QED
  BY <1>1, <1>2, <1>3

(* A cell of the picture is stored before its end.                         *)
LEMMA CellWithin ==
  ASSUME NEW w \in Nat, NEW h \in Nat, NEW x \in Nat, x < w, NEW y \in Nat, y < h
  PROVE  y * w + x \in Nat /\ y * w + x = w * y + x /\ y * w + x <= h * w - 1
<1> DEFINE k == h - y - 1
<1>1. k \in Nat /\ h = y + 1 + k
  OBVIOUS
<1> HIDE DEF k
<1>2. h * w = y * w + w + k * w /\ k * w \in Nat /\ y * w \in Nat
  BY <1>1
<1>3. y * w = w * y
  OBVIOUS
<1> QED
  BY <1>2, <1>3

(* The image shows each cell on the pixel of its column and, from below,   *)
(* its row.                                                                *)
LEMMA CellDrawn ==
  ASSUME NEW b, b.width \in Nat, b.height \in Nat, b.data \in Seq(0..255),
         NEW x \in 0..(b.width - 1), NEW y \in 0..(b.height - 1)
  PROVE  /\ <<x, b.height - (y + 1)>> \in DOMAIN drawMap(b).image
         /\ drawMap(b).image[<<x, b.height - (y + 1)>>] = CellColour(b, <<x, y>>)
<1> DEFINE w == b.width   h == b.height
           stored == (0..h * w - 1) \cap (0..Len(b.data) - 1)
           byte(q) == {b.data[pos + 1] : pos \in {p \in stored : Pixel(b, p) = q}}
           xy == <<x, h - (y + 1)>>
           at == y * w + x
<1>1. w \in Nat /\ h \in Nat /\ x \in Nat /\ y \in Nat /\ x < w /\ Len(b.data) \in Nat
  OBVIOUS
<1>2. h - (y + 1) \in 0..(h - 1)
  BY <1>1
<1>3. xy \in (0..(w - 1)) \X (0..(h - 1))
  BY <1>2
<1>4. /\ DOMAIN drawMap(b).image = (0..(w - 1)) \X (0..(h - 1))
      /\ drawMap(b).image[xy] = IF byte(xy) = {} THEN "unknown" ELSE Colour(CHOOSE c \in byte(xy) : TRUE)
  BY <1>3 DEF drawMap
<1>5. at \in Nat /\ at = w * y + x /\ at <= h * w - 1
  <2> HIDE DEF w, h
  <2>1. y < h
    BY DEF h
  <2> QED
    BY <1>1, <2>1, CellWithin
<1>6. Pixel(b, at) = xy
  <2>1. at % w = x /\ at \div w = y
    <3> HIDE DEF w, h
    <3>1. (w * y + x) % w = x /\ (w * y + x) \div w = y
      BY <1>1, PixelOf
    <3>2. at = w * y + x
      BY <1>5
    <3> HIDE DEF at
    <3> QED
      BY <3>1, <3>2
  <2> QED
    BY <2>1 DEF Pixel
<1>7. ASSUME NEW p \in stored, Pixel(b, p) = xy PROVE p = at
  <2>1. p % w = x /\ h - ((p \div w) + 1) = h - (y + 1) /\ p \in Nat
    BY <1>1, <1>7 DEF Pixel
  <2>2. p \div w \in Int
    BY <1>1, <2>1
  <2>3. p \div w = y
    BY <1>1, <2>1, <2>2
  <2> QED
    BY <1>1, <1>5, <2>1, <2>3, PixelOf
<1> HIDE DEF xy
<1>8. CASE at < Len(b.data)
  <2>1. at \in stored
    BY <1>1, <1>5, <1>8
  <2> HIDE DEF at, stored
  <2>2. byte(xy) = {b.data[at + 1]}
    BY <1>6, <1>7, <2>1
  <2> HIDE DEF byte
  <2>3. drawMap(b).image[xy] = Colour(b.data[at + 1])
    BY <1>4, <2>2
  <2> QED
    BY <1>3, <1>4, <1>8, <2>3 DEF CellColour, at, xy
<1>9. CASE ~(at < Len(b.data))
  <2>1. at \notin stored
    BY <1>1, <1>5, <1>9
  <2> HIDE DEF at, stored
  <2>2. byte(xy) = {}
    BY <1>7, <2>1
  <2> HIDE DEF byte
  <2> QED
    BY <1>3, <1>4, <1>9, <2>2 DEF CellColour, at, xy
<1> QED
  BY <1>8, <1>9

(* A position in millimetres and the pixel it lies in.                     *)
LEMMA PositionDrawn ==
  ASSUME NEW left \in Nat, NEW top \in Nat, NEW h \in Nat, NEW x \in Nat, NEW y \in Nat
  PROVE  /\ (x - 50 * left) \div 50 = x \div 50 - left
         /\ -((-(50 * h - y + 50 * top)) \div 50) - 1 = h - ((y \div 50 - top) + 1)
<1>1. -(50 * h - y + 50 * top) = y + 50 * (-(h + top))
  OBVIOUS
<1>2. (y + 50 * (-(h + top))) \div 50 = y \div 50 - (h + top)
  OBVIOUS
<1> QED
  BY <1>1, <1>2

(* What is drawn is placed.                                                *)
LEMMA DrawnPictured ==
  ASSUME NEW c, NEW blocks, blocks \in Seq(ToSet(blocks)), Whole(blocks), Drawn(c, blocks),
         \A i \in DOMAIN blocks : WellTyped(blocks[i])
  PROVE  Pictured(c, blocks)
<1> DEFINE b == blocks[LastOf(blocks, 2)]
           t == blocks[LastOf(blocks, 3)]
           points == parsePath(t)
<1>1. Len(blocks) \in Nat /\ DOMAIN blocks = 1..Len(blocks)
  OBVIOUS
<1>2. /\ LastOf(blocks, 2) \in DOMAIN blocks /\ b.type = 2
      /\ LastOf(blocks, 3) \in DOMAIN blocks /\ t.type = 3
  BY <1>1, LastOfIs DEF Whole
<1>3. /\ b.top \in Nat /\ b.left \in Nat /\ b.height \in Nat /\ b.width \in Nat
      /\ b.data \in Seq(0..255)
      /\ t.length \in Nat /\ t.points \in Seq([x : Nat, y : Nat])
  BY <1>2 DEF WellTyped
<1>4. Readable(t)
  BY <1>2 DEF Drawn
<1>5. t.length - 1 <= Len(t.points)
  BY <1>2, <1>4 DEF Readable
<1>6. \A i \in DOMAIN points : points[i] \in [x : Nat, y : Nat]
  <2> DEFINE P == [x : Nat, y : Nat]
             n == t.length - 1
  <2>1. t.points \in Seq(P) /\ n \in Int /\ n <= Len(t.points) /\ points = SubSeq(t.points, 1, n)
    BY <1>3, <1>5 DEF parsePath
  <2> HIDE DEF P, n, points
  <2>2. points \in Seq(P)
    BY <2>1
  <2>3. \A i \in DOMAIN points : points[i] \in P
    BY <2>2
  <2> QED
    BY <2>3 DEF P
<1>7. /\ c.map = drawMap(b)
      /\ c.path = [i \in DOMAIN points |-> positionInMapDimensions(c.map, points[i])]
  BY DEF Drawn
<1> HIDE DEF b, t, points
<1>8. c.map.left = b.left /\ c.map.top = b.top /\ c.map.height = b.height
  BY <1>7 DEF drawMap
<1>9. ASSUME NEW p, p \in [x : Nat, y : Nat],
             NEW at, at = positionInMapDimensions(c.map, p),
             CellOf(b, p) \in (0..b.width - 1) \X (0..b.height - 1)
      PROVE  /\ PixelAt(at) \in DOMAIN c.map.image
             /\ c.map.image[PixelAt(at)] = CellColour(b, CellOf(b, p))
  <2> DEFINE x == p.x \div 50 - b.left   y == p.y \div 50 - b.top
  <2>1. p.x \in Nat /\ p.y \in Nat
    BY <1>9
  <2>2. CellOf(b, p) = <<x, y>>
    BY DEF CellOf, Cell
  <2>3. x \in 0..(b.width - 1) /\ y \in 0..(b.height - 1)
    BY <1>9, <2>2
  <2>4. at = [x |-> p.x - 50 * b.left, y |-> 50 * b.height - p.y + 50 * b.top]
    BY <1>8, <1>9 DEF positionInMapDimensions, Cell
  <2>5. PixelAt(at) = <<x, b.height - (y + 1)>>
    <3>1. PixelAt(at) = <<(p.x - 50 * b.left) \div 50,
                                 -((-(50 * b.height - p.y + 50 * b.top)) \div 50) - 1>>
      BY <2>4 DEF PixelAt, Cell
    <3>2. /\ (p.x - 50 * b.left) \div 50 = x
          /\ -((-(50 * b.height - p.y + 50 * b.top)) \div 50) - 1 = b.height - (y + 1)
      <4> DEFINE l == b.left   o == b.top   h == b.height   px == p.x   py == p.y
      <4>1. l \in Nat /\ o \in Nat /\ h \in Nat /\ px \in Nat /\ py \in Nat
        BY <1>3, <2>1
      <4> HIDE DEF l, o, h, px, py
      <4>2. /\ (px - 50 * l) \div 50 = px \div 50 - l
            /\ -((-(50 * h - py + 50 * o)) \div 50) - 1 = h - ((py \div 50 - o) + 1)
        BY <4>1, PositionDrawn
      <4> QED
        BY <4>2 DEF l, o, h, px, py
    <3> QED
      BY <3>1, <3>2
  <2> HIDE DEF x, y
  <2> QED
    BY <1>3, <1>7, <2>2, <2>3, <2>5, CellDrawn
<1>10. DOMAIN c.path = DOMAIN points /\ \A i \in DOMAIN points : Shows(c, b, points[i], c.path[i])
  BY <1>6, <1>7, <1>9 DEF Shows
<1>11. ASSUME LastOf(blocks, 1) # 0
       PROVE  DOMAIN c.charger = {1} /\ Shows(c, b, blocks[LastOf(blocks, 1)].at, c.charger[1])
  <2> DEFINE ch == blocks[LastOf(blocks, 1)]
  <2>1. LastOf(blocks, 1) \in DOMAIN blocks /\ ch.type = 1
    BY <1>1, <1>11, LastOfIs
  <2>2. ch.at \in [x : Nat, y : Nat]
    BY <2>1 DEF WellTyped
  <2>3. c.charger = <<positionInMapDimensions(c.map, ch.at)>>
    BY <1>11 DEF Drawn
  <2> HIDE DEF ch
  <2>4. Shows(c, b, ch.at, c.charger[1])
    BY <1>9, <2>2, <2>3 DEF Shows
  <2> QED
    BY <2>3, <2>4 DEF ch
<1> QED
  BY <1>10, <1>11 DEF Pictured, b, t, points

(* The rows read are sequences again, and their blocks as they were.       *)
TypedRows(d) ==
  /\ d.records \in Seq(ToSet(d.records)) /\ d.maps \in Seq(ToSet(d.maps))
  /\ \A j \in DOMAIN d.maps :
       LET blocks == d.maps[j].blocks
       IN blocks \in Seq(ToSet(blocks)) /\ \A i \in DOMAIN blocks : WellTyped(blocks[i])

LEMMA BeginningIsSeq ==
  ASSUME NEW S, NEW s \in Seq(S), NEW n \in 0..Len(s)
  PROVE  /\ SubSeq(s, 1, n) \in Seq(ToSet(SubSeq(s, 1, n)))
         /\ DOMAIN SubSeq(s, 1, n) \subseteq DOMAIN s
         /\ \A i \in DOMAIN SubSeq(s, 1, n) : SubSeq(s, 1, n)[i] = s[i]
<1> DEFINE t == SubSeq(s, 1, n)
<1>1. n \in Nat /\ Len(s) \in Nat /\ DOMAIN s = 1..Len(s)
  OBVIOUS
<1>2. t = [i \in 1..n |-> s[i]]
  BY <1>1
<1> HIDE DEF t
<1>3. t \in [1..n -> ToSet(t)]
  BY <1>2 DEF ToSet
<1>4. t \in Seq(ToSet(t))
  BY <1>1, <1>3
<1> QED
  BY <1>1, <1>2, <1>4 DEF t

LEMMA RowsTyped ==
  ASSUME NEW d \in Databases, NEW e \in Rows(d)
  PROVE  TypedRows(e)
<1>1. TypedRows(d)
  BY DatabaseAssumption DEF TypedRows
<1>2. PICK i \in 0..Len(d.records), j \in 0..Len(d.maps) :
        \/ e = [records |-> SubSeq(d.records, 1, i), maps |-> SubSeq(d.maps, 1, j)]
        \/ e = [records |-> d.records, maps |-> d.maps]
  <2>1. Len(d.records) \in Nat /\ Len(d.maps) \in Nat
    BY <1>1 DEF TypedRows
  <2>2. 0 \in 0..Len(d.records) /\ 0 \in 0..Len(d.maps)
    BY <2>1
  <2> QED
    BY <2>2 DEF Rows
<1>3. CASE e = [records |-> d.records, maps |-> d.maps]
  BY <1>1, <1>3 DEF TypedRows
<1>4. CASE e = [records |-> SubSeq(d.records, 1, i), maps |-> SubSeq(d.maps, 1, j)]
  <2>1. e.records = SubSeq(d.records, 1, i) /\ e.maps = SubSeq(d.maps, 1, j)
    BY <1>4
  <2>2. e.records \in Seq(ToSet(e.records))
    BY <1>1, <2>1, BeginningIsSeq DEF TypedRows
  <2>3. /\ e.maps \in Seq(ToSet(e.maps))
        /\ \A k \in DOMAIN e.maps : k \in DOMAIN d.maps /\ e.maps[k] = d.maps[k]
    BY <1>1, <2>1, BeginningIsSeq DEF TypedRows
  <2> QED
    BY <1>1, <2>2, <2>3 DEF TypedRows
<1> QED
  BY <1>2, <1>3, <1>4

(* A cleaning of the list is placed on the last map of its time.           *)
LEMMA ListedPictured ==
  ASSUME NEW d, TypedRows(d), ListCleanings(d).ok,
         NEW i \in DOMAIN ListCleanings(d).list, NEW j \in DOMAIN d.maps,
         LET c == ListCleanings(d).list[i]   m == d.maps[j]
         IN /\ m.begin = c.name /\ LastMap(d, j) /\ Whole(m.blocks)
            /\ OnlyRecord(d, c.name) \/ c.map # NoMap
  PROVE  Pictured(ListCleanings(d).list[i], d.maps[j].blocks)
<1> DEFINE list == ListCleanings(d).list   c == list[i]   N == Len(d.maps)
<1>1. /\ d.records \in Seq(ToSet(d.records)) /\ d.maps \in Seq(ToSet(d.maps))
      /\ d.maps[j].blocks \in Seq(ToSet(d.maps[j].blocks))
      /\ \A k \in DOMAIN d.maps[j].blocks : WellTyped(d.maps[j].blocks[k])
  BY DEF TypedRows
<1>2. /\ DOMAIN d.records = 1..Len(d.records) /\ DOMAIN d.maps = 1..Len(d.maps)
      /\ Len(d.records) \in Nat /\ Len(d.maps) \in Nat
  BY <1>1
<1>3. Settled(d, N, list)
  BY <1>1, <1>2, AllSettled
<1> HIDE DEF list
<1>4. DOMAIN list = 1..Len(d.records)
  BY <1>3 DEF Settled
<1>5. i \in 1..Len(d.records) /\ c.name = d.records[i].begin
  BY <1>3, <1>4 DEF Settled, list
<1>6. LastRecord(d, i)
  <2>1. CASE c.map # NoMap
    BY <1>3, <1>5, <2>1 DEF Settled
  <2>2. CASE OnlyRecord(d, c.name)
    <3> SUFFICES ASSUME NEW k \in 1..Len(d.records), k > i, d.records[k].begin = d.records[i].begin
                 PROVE  FALSE
      BY DEF LastRecord
    <3>1. k = i
      BY <1>2, <1>5, <2>2 DEF OnlyRecord
    <3> QED
      BY <1>5, <3>1
  <2> QED
    BY <2>1, <2>2 DEF list
<1>7. j \in 1..N /\ LastUpTo(d, N, j) /\ d.maps[j].begin = d.records[i].begin /\ Whole(d.maps[j].blocks)
  BY <1>2, <1>5 DEF LastMap, LastUpTo, list
<1>8. Drawn(c, d.maps[j].blocks)
  BY <1>3, <1>5, <1>6, <1>7 DEF Settled
<1> QED
  BY <1>1, <1>7, <1>8, DrawnPictured DEF list

(* A list of cleanings is a sequence.                                      *)
LEMMA ListIsSeq ==
  ASSUME NEW d, TypedRows(d), ListCleanings(d).ok
  PROVE  ListCleanings(d).list \in Seq(ToSet(ListCleanings(d).list))
<1> DEFINE list == ListCleanings(d).list
<1>1. d.records \in Seq(ToSet(d.records)) /\ d.maps \in Seq(ToSet(d.maps))
  BY DEF TypedRows
<1>2. Len(d.maps) \in Nat /\ Len(d.records) \in Nat
  BY <1>1
<1>3. Settled(d, Len(d.maps), list)
  BY <1>1, <1>2, AllSettled
<1> HIDE DEF list
<1>4. list = [i \in 1..Len(d.records) |-> list[i]]
  BY <1>3 DEF Settled
<1>5. \A i \in 1..Len(d.records) : list[i] \in ToSet(list)
  BY <1>4 DEF ToSet
<1>6. list \in [1..Len(d.records) -> ToSet(list)]
  BY <1>4, <1>5
<1>7. list \in Seq(ToSet(list))
  BY <1>2, <1>6
<1> QED
  BY <1>7 DEF list

-----------------------------------------------------------------------------
(* The cleanings.                                                          *)

(* What is taken off a sequence and what is added to one.                  *)
LEMMA TakenOff ==
  ASSUME NEW S, NEW s \in Seq(S), s # <<>>
  PROVE  Head(s) \in S /\ Tail(s) \in Seq(S)
OBVIOUS

(* An element taken off the front of a sequence and put at the end of the  *)
(* one before leaves the whole as it is.                                   *)
LEMMA PassedOn ==
  ASSUME NEW S, NEW s \in Seq(S), NEW t \in Seq(S), t # <<>>
  PROVE  Append(s, Head(t)) \o Tail(t) = s \o t
<1> DEFINE a == Append(s, Head(t)) \o Tail(t)   b == s \o t
<1>1. Head(t) \in S /\ Tail(t) \in Seq(S) /\ Append(s, Head(t)) \in Seq(S) /\ Len(t) >= 1
  OBVIOUS
<1>2. Len(Append(s, Head(t))) = Len(s) + 1 /\ Len(Tail(t)) = Len(t) - 1 /\ Len(s) \in Nat /\ Len(t) \in Nat
  OBVIOUS
<1>3. a \in Seq(S) /\ b \in Seq(S) /\ Len(a) = Len(s) + Len(t) /\ Len(b) = Len(s) + Len(t)
  BY <1>1, <1>2
<1>4. ASSUME NEW i \in 1..(Len(s) + Len(t)) PROVE a[i] = b[i]
  <2>1. CASE i <= Len(s)
    BY <1>1, <1>2, <2>1
  <2>2. CASE i = Len(s) + 1
    BY <1>1, <1>2, <2>2
  <2>3. CASE i > Len(s) + 1
    <3>1. a[i] = Tail(t)[i - (Len(s) + 1)] /\ b[i] = t[i - Len(s)]
      BY <1>1, <1>2, <2>3
    <3>2. Tail(t)[i - (Len(s) + 1)] = t[i - Len(s)]
      BY <1>1, <1>2, <2>3
    <3> QED
      BY <3>1, <3>2
  <2> QED
    BY <1>2, <2>1, <2>2, <2>3
<1> HIDE DEF a, b
<1>5. a = b
  BY <1>3, <1>4
<1> QED
  BY <1>5 DEF a, b

LEMMA Concatenated ==
  ASSUME NEW S, NEW s \in Seq(S), NEW t \in Seq(S), NEW u \in Seq(S)
  PROVE  (s \o t) \o u = s \o (t \o u)
BY ConcatAssociative

(* The cleanings whose upload has been started.                            *)
LEMMA StartedIs ==
  ASSUME ListInv
  PROVE  Started \in Seq(Listed) /\ DOMAIN Started = DOMAIN uploads
<1>1. uploads \in Seq(Uploading) /\ \A i \in DOMAIN uploads : uploads[i].c \in Listed
  <2>1. \A i \in DOMAIN uploads : uploads[i] \in Uploading
    BY DEF ListInv
  <2> QED
    BY <2>1 DEF Uploading, ListInv
<1>2. DOMAIN uploads = 1..Len(uploads) /\ Len(uploads) \in Nat
  BY <1>1
<1>3. Started = [i \in 1..Len(uploads) |-> uploads[i].c]
  BY <1>2 DEF Started
<1> QED
  BY <1>1, <1>2, <1>3

(* What an uploading goroutine does is to its own record.                  *)
LEMMA UploadKeeps ==
  ASSUME ListInv, Accounted, NEW i \in DOMAIN uploads, NEW st \in {"get", "create", "done", "failed"},
         Upload(i, st), UNCHANGED <<listing, reader, toSend, cleaningCh>>,
         created \subseteq created',
         NEW own, own = uploads[i].c, st = "done" => Exists(own)'
  PROVE  ListInv' /\ Accounted'
<1> DEFINE up == [uploads[i] EXCEPT !.state = st]
<1>1. \A c : Exists(c) => Exists(c)'
  BY DEF Exists
<1>2. uploads \in Seq(Uploading) /\ uploads[i] \in Uploading
  BY DEF ListInv
<1>3. up \in Uploading /\ up.c = own /\ up.state = st
  BY <1>2 DEF Uploading
<1> HIDE DEF up
<1>4. uploads' = [uploads EXCEPT ![i] = up]
  BY DEF Upload, up
<1>5. /\ uploads' \in Seq(Uploading) /\ DOMAIN uploads' = DOMAIN uploads /\ uploads' # <<>>
      /\ \A j \in DOMAIN uploads : uploads'[j] = IF j = i THEN up ELSE uploads[j]
  BY <1>2, <1>3, <1>4
<1>6. ASSUME reader = "send", NEW j \in DOMAIN uploads', uploads'[j].state = "done"
      PROVE  Exists(uploads[j].c)'
  <2>1. CASE j = i
    BY <1>3, <1>5, <1>6, <2>1
  <2>2. CASE j # i
    BY <1>1, <1>5, <1>6, <2>2 DEF Accounted
  <2> QED
    BY <2>1, <2>2
<1>7. ListInv'
  <2>1. uploads # <<>>
    BY <1>2
  <2> QED
    BY <1>5, <2>1 DEF ListInv, Uploading, Listed
<1>8. Started' = Started
  BY <1>3, <1>5 DEF Started
<1>9. Accounted'
  BY <1>6, <1>8 DEF Accounted
<1> QED
  BY <1>7, <1>9

LEMMA ReaderKeeps ==
  ASSUME ListInv, Accounted, Reader
  PROVE  ListInv' /\ Accounted'
<1>1. CASE ReadDatabase
  <2>1. ListInv'
    BY <1>1 DEF ReadDatabase, ListInv, Listed, Uploading
  <2>2. uploads = <<>> /\ cleaningCh = <<>> /\ UNCHANGED <<uploads, cleaningCh, listing>>
    BY <1>1 DEF ReadDatabase, ListInv
  <2>3. Started' = <<>>
    BY <2>2 DEF Started
  <2>4. ASSUME listing.ok, toSend' = listing.list PROVE Started' \o cleaningCh' \o toSend' = listing'.list
    <3>1. listing.list \in Seq(Listed)
      BY <2>4 DEF ListInv
    <3> QED
      BY <2>2, <2>3, <2>4, <3>1
  <2> QED
    BY <1>1, <2>1, <2>2, <2>4 DEF ReadDatabase, Accounted
<1>2. CASE SendCleaning
  <2> DEFINE h == Head(toSend)
  <2>1. /\ toSend' = Tail(toSend) /\ cleaningCh' = Append(cleaningCh, h) /\ toSend # <<>>
        /\ toSend \in Seq(Listed) /\ cleaningCh \in Seq(Listed) /\ reader = "send"
    BY <1>2 DEF SendCleaning, Send, ListInv
  <2>2. UNCHANGED <<listing, reader, uploads, created>>
    BY <1>2 DEF SendCleaning
  <2>3. h \in Listed /\ toSend' \in Seq(Listed) /\ cleaningCh' \in Seq(Listed)
    BY <2>1, TakenOff
  <2>4. ListInv'
    BY <2>1, <2>2, <2>3 DEF ListInv, Listed, Uploading
  <2>5. Started \in Seq(Listed) /\ Started' = Started
    BY <2>2, StartedIs DEF Started
  <2>6. cleaningCh' \o toSend' = cleaningCh \o toSend
    BY <2>1, PassedOn
  <2>7. Started' \o cleaningCh' \o toSend' = Started \o cleaningCh \o toSend
    <3>1. (Started \o cleaningCh) \o toSend = Started \o (cleaningCh \o toSend)
      BY <2>1, <2>5, Concatenated
    <3>2. (Started \o cleaningCh') \o toSend' = Started \o (cleaningCh' \o toSend')
      BY <2>3, <2>5, Concatenated
    <3> QED
      BY <2>5, <2>6, <3>1, <3>2
  <2> QED
    BY <2>2, <2>4, <2>7 DEF Accounted, Exists
<1> QED
  BY <1>1, <1>2 DEF Reader

LEMMA TakeKeeps ==
  ASSUME ListInv, Accounted, TakeCleaning
  PROVE  ListInv' /\ Accounted'
<1> DEFINE h == Head(cleaningCh)
           up == [c |-> h, state |-> "get"]
<1>1. /\ cleaningCh # <<>> /\ cleaningCh \in Seq(Listed) /\ toSend \in Seq(Listed)
      /\ cleaningCh' = Tail(cleaningCh)
      /\ h \in Listed /\ cleaningCh' \in Seq(Listed)
  BY TakenOff DEF TakeCleaning, ListInv
<1>2. UNCHANGED <<listing, reader, toSend, created>> /\ uploads' = Append(uploads, up)
  BY DEF TakeCleaning, Spawn
<1>3. up \in Uploading /\ up.c = h /\ up.state = "get"
  BY <1>1 DEF Uploading
<1>4. uploads \in Seq(Uploading)
  BY DEF ListInv
<1> HIDE DEF up
<1>5. /\ uploads' \in Seq(Uploading)
      /\ DOMAIN uploads' = 1..(Len(uploads) + 1) /\ DOMAIN uploads = 1..Len(uploads) /\ Len(uploads) \in Nat
      /\ \A i \in DOMAIN uploads' : uploads'[i] = IF i \in DOMAIN uploads THEN uploads[i] ELSE up
  BY <1>2, <1>3, <1>4
<1>6. ListInv'
  BY <1>1, <1>2, <1>5 DEF ListInv, Listed, Uploading
<1>7. Started \in Seq(Listed) /\ DOMAIN Started = DOMAIN uploads
  BY StartedIs
<1>8. Started' = Append(Started, h)
  <2>1. Len(Started) = Len(uploads)
    BY <1>5, <1>7
  <2>2. /\ Append(Started, h) \in Seq(Listed) /\ Len(Append(Started, h)) = Len(uploads) + 1
        /\ \A i \in 1..Len(uploads) : Append(Started, h)[i] = Started[i]
        /\ Append(Started, h)[Len(uploads) + 1] = h
    BY <1>1, <1>7, <2>1
  <2>3. /\ DOMAIN Append(Started, h) = DOMAIN uploads'
        /\ Append(Started, h) = [i \in DOMAIN uploads' |-> Append(Started, h)[i]]
    <3> DEFINE s == Append(Started, h)
    <3>1. s \in Seq(Listed) /\ Len(s) = Len(uploads) + 1
      BY <2>2
    <3> HIDE DEF s
    <3>2. DOMAIN s = 1..(Len(uploads) + 1) /\ s = [i \in DOMAIN s |-> s[i]]
      BY <3>1
    <3> QED
      BY <1>5, <3>2 DEF s
  <2>4. ASSUME NEW i \in DOMAIN uploads' PROVE Append(Started, h)[i] = uploads'[i].c
    <3>1. CASE i \in DOMAIN uploads
      BY <1>5, <2>2, <3>1 DEF Started
    <3>2. CASE i \notin DOMAIN uploads
      <4>1. i = Len(uploads) + 1
        BY <1>5, <3>2
      <4> QED
        BY <1>3, <1>5, <2>2, <3>2, <4>1
    <3> QED
      BY <3>1, <3>2
  <2> QED
    BY <2>3, <2>4 DEF Started
<1>9. Started' \o cleaningCh' = Started \o cleaningCh
  BY <1>1, <1>7, <1>8, PassedOn
<1>10. ASSUME reader = "send", NEW i \in DOMAIN uploads', uploads'[i].state = "done"
       PROVE  Exists(uploads[i].c)'
  <2>1. i \in DOMAIN uploads /\ uploads'[i] = uploads[i]
    BY <1>3, <1>5, <1>10
  <2>2. Exists(uploads[i].c)
    BY <1>10, <2>1 DEF Accounted
  <2> QED
    BY <1>2, <2>1, <2>2 DEF Exists
<1>11. Accounted'
  BY <1>2, <1>9, <1>10 DEF Accounted
<1> QED
  BY <1>6, <1>11

LEMMA ListStep ==
  ASSUME [Next]_vars, ListInv, Accounted
  PROVE  ListInv' /\ Accounted'
<1>1. CASE Reader
  BY <1>1, ReaderKeeps
<1>2. CASE TakeCleaning
  BY <1>2, TakeKeeps
<1>3. CASE Uploader
  <2>1. PICK i \in DOMAIN uploads : GetCleaning(i) \/ CreateCleaning(i)
    BY <1>3 DEF Uploader
  <2>2. CASE GetCleaning(i)
    BY <2>2, UploadKeeps DEF GetCleaning, CallLost, Exists
  <2>3. CASE CreateCleaning(i)
    <3>1. \/ Upload(i, "failed") /\ created \subseteq created'
          \/ Upload(i, "done") /\ created' = created \cup {uploads[i].c}
      BY <2>3 DEF CreateCleaning, Call, CallLost
    <3>2. UNCHANGED <<listing, reader, toSend, cleaningCh>>
      BY <2>3 DEF CreateCleaning
    <3> QED
      BY <3>1, <3>2, UploadKeeps DEF Exists
  <2> QED
    BY <2>1, <2>2, <2>3
<1>4. ASSUME UNCHANGED <<listing, reader, toSend, cleaningCh, uploads, created>>
      PROVE  ListInv' /\ Accounted'
  <2>1. Started' = Started /\ Listed' = Listed /\ Uploading' = Uploading
    BY <1>4 DEF Started, Listed, Uploading
  <2> QED
    BY <1>4, <2>1 DEF ListInv, Accounted, Exists
<1>5. CASE Others \/ Start \/ Tick \/ End \/ Stop \/ UNCHANGED vars
  BY <1>4, <1>5 DEF Others, DeleteNode, CreateForeignNode, MarkUnknown, DeletePod, Start, Tick, End, Stop
<1>6. CASE Registration \/ FakePods \/ NodeStatus
  BY <1>4, <1>6 DEF Registration, CreateNode, CompareNode, ReplaceNode, FakePods, DeleteFakePod,
    GetFakePod, CreateFakePod, UpdateFakePod, NodeStatus, GetNode, UpdateNode
<1> QED
  BY <1>1, <1>2, <1>3, <1>5, <1>6 DEF Next, MainLoop

LEMMA ListInit == Init => ListInv /\ Accounted
BY RowsTyped, ListIsSeq DEF Init, ListInv, Accounted, Listed

(* No cleaning of the list is lost, doubled or overtaken on its way from   *)
(* the reader through the channel and the main loop to an uploading        *)
(* goroutine (rockrobo.go:373, kubernetes.go:118).                         *)
THEOREM NoneLost == Spec => []Accounted
BY ListInit, ListStep, PTL DEF Spec

(* What is at the server is from the list of the database.                 *)
FromList ==
  /\ TypedRows(db) /\ listing = ListCleanings(db)
  /\ created \subseteq Listed

LEMMA FromListStep == ListInv /\ FromList /\ [Next]_vars => FromList'
<1> SUFFICES ASSUME ListInv, FromList, [Next]_vars PROVE FromList'
  OBVIOUS
<1>1. UNCHANGED <<db, listing>>
  BY DEF Next, MainLoop, Reader, ReadDatabase, SendCleaning,
    Uploader, Others, DeleteNode, CreateForeignNode, MarkUnknown,
    DeletePod, Start, Tick, TakeCleaning, End, Stop, Registration, CreateNode, CompareNode, ReplaceNode,
    FakePods, DeleteFakePod, GetFakePod, CreateFakePod, UpdateFakePod, NodeStatus, GetNode,
    UpdateNode, GetCleaning, CreateCleaning
<1>2. created' = created \/ \E i \in DOMAIN uploads : created' = created \cup {uploads[i].c}
  BY DEF Next, MainLoop, Reader, ReadDatabase, SendCleaning,
    Uploader, Others, DeleteNode, CreateForeignNode, MarkUnknown,
    DeletePod, Start, Tick, TakeCleaning, End, Stop, Registration, CreateNode, CompareNode, ReplaceNode,
    FakePods, DeleteFakePod, GetFakePod, CreateFakePod, UpdateFakePod, NodeStatus, GetNode,
    UpdateNode, GetCleaning, CreateCleaning, Call, CallLost
<1>3. \A i \in DOMAIN uploads : uploads[i].c \in Listed
  <2>1. \A i \in DOMAIN uploads : uploads[i] \in Uploading
    BY DEF ListInv
  <2> QED
    BY <2>1 DEF Uploading
<1>4. created' \subseteq Listed
  BY <1>2, <1>3 DEF FromList
<1>5. Listed' = Listed
  BY <1>1 DEF Listed
<1> QED
  BY <1>1, <1>4, <1>5 DEF FromList

LEMMA FromListPlaced == FromList => Placed
<1> SUFFICES ASSUME FromList, NEW c \in created, NEW j \in DOMAIN db.maps,
                    db.maps[j].begin = c.name, LastMap(db, j), Whole(db.maps[j].blocks),
                    OnlyRecord(db, c.name) \/ c.map # NoMap
             PROVE  Pictured(c, db.maps[j].blocks)
  BY DEF Placed, Whole
<1>1. c \in Listed
  BY DEF FromList
<1>2. listing.ok /\ c \in ToSet(listing.list)
  BY <1>1 DEF Listed
<1>3. PICK i \in DOMAIN listing.list : c = listing.list[i]
  BY <1>2 DEF ToSet
<1> QED
  BY <1>2, <1>3, ListedPictured DEF FromList

(* What is uploaded is drawn and placed right, for every database, however *)
(* its rows and blocks are ordered (robotdb.go:213, 311).                  *)
THEOREM CleaningsPlaced == Spec => []Placed
<1>1. Init => FromList
  BY RowsTyped DEF Init, FromList
<1> QED
  BY <1>1, FromListStep, FromListPlaced, ListInit, ListStep, PTL DEF Spec

-----------------------------------------------------------------------------
(* Types.                                                                  *)

(* Where the loop stands, its attempts, and what it is about to write.     *)
PlaceInv ==
  /\ pc \in {"start", "failed", "loop", "ended", "create", "compare", "replace", "fakeDelete",
             "fakeGet", "fakeCreate", "fakeStatus", "nodeGet", "nodeUpdate"}
  /\ tries \in 0..Retries - 1 /\ faults \in 0..MaxFaults
  /\ copy \in [keep : BOOLEAN, since : {"change", "later", "earlier"}] \cup {None}

LEMMA PlaceStep == [Next]_vars /\ NodeInv /\ PlaceInv => PlaceInv'
<1> SUFFICES ASSUME [Next]_vars, NodeInv, PlaceInv PROVE PlaceInv'
  OBVIOUS
<1> USE KubeAssumption DEF PlaceInv, Call, CallLost, Fault
<1>1. CASE Others
  BY <1>1 DEF Others, DeleteNode, CreateForeignNode, MarkUnknown, DeletePod
<1>2. CASE Start \/ Tick \/ TakeCleaning \/ End
  BY <1>2 DEF Start, Tick, TakeCleaning, End, AfterRegistration
<1>3. CASE Registration
  BY <1>3 DEF Registration, CreateNode, CompareNode, ReplaceNode, Registered, Again,
              AfterRegistration
<1>4. CASE FakePods
  BY <1>4 DEF FakePods, DeleteFakePod, GetFakePod, CreateFakePod, UpdateFakePod, Continue
<1>5. CASE GetNode
  <2>1. node # None => ReadyCondition(node.ready) \in
          [keep : BOOLEAN, since : {"change", "later", "earlier"}]
    BY NoneAssumption DEF ReadyCondition, NodeInv, Node, Condition
  <2> QED
    BY <1>5, <2>1 DEF GetNode, Retry
<1>6. CASE UpdateNode
  BY <1>6 DEF UpdateNode, Retry
<1>7. CASE Reader
  BY <1>7 DEF Reader, ReadDatabase, SendCleaning
<1>8. CASE Uploader
  BY <1>8 DEF Uploader, GetCleaning, CreateCleaning, Upload
<1>9. CASE Stop \/ UNCHANGED vars
  BY <1>9 DEF Stop
<1> QED
  BY <1>1, <1>2, <1>3, <1>4, <1>5, <1>6, <1>7, <1>8, <1>9 DEF Next, MainLoop, NodeStatus

(* The channel holds Cap cleanings at most.                                *)
ChannelInv == reader \in {"list", "send", "failed"} /\ Len(cleaningCh) <= Cap

LEMMA ChannelStep == [Next]_vars /\ ListInv /\ ChannelInv => ChannelInv'
<1> SUFFICES ASSUME [Next]_vars, ListInv, ChannelInv PROVE ChannelInv'
  OBVIOUS
<1> USE KubeAssumption DEF ChannelInv
<1>1. cleaningCh \in Seq(Listed) /\ Len(cleaningCh) \in Nat
  BY DEF ListInv
<1>2. CASE SendCleaning
  <2>1. Len(Append(cleaningCh, Head(toSend))) = Len(cleaningCh) + 1
    BY <1>2, <1>1, TakenOff DEF SendCleaning, ListInv
  <2> QED
    BY <1>1, <1>2, <2>1 DEF SendCleaning, Send
<1>3. CASE TakeCleaning
  BY <1>1, <1>3 DEF TakeCleaning
<1>4. CASE ReadDatabase
  BY <1>4 DEF ReadDatabase
<1>5. CASE UNCHANGED <<reader, cleaningCh>>
  BY <1>5
<1>6. SendCleaning \/ TakeCleaning \/ ReadDatabase \/ UNCHANGED <<reader, cleaningCh>>
  BY DEF Next, MainLoop, Reader, Uploader, Others, DeleteNode, CreateForeignNode, MarkUnknown,
    DeletePod, Start, Tick, End, Stop, Registration, CreateNode, CompareNode, ReplaceNode,
    FakePods, DeleteFakePod, GetFakePod, CreateFakePod, UpdateFakePod, NodeStatus, GetNode,
    UpdateNode, GetCleaning, CreateCleaning
<1> QED
  BY <1>2, <1>3, <1>4, <1>5, <1>6

(* The flags are flags.                                                    *)
FlagInv == {registered, fakeDone, stale, kept, stopped, lost} \subseteq BOOLEAN

LEMMA FlagStep == [Next]_vars /\ FlagInv => FlagInv'
<1> SUFFICES ASSUME [Next]_vars, FlagInv PROVE FlagInv'
  OBVIOUS
<1> USE DEF FlagInv, Call, CallLost
<1>1. CASE Others
  BY <1>1 DEF Others, DeleteNode, CreateForeignNode, MarkUnknown, DeletePod, NodeChanged
<1>2. CASE Start \/ Tick \/ TakeCleaning \/ End
  BY <1>2 DEF Start, Tick, TakeCleaning, End
<1>3. CASE Registration
  BY <1>3 DEF Registration, CreateNode, CompareNode, ReplaceNode, Registered, Again
<1>4. CASE FakePods
  BY <1>4 DEF FakePods, DeleteFakePod, GetFakePod, CreateFakePod, UpdateFakePod, Continue
<1>5. CASE NodeStatus
  BY <1>5 DEF NodeStatus, GetNode, UpdateNode
<1>7. CASE Reader
  BY <1>7 DEF Reader, ReadDatabase, SendCleaning
<1>8. CASE Uploader
  BY <1>8 DEF Uploader, GetCleaning, CreateCleaning, Upload
<1>9. CASE Stop \/ UNCHANGED vars
  BY <1>9 DEF Stop
<1> QED
  BY <1>1, <1>2, <1>3, <1>4, <1>5, <1>7, <1>8, <1>9 DEF Next, MainLoop

(* Types; the channel never holds more than its capacity, and an update of *)
(* the node is tried Retries times at most.                                *)
THEOREM TypeCorrect == Spec => []TypeOK
<1>1. Init => PlaceInv /\ ChannelInv /\ FlagInv
  <2>1. Init => PlaceInv
    BY KubeAssumption DEF Init, PlaceInv
  <2>2. Init => ChannelInv
    BY KubeAssumption DEF Init, ChannelInv
  <2>3. Init => FlagInv
    BY DEF Init, FlagInv
  <2> QED
    BY <2>1, <2>2, <2>3
<1>2. NodeInv /\ PodInv /\ PlaceInv /\ ChannelInv /\ FlagInv /\ ListInv => TypeOK
  <2> SUFFICES ASSUME NodeInv, PodInv, PlaceInv, ChannelInv, FlagInv, ListInv PROVE TypeOK
    OBVIOUS
  <2>1. \A i \in DOMAIN uploads : uploads[i].state \in {"get", "create", "done", "failed"}
    <3>1. \A i \in DOMAIN uploads : uploads[i] \in Uploading
      BY DEF ListInv
    <3> QED
      BY <3>1 DEF Uploading
  <2> QED
    BY <2>1 DEF TypeOK, NodeInv, PodInv, PlaceInv, ChannelInv, FlagInv
<1> QED
  BY <1>1, <1>2, NodeInit, NodeStep, PodInit, PodStep, ListInit, ListStep, PlaceStep, ChannelStep, FlagStep,
     PTL DEF Spec
=============================================================================
