-------------------------- MODULE StatusLoopProofs --------------------------
(* What StatusLoop does for every robot, database of maps and log, and for *)
(* any number of faults.                                                   *)
EXTENDS StatusLoop, WellFoundedInduction, TLAPS

USE DEF navVars, fileVars, mapVars, logVars, readVars, statusVars, objVars, loopVars, vars

(* The goroutines of the maps leave the status loop's variables alone, and *)
(* of their own only the files' clock is bounded (navmap.go:223, 461).     *)
LEMMA MapsApart ==
  ASSUME Nav, TypeOK
  PROVE  /\ UNCHANGED statusVars
         /\ panicked' \in BOOLEAN /\ changes' \in 0..MaxChanges
<1>1. UNCHANGED statusVars
  BY DEF Nav
<1>2. CASE Firmware
  <2>1. PICK f \in Files : BeginFile(f) \/ EndFile(f) \/ RemoveFile(f)
    BY <1>2 DEF Firmware
  <2>2. changes < MaxChanges /\ changes' = changes + 1 /\ UNCHANGED panicked
    BY <2>1 DEF BeginFile, EndFile, RemoveFile, Change
  <2> QED
    BY <1>1, <2>2, NavMapAssumption DEF TypeOK
<1>3. CASE MapLoop
  BY <1>1, <1>3 DEF MapLoop, LookupMaps, OpenMap, TypeOK
<1>4. CASE Watcher
  BY <1>1, <1>4 DEF Watcher, ReadLine, ReadBadLine, TypeOK
<1> QED
  BY <1>2, <1>3, <1>4 DEF Nav

(* The types of the status loop hold always.                               *)
THEOREM TypeCorrect == Spec => []TypeOK
<1>1. Init => TypeOK
  BY StatusAssumption, NavMapAssumption DEF Init, NavInit, TypeOK
<1>2. TypeOK /\ [Next]_vars => TypeOK'
  <2> SUFFICES ASSUME TypeOK, [Next]_vars PROVE TypeOK'
    OBVIOUS
  <2>0. ASSUME NEW e, Fault(e) PROVE faults' \in 0..MaxFaults
    BY <2>0, StatusAssumption DEF Fault, TypeOK
  <2>1. CASE Nav
    BY <2>1, MapsApart DEF TypeOK
  <2>2. CASE Server
    BY <2>0, <2>2 DEF Server, MakeClient, Edit, DeleteVacuum, TypeOK
  <2>3. CASE Report
    BY <2>3 DEF Report, TypeOK
  <2>4. CASE Loop
    <3>1. CASE DeviceReady \/ Select
      BY <3>1 DEF DeviceReady, Select, TypeOK
    <3>2. CASE GetInternalInfo
      BY <2>0, <3>2 DEF GetInternalInfo, AfterInfo, TypeOK
    <3>3. CASE LocalGetStatus
      BY <2>0, <3>3 DEF LocalGetStatus, TypeOK
    <3>4. CASE LookAtMap \/ TakePositions
      BY <3>4 DEF LookAtMap, TakePositions, LatestMap, ReadHeader, LatestPositions, TypeOK
    <3>5. CASE Publish
      BY <3>5 DEF Publish, Compare, AfterCompare, TypeOK
    <3>6. CASE GetVacuum
      BY <2>0, <3>6 DEF GetVacuum, Compare, AfterCompare, TypeOK
    <3>7. CASE CreateVacuum
      BY <2>0, <3>7 DEF CreateVacuum, TypeOK
    <3>8. CASE UpdateVacuum
      <4>1. current' \in BOOLEAN
        BY <3>8 DEF UpdateVacuum, TypeOK
      <4> QED
        BY <2>0, <3>8, <4>1 DEF UpdateVacuum, TypeOK
    <3> QED
      BY <2>4, <3>1, <3>2, <3>3, <3>4, <3>5, <3>6, <3>7, <3>8 DEF Loop, Poll, Vacuum
  <2>5. CASE UNCHANGED vars
    BY <2>5 DEF TypeOK
  <2> QED
    BY <2>1, <2>2, <2>3, <2>4, <2>5 DEF Next
<1> QED
  BY <1>1, <1>2, PTL DEF Spec

(* Between two polls the cached object is the one the server has, as long  *)
(* as nobody else writes (vacuum_status.go:50-61).                         *)
THEOREM CopyIsCurrent == Spec => []CopyCurrent
<1>1. Init => CopyCurrent /\ CopyInv
  BY DEF Init, CopyCurrent, CopyInv
<1>2. CopyCurrent /\ CopyInv /\ [Next]_vars => (CopyCurrent /\ CopyInv)'
  <2> SUFFICES ASSUME CopyCurrent, CopyInv, [Next]_vars PROVE CopyCurrent' /\ CopyInv'
    OBVIOUS
  <2> USE DEF CopyCurrent, CopyInv
  <2>1. CASE Nav
    BY <2>1 DEF Nav
  <2>2. CASE Server
    BY <2>2 DEF Server, MakeClient, Edit, DeleteVacuum
  <2>3. CASE Report
    BY <2>3 DEF Report
  <2>4. CASE Loop
    <3>1. CASE DeviceReady \/ Select \/ GetInternalInfo
      BY <3>1 DEF DeviceReady, Select, GetInternalInfo, AfterInfo
    <3>2. CASE LocalGetStatus \/ LookAtMap \/ TakePositions
      BY <3>2 DEF LocalGetStatus, LookAtMap, TakePositions
    <3>3. CASE Publish
      BY <3>3 DEF Publish, Compare, AfterCompare
    <3>4. CASE GetVacuum
      BY <3>4 DEF GetVacuum, Compare, AfterCompare
    <3>5. CASE CreateVacuum
      BY <3>5 DEF CreateVacuum
    <3>6. CASE UpdateVacuum
      BY <3>6 DEF UpdateVacuum, DropCopy
    <3> QED
      BY <2>4, <3>1, <3>2, <3>3, <3>4, <3>5, <3>6 DEF Loop, Poll, Vacuum
  <2>5. CASE UNCHANGED vars
    BY <2>5
  <2> QED
    BY <2>1, <2>2, <2>3, <2>4, <2>5 DEF Next
<1> QED
  BY <1>1, <1>2, PTL DEF Spec

-----------------------------------------------------------------------------
(* The geometry of a map.                                                  *)

(* A set of natural numbers has a least element.                           *)
LEMMA Least ==
  ASSUME NEW S, S \subseteq Nat, S # {}
  PROVE  \E n \in S : \A m \in S : n <= m
<1>1. PICK x \in S : \A y \in S : ~(<<y, x>> \in OpToRel(<, Nat))
  BY NatLessThanWellFounded, WFMin
<1>2. \A y \in S : ~(y < x)
  BY <1>1 DEF OpToRel
<1> QED
  BY <1>2

(* The bounds of sets of numbers up to n.                                 *)
LEMMA MinNat ==
  ASSUME NEW n \in Nat, NEW S, S \subseteq 0..n, S # {}
  PROVE  Min(S) \in S /\ \A m \in S : Min(S) <= m
<1>1. S \subseteq Nat
  OBVIOUS
<1> QED
  BY <1>1, Least DEF Min

(* One of numbers up to n has a greatest: its distance to n is least.      *)
LEMMA MaxNat ==
  ASSUME NEW n \in Nat, NEW S, S \subseteq 0..n, S # {}
  PROVE  Max(S) \in S /\ \A m \in S : m <= Max(S)
<1> DEFINE distances == {n - s : s \in S}
<1>1. \A s \in S : s \in Nat /\ n - s \in Nat
  <2> SUFFICES ASSUME NEW s \in S PROVE s \in Nat /\ n - s \in Nat
    OBVIOUS
  <2>1. s \in 0..n
    OBVIOUS
  <2> QED
    BY <2>1
<1>2. distances \subseteq Nat /\ distances # {}
  BY <1>1
<1>3. PICK d \in distances : \A e \in distances : d <= e
  BY <1>2, Least
<1>4. PICK s \in S : d = n - s
  OBVIOUS
<1>5. \A m \in S : m <= s
  <2> SUFFICES ASSUME NEW m \in S PROVE m <= s
    OBVIOUS
  <2>1. n - s <= n - m
    BY <1>3, <1>4
  <2> QED
    BY <1>1, <2>1
<1> QED
  BY <1>5 DEF Max

(* The used area lies within the image.                                    *)
LEMMA AreaInside ==
  ASSUME NEW image \in Images
  PROVE  /\ Area(image).left \in 0..Width(image) /\ Area(image).right \in 0..Width(image)
         /\ Area(image).top \in 0..Height(image) /\ Area(image).bottom \in 0..Height(image)
<1> DEFINE xs == {Column(xy) : xy \in Used(image)}
           ys == {Row(xy) : xy \in Used(image)}
<1>1. Width(image) \in Nat /\ Height(image) \in Nat
  BY ImageAssumption
<1>2. \A xy \in Used(image) : Column(xy) \in 0..Width(image) /\ Row(xy) \in 0..Height(image)
  <2> SUFFICES ASSUME NEW xy \in Used(image)
               PROVE  Column(xy) \in 0..Width(image) /\ Row(xy) \in 0..Height(image)
    OBVIOUS
  <2>1. xy \in (0..Width(image) - 1) \X (0..Height(image) - 1)
    BY ImageAssumption DEF Used
  <2>2. xy[1] \in 0..Width(image) - 1 /\ xy[2] \in 0..Height(image) - 1
    BY <2>1
  <2> QED
    BY <1>1, <2>2 DEF Column, Row
<1>7. xs \cup {0} \subseteq 0..Width(image) /\ xs \cup {Width(image)} \subseteq 0..Width(image)
  BY <1>1, <1>2
<1>8. ys \cup {0} \subseteq 0..Height(image) /\ ys \cup {Height(image)} \subseteq 0..Height(image)
  BY <1>1, <1>2
<1> HIDE DEF xs, ys
<1>3. Min(xs \cup {Width(image)}) \in 0..Width(image)
  BY <1>1, <1>7, <1>8, MinNat
<1>4. Min(ys \cup {Height(image)}) \in 0..Height(image)
  BY <1>1, <1>7, <1>8, MinNat
<1>5. Max(xs \cup {0}) \in 0..Width(image)
  BY <1>1, <1>7, <1>8, MaxNat
<1>6. Max(ys \cup {0}) \in 0..Height(image)
  BY <1>1, <1>7, <1>8, MaxNat
<1> QED
  BY <1>3, <1>4, <1>5, <1>6 DEF Area, xs, ys

(* A point is on the picture if it is in the used area, at its own pixel.  *)
LEMMA PointOnPicture ==
  ASSUME NEW image \in Images, NEW p \in Point
  PROVE  LET a == Area(image)
             xy == <<p.x - NewMap(image).left, p.y - NewMap(image).top>>
             data == NewMap(image).data
         IN IF Within(a, p)
              THEN xy \in DOMAIN data /\ data[xy] = Recolour(image[<<p.x, p.y>>])
              ELSE xy \notin DOMAIN data
<1> DEFINE a == Area(image)
           xy == <<p.x - a.left, p.y - a.top>>
           data == NewMap(image).data
<1>1. /\ a.left \in Int /\ a.right \in Int /\ a.top \in Int /\ a.bottom \in Int
      /\ p.x \in Int /\ p.y \in Int
  BY AreaInside, ImageAssumption DEF Point
<1>2. NewMap(image).left = a.left /\ NewMap(image).top = a.top
  BY DEF NewMap, Picture
<1>3. data = [q \in (0..a.right - a.left - 1) \X (0..a.bottom - a.top - 1) |->
               Recolour(image[<<q[1] + a.left, q[2] + a.top>>])]
  BY DEF NewMap, Picture
<1> HIDE DEF a, data
<1>4. xy \in DOMAIN data <=> Within(a, p)
  BY <1>1, <1>3 DEF Within
<1>5. xy[1] + a.left = p.x /\ xy[2] + a.top = p.y
  BY <1>1
<1>6. xy \in DOMAIN data => data[xy] = Recolour(image[<<p.x, p.y>>])
  BY <1>3, <1>5
<1> QED
  BY <1>2, <1>4, <1>6 DEF a, data

-----------------------------------------------------------------------------
(* The steps that read and write positions.                                *)

LEMMA LogPoints ==
  ASSUME NEW k \in 1..Len(Log), Log[k].command = "estimate"
  PROVE  Where(Log[k]) \in Point
<1>1. Log[k].at \in Point \cup {None}
  BY LogAssumption DEF ToSet
<1>2. Origin \in Point
  BY DEF Origin, Point
<1> QED
  BY <1>1, <1>2 DEF Where

(* A slice's data and another's length make a beginning of the first.      *)
LEMMA MixtureOf ==
  ASSUME NEW one \in Seq(Point), NEW other \in Seq(Point),
         NEW trail \in Slices(one, other), trail # Garbage
  PROVE  \E data \in {one, other} : \E n \in 0..Len(data) : trail = SubSeq(data, 1, n)
BY DEF Slices, Mixture

LEMMA BeginningTyped ==
  ASSUME NEW data \in Seq(Point), NEW n \in 0..Len(data)
  PROVE  /\ SubSeq(data, 1, n) \in Seq(Point) /\ Len(SubSeq(data, 1, n)) = n
         /\ \A i \in 1..n : SubSeq(data, 1, n)[i] = data[i]
OBVIOUS

(* What the watcher does with a line.                                      *)
LEMMA LineRead ==
  ASSUME ReadLine
  PROVE  /\ Log[line + 1].command = "estimate" => AppendPosition(Where(Log[line + 1]))
         /\ Log[line + 1].command = "reset" => positions' = <<>>
         /\ Log[line + 1].command \notin {"estimate", "reset"} => positions' = positions
<1>1. CASE Log[line + 1].command = "estimate"
  BY <1>1 DEF ReadLine
<1>2. CASE Log[line + 1].command = "reset"
  BY <1>2 DEF ReadLine
<1>3. CASE Log[line + 1].command \notin {"estimate", "reset"}
  BY <1>3 DEF ReadLine
<1> QED
  BY <1>1, <1>2, <1>3

(* Steps of the maps' goroutines.                                          *)
LEMMA NavPicture ==
  ASSUME Firmware \/ MapLoop \/ Watcher, PictureInv, PathInv
  PROVE  PictureInv'
<1> USE NavMapAssumption DEF PictureInv, MapOf
<1>1. CASE Firmware
  <2>1. PICK f \in Files : BeginFile(f) \/ EndFile(f) \/ RemoveFile(f)
    BY <1>1 DEF Firmware
  <2>2. changes' \in Nat /\ UNCHANGED <<mapVars, logVars, readVars, panicked>>
    BY <2>1 DEF BeginFile, EndFile, RemoveFile, Change
  <2>3. files' \in [Files -> {None} \cup [mtime : Nat, image : Images \cup {Partial}]]
    <3>1. CASE BeginFile(f)
      BY <3>1 DEF BeginFile, Change
    <3>2. CASE EndFile(f)
      BY <3>2 DEF EndFile, Change
    <3>3. CASE RemoveFile(f)
      BY <3>3 DEF RemoveFile, Change
    <3> QED
      BY <2>1, <3>1, <3>2, <3>3
  <2> QED
    BY <2>2, <2>3
<1>2. CASE LookupMaps
  BY <1>2 DEF LookupMaps, Present
<1>3. CASE OpenMap
  <2>1. lookup.path \in Files
    BY <1>3 DEF OpenMap
  <2>2. latestMap' # None => MapOf(latestMap')
    <3>1. CASE files[lookup.path] # None /\ Convertible(files[lookup.path].image)
      <4>1. files[lookup.path].image \in Images
        BY <2>1, <3>1 DEF Convertible
      <4> QED
        BY <1>3, <3>1, <4>1 DEF OpenMap
    <3>2. CASE ~(files[lookup.path] # None /\ Convertible(files[lookup.path].image))
      BY <1>3, <3>2 DEF OpenMap
    <3> QED
      BY <3>1, <3>2
  <2> QED
    BY <1>3, <2>2 DEF OpenMap
<1>4. CASE ReadLine
  <2>1. positions' \in Seq(Point)
    <3>1. line + 1 \in 1..Len(Log)
      BY <1>4, LogAssumption DEF ReadLine, PathInv
    <3>2. CASE Log[line + 1].command = "estimate"
      <4>1. Where(Log[line + 1]) \in Point
        BY <3>1, <3>2, LogPoints
      <4> QED
        BY <1>4, <3>2, <4>1, LineRead DEF AppendPosition
    <3>3. CASE Log[line + 1].command # "estimate"
      <4>1. positions' = <<>> \/ positions' = positions
        BY <1>4, <3>3, LineRead
      <4>2. positions \in Seq(Point) /\ <<>> \in Seq(Point)
        OBVIOUS
      <4> QED
        BY <4>1, <4>2
    <3> QED
      BY <3>2, <3>3
  <2> QED
    BY <1>4, <2>1 DEF ReadLine
<1>5. CASE ReadBadLine
  BY <1>5 DEF ReadBadLine
<1> QED
  BY <1>1, <1>2, <1>3, <1>4, <1>5 DEF MapLoop, Watcher

(* Steps of LatestPositionsMap.                                            *)
LEMMA ReadPicture ==
  ASSUME LatestMap \/ ReadHeader \/ LatestPositions, PictureInv
  PROVE  PictureInv'
<1> USE DEF PictureInv, MapOf
<1>1. CASE LatestMap
  BY <1>1 DEF LatestMap
<1>2. CASE ReadHeader
  BY <1>2 DEF ReadHeader
<1>3. CASE LatestPositions
  <2>1. PICK trail \in Slices(header, positions) :
          LET path == IF trail = Garbage THEN Garbage ELSE ConvertInto(MapRead, trail)
          IN result' = [map |-> reading.map, image |-> reading.image, trail |-> trail,
                        path |-> path, charger |-> First(path)]
    BY <1>3 DEF LatestPositions
  <2>2. MapOf(result')
    BY <1>3, <2>1 DEF LatestPositions
  <2>3. trail # Garbage => trail \in Seq(Point)
    <3>1. header \in Seq(Point) /\ positions \in Seq(Point)
      BY <1>3 DEF LatestPositions
    <3> QED
      BY <2>1, <3>1, MixtureOf, BeginningTyped
  <2>4. result'.trail = trail /\ (trail # Garbage => result'.path = ConvertInto(result'.map, trail))
    BY <2>1 DEF MapRead
  <2>5. UNCHANGED <<fileVars, mapVars, logVars, panicked>> /\ reading' = None /\ header' = None
    BY <1>3 DEF LatestPositions
  <2> QED
    BY <2>2, <2>3, <2>4, <2>5
<1> QED
  BY <1>1, <1>2, <1>3

-----------------------------------------------------------------------------
(* The path.                                                               *)

(* What the log's next line does to the moves.                             *)
LEMMA NextMoves ==
  ASSUME NEW n \in Nat
  PROVE  /\ Log[n + 1].command = "reset" => Moves(n + 1) = {}
         /\ Log[n + 1].command # "reset" =>
              Moves(n + 1) = Moves(n) \cup (IF IsMove(n + 1) THEN {n + 1} ELSE {})
<1>1. ASSUME Log[n + 1].command = "reset" PROVE Moves(n + 1) = {}
  <2> SUFFICES ASSUME NEW k \in Moves(n + 1) PROVE FALSE
    OBVIOUS
  <2>1. k \in 1..n + 1 /\ \A i \in k..n + 1 : Log[i].command # "reset"
    BY DEF Moves
  <2> QED
    BY <1>1, <2>1
<1>2. ASSUME Log[n + 1].command # "reset"
      PROVE  Moves(n + 1) = Moves(n) \cup (IF IsMove(n + 1) THEN {n + 1} ELSE {})
  <2>1. ASSUME NEW k \in 1..n
        PROVE  (\A i \in k..n + 1 : Log[i].command # "reset") <=>
               (\A i \in k..n : Log[i].command # "reset")
    BY <1>2
  <2>2. ASSUME NEW k \in Moves(n) PROVE k \in Moves(n + 1)
    BY <2>1, <2>2 DEF Moves
  <2>3. ASSUME NEW k \in Moves(n + 1), k # n + 1 PROVE k \in Moves(n)
    <3>1. k \in 1..n
      BY <2>3 DEF Moves
    <3> QED
      BY <2>1, <2>3, <3>1 DEF Moves
  <2>4. n + 1 \in Moves(n + 1) <=> IsMove(n + 1)
    <3>1. \A i \in n + 1..n + 1 : i = n + 1
      OBVIOUS
    <3> QED
      BY <1>2, <3>1 DEF Moves
  <2> QED
    BY <2>2, <2>3, <2>4
<1> QED
  BY <1>1, <1>2

(* An estimate is a move unless it is like the latest one.                 *)
LEMMA NextIsMove ==
  ASSUME NEW n \in Nat, Log[n + 1].command = "estimate",
         NEW k \in 1..n, Log[k].command = "estimate",
         \A i \in k + 1..n : Log[i].command \notin {"estimate", "reset"}
  PROVE  IsMove(n + 1) <=> Where(Log[k]) # Where(Log[n + 1])
<1>1. Follows(k, n + 1)
  BY DEF Follows
<1>2. ASSUME NEW j \in 1..n, Follows(j, n + 1) PROVE j = k
  <2>1. ~(j < k)
    BY <1>2 DEF Follows
  <2>2. ~(k < j)
    BY <1>2 DEF Follows
  <2> QED
    BY <2>1, <2>2
<1> QED
  BY <1>1, <1>2 DEF IsMove

(* Domains of sequences are intervals.                                     *)
LEMMA ShowsAllOf ==
  ASSUME NEW s \in Seq(Point), NEW moves
  PROVE  ShowsAll(s, moves) <=>
           \E at \in [1..Len(s) -> moves] :
             /\ \A i, j \in 1..Len(s) : i < j => at[i] < at[j]
             /\ \A i \in 1..Len(s) : s[i] = Where(Log[at[i]])
             /\ \A k \in moves : \E j \in 1..Len(s) : at[j] = k
<1>1. DOMAIN s = 1..Len(s)
  OBVIOUS
<1> QED
  BY <1>1, Zenon DEF ShowsAll

LEMMA ShowsOf ==
  ASSUME NEW s, NEW n, DOMAIN s = 1..n, NEW moves
  PROVE  Shows(s, moves) <=>
           \E at \in [1..n -> moves] :
             /\ \A i, j \in 1..n : i < j => at[i] < at[j]
             /\ \A i \in 1..n : s[i] = Where(Log[at[i]])
             /\ \A i \in 1..n, k \in moves : k < at[i] => \E j \in 1..n : at[j] = k
BY Zenon DEF Shows

(* The watcher's step keeps the slice and the moves together.              *)
LEMMA ReadLinePath ==
  ASSUME ReadLine, PathInv, positions \in Seq(Point)
  PROVE  PathInv'
<1>1. line \in Nat /\ line + 1 \in 1..Len(Log) /\ line' = line + 1 /\ UNCHANGED header
  BY LogAssumption DEF ReadLine, PathInv
<1>2. Len(positions) \in Nat /\ DOMAIN positions = 1..Len(positions)
  OBVIOUS
<1>3. header' # None => \E m \in 0..line' : ShowsAll(header', Moves(m))
  BY <1>1 DEF PathInv
<1>4. PICK at \in [1..Len(positions) -> Moves(line)] :
        /\ \A i, j \in 1..Len(positions) : i < j => at[i] < at[j]
        /\ \A i \in 1..Len(positions) : positions[i] = Where(Log[at[i]])
        /\ \A k \in Moves(line) : \E j \in 1..Len(positions) : at[j] = k
  BY ShowsAllOf DEF PathInv
<1>5. CASE Log[line + 1].command = "reset"
  <2>1. positions' = <<>> /\ Moves(line + 1) = {}
    BY <1>1, <1>5, LineRead, NextMoves
  <2>2. ShowsAll(<<>>, {})
    <3>1. <<>> \in Seq(Point) /\ Len(<<>>) = 0 /\ <<>> \in [1..0 -> {}] /\ 1..0 = {}
      OBVIOUS
    <3> QED
      BY <3>1, ShowsAllOf
  <2>3. \A k \in 1..line + 1 : ~Latest(k, line + 1)
    BY <1>1, <1>5 DEF Latest
  <2>4. ShowsAll(positions', Moves(line'))
    BY <1>1, <2>1, <2>2
  <2>5. ~(positions' # <<>>) /\ line' \in 0..Len(Log) /\ \A k \in 1..line' : ~Latest(k, line')
    BY <1>1, <2>1, <2>3
  <2> QED
    BY <1>3, <2>4, <2>5 DEF PathInv
<1>6. CASE Log[line + 1].command \notin {"estimate", "reset"}
  <2>1. positions' = positions /\ Moves(line + 1) = Moves(line)
    BY <1>1, <1>6, LineRead, NextMoves DEF IsMove
  <2>2. \A k \in 1..line + 1 : Latest(k, line + 1) <=> k \in 1..line /\ Latest(k, line)
    BY <1>1, <1>6 DEF Latest
  <2> QED
    BY <1>1, <1>3, <2>1, <2>2 DEF PathInv
<1>7. CASE Log[line + 1].command = "estimate"
  <2>1. Latest(line + 1, line + 1)
    BY <1>1, <1>7 DEF Latest
  <2>2. CASE positions # <<>> /\ Last(positions) = Where(Log[line + 1])
    <3>1. positions' = positions
      BY <1>7, <2>2, LineRead DEF AppendPosition
    <3>2. ~IsMove(line + 1)
      BY <1>1, <1>7, <2>2, NextIsMove DEF PathInv, Latest
    <3>3. Moves(line + 1) = Moves(line)
      BY <1>1, <1>7, <3>2, NextMoves
    <3>4. line + 1 \in 1..line'
      BY <1>1
    <3> QED
      BY <1>1, <1>3, <2>1, <2>2, <3>1, <3>3, <3>4 DEF PathInv
  <2>3. CASE ~(positions # <<>> /\ Last(positions) = Where(Log[line + 1]))
    <3>1. positions' = Append(positions, Where(Log[line + 1]))
      BY <1>7, <2>3, LineRead DEF AppendPosition
    <3>2. IsMove(line + 1)
      <4>1. CASE positions = <<>>
        BY <1>1, <1>7, <4>1 DEF PathInv, Latest, IsMove, Follows
      <4>2. CASE positions # <<>>
        BY <1>1, <1>7, <2>3, <4>2, NextIsMove DEF PathInv, Latest
      <4> QED
        BY <4>1, <4>2
    <3>3. Moves(line + 1) = Moves(line) \cup {line + 1}
      BY <1>1, <1>7, <3>2, NextMoves
    <3>4. \A k \in Moves(line) : k \in Int /\ k < line + 1
      BY <1>1 DEF Moves
    <3>5. ShowsAll(positions', Moves(line + 1))
      <4> DEFINE len == Len(positions)
                 now == [i \in 1..len + 1 |-> IF i = len + 1 THEN line + 1 ELSE at[i]]
      <4>1. Len(positions') = len + 1 /\ DOMAIN positions' = 1..len + 1
        BY <1>2, <3>1
      <4>2. now \in [1..len + 1 -> Moves(line + 1)]
        BY <1>2, <3>3
      <4>3. \A i, j \in 1..len + 1 : i < j => now[i] < now[j]
        <5> SUFFICES ASSUME NEW i \in 1..len + 1, NEW j \in 1..len + 1, i < j
                     PROVE  now[i] < now[j]
          OBVIOUS
        <5>1. i \in 1..len /\ at[i] \in Moves(line) /\ now[i] = at[i]
          BY <1>2
        <5>2. CASE j = len + 1
          BY <1>2, <3>4, <5>1, <5>2
        <5>3. CASE j # len + 1
          BY <1>2, <1>4, <5>1, <5>3
        <5> QED
          BY <5>2, <5>3
      <4>4. \A i \in 1..len + 1 : positions'[i] = Where(Log[now[i]])
        BY <1>2, <1>4, <3>1
      <4>5. \A k \in Moves(line + 1) : \E j \in 1..len + 1 : now[j] = k
        <5> SUFFICES ASSUME NEW k \in Moves(line + 1)
                     PROVE  \E j \in 1..len + 1 : now[j] = k
          OBVIOUS
        <5>1. CASE k = line + 1
          BY <1>2, <5>1
        <5>2. CASE k \in Moves(line)
          <6>1. PICK j \in 1..len : at[j] = k
            BY <1>4, <5>2
          <6>2. now[j] = k /\ j \in 1..len + 1
            BY <1>2, <6>1
          <6> QED
            BY <6>2
        <5> QED
          BY <3>3, <5>1, <5>2
      <4>6. positions' \in Seq(Point)
        <5>1. Where(Log[line + 1]) \in Point
          BY <1>1, <1>7, LogPoints
        <5> QED
          BY <3>1, <5>1
      <4> HIDE DEF now
      <4> QED
        BY <4>1, <4>2, <4>3, <4>4, <4>5, <4>6, ShowsAllOf
    <3>6. positions' # <<>> /\ Last(positions') = Where(Log[line + 1])
      BY <1>2, <3>1 DEF Last
    <3>7. line + 1 \in 1..line'
      BY <1>1
    <3> QED
      BY <1>1, <1>3, <2>1, <3>5, <3>6, <3>7 DEF PathInv
  <2> QED
    BY <2>2, <2>3
<1> QED
  BY <1>5, <1>6, <1>7

(* The path returned is a beginning of one of the slices.                  *)
LEMMA BeginningShows ==
  ASSUME NEW data \in Seq(Point), NEW moves, moves \subseteq Int, ShowsAll(data, moves),
         NEW n \in 0..Len(data)
  PROVE  Shows(SubSeq(data, 1, n), moves)
<1> DEFINE trail == SubSeq(data, 1, n)
<1>1. Len(data) \in Nat /\ DOMAIN data = 1..Len(data)
  OBVIOUS
<1>2. PICK at \in [1..Len(data) -> moves] :
        /\ \A i, j \in 1..Len(data) : i < j => at[i] < at[j]
        /\ \A i \in 1..Len(data) : data[i] = Where(Log[at[i]])
        /\ \A k \in moves : \E j \in 1..Len(data) : at[j] = k
  BY ShowsAllOf
<1>3. DOMAIN trail = 1..n /\ \A i \in 1..n : trail[i] = data[i]
  BY BeginningTyped
<1> DEFINE part == [i \in 1..n |-> at[i]]
<1>4. \A i \in 1..n : i \in 1..Len(data) /\ part[i] = at[i] /\ at[i] \in moves
  BY <1>1
<1>5. ASSUME NEW i \in 1..n, NEW k \in moves, k < part[i]
      PROVE  \E j \in 1..n : part[j] = k
  <2>1. PICK j \in 1..Len(data) : at[j] = k
    BY <1>2
  <2>2. ~(i < j) /\ i # j
    <3>1. at[i] \in Int /\ at[j] \in Int /\ at[j] < at[i] /\ i \in 1..Len(data)
      BY <1>4, <1>5, <2>1
    <3> QED
      BY <1>2, <3>1
  <2>3. j \in 1..n
    BY <1>1, <2>2
  <2> QED
    BY <2>1, <2>3
<1>6. part \in [1..n -> moves]
  BY <1>4
<1>7. \A i, j \in 1..n : i < j => part[i] < part[j]
  BY <1>2, <1>4
<1>8. \A i \in 1..n : trail[i] = Where(Log[part[i]])
  BY <1>2, <1>3, <1>4
<1> HIDE DEF part
<1> QED
  BY <1>3, <1>5, <1>6, <1>7, <1>8, ShowsOf

LEMMA MovesNumbers ==
  ASSUME NEW n \in Nat
  PROVE  Moves(n) \subseteq Int
BY DEF Moves

(* Whatever step is made, the path returned is real.                       *)
LEMMA PathStep ==
  ASSUME [Next]_vars, PictureInv, PathInv, PathReal
  PROVE  PathInv' /\ PathReal'
<1>1. CASE ReadLine /\ UNCHANGED statusVars
  <2>1. PathInv'
    BY <1>1, ReadLinePath DEF PictureInv
  <2>2. line \in Nat /\ line' = line + 1 /\ UNCHANGED result
    BY <1>1, LogAssumption DEF ReadLine, PathInv
  <2>3. \A n \in 0..line : n \in 0..line'
    BY <2>2
  <2> QED
    BY <2>1, <2>2, <2>3 DEF PathReal
<1>2. CASE ReadHeader
  <2>1. UNCHANGED <<positions, line, result>> /\ header' = positions
    BY <1>2 DEF ReadHeader
  <2>2. line \in 0..line
    BY LogAssumption DEF PathInv
  <2> QED
    BY <2>1, <2>2 DEF PathInv, PathReal
<1>3. CASE LatestPositions
  <2>1. UNCHANGED <<positions, line>> /\ header' = None /\ header # None
    BY <1>3 DEF LatestPositions
  <2>2. PathInv'
    BY <2>1 DEF PathInv
  <2>3. header \in Seq(Point) /\ positions \in Seq(Point)
    BY <2>1 DEF PictureInv
  <2>4. ASSUME result'.trail # Garbage
        PROVE  \E n \in 0..line : Shows(result'.trail, Moves(n))
    <3>1. result'.trail \in Slices(header, positions)
      BY <1>3 DEF LatestPositions
    <3>2. PICK data \in {header, positions} : \E k \in 0..Len(data) : result'.trail = SubSeq(data, 1, k)
      BY <2>3, <2>4, <3>1, MixtureOf
    <3>3. PICK n \in 0..line : ShowsAll(data, Moves(n))
      <4>1. line \in 0..line
        BY LogAssumption DEF PathInv
      <4> QED
        BY <2>1, <4>1 DEF PathInv
    <3>4. Moves(n) \subseteq Int /\ data \in Seq(Point)
      BY <2>3, MovesNumbers
    <3> QED
      BY <3>2, <3>3, <3>4, BeginningShows
  <2> QED
    BY <2>1, <2>2, <2>4 DEF PathReal
<1>4. CASE LocalGetStatus
  <2>1. UNCHANGED <<positions, line, header>> /\ result' = None
    BY <1>4 DEF LocalGetStatus
  <2> QED
    BY <2>1 DEF PathInv, PathReal
<1>5. CASE UNCHANGED <<positions, line, header, result>>
  BY <1>5 DEF PathInv, PathReal
<1> QED
  <2>1. CASE Nav
    BY <1>1, <1>5, <2>1 DEF Nav, Firmware, MapLoop, Watcher, BeginFile, EndFile, RemoveFile, Change,
         LookupMaps, OpenMap, ReadBadLine
  <2>2. CASE Loop
    <3>1. CASE LookAtMap
      BY <1>5, <3>1 DEF LookAtMap, LatestMap
    <3>2. CASE TakePositions
      BY <1>2, <1>3, <3>2 DEF TakePositions
    <3>3. CASE DeviceReady \/ GetInternalInfo \/ Vacuum \/ Select
      BY <1>5, <3>3 DEF DeviceReady, GetInternalInfo, Vacuum, Select, Publish, GetVacuum,
           CreateVacuum, UpdateVacuum
    <3> QED
      BY <1>4, <2>2, <3>1, <3>2, <3>3 DEF Loop, Poll
  <2>3. CASE Server \/ Report \/ UNCHANGED vars
    BY <1>5, <2>3 DEF Server, MakeClient, Edit, DeleteVacuum, Report
  <2> QED
    BY <2>1, <2>2, <2>3 DEF Next

LEMMA PictureStep ==
  ASSUME [Next]_vars, PictureInv, PathInv
  PROVE  PictureInv'
<1>1. CASE LocalGetStatus
  BY <1>1 DEF LocalGetStatus, PictureInv, MapOf
<1>2. CASE UNCHANGED <<fileVars, mapVars, logVars, readVars>>
  BY <1>2 DEF PictureInv, MapOf
<1> QED
  <2>1. CASE Nav
    BY <2>1, NavPicture DEF Nav
  <2>2. CASE Loop
    <3>1. CASE LookAtMap \/ TakePositions
      BY <1>2, <3>1, ReadPicture DEF LookAtMap, TakePositions
    <3>2. CASE DeviceReady \/ GetInternalInfo \/ Vacuum \/ Select
      BY <1>2, <3>2 DEF DeviceReady, GetInternalInfo, Vacuum, Select, Publish, GetVacuum,
           CreateVacuum, UpdateVacuum
    <3> QED
      BY <1>1, <2>2, <3>1, <3>2 DEF Loop, Poll
  <2>3. CASE Server \/ Report \/ UNCHANGED vars
    BY <1>2, <2>3 DEF Server, MakeClient, Edit, DeleteVacuum, Report
  <2> QED
    BY <2>1, <2>2, <2>3 DEF Next

LEMMA MapsInit == Init => PictureInv /\ PathInv /\ PathReal
<1> SUFFICES ASSUME Init PROVE PictureInv /\ PathInv /\ PathReal
  OBVIOUS
<1>1. PictureInv
  BY NavMapAssumption DEF Init, NavInit, PictureInv
<1>2. PathInv
  <2>1. positions = <<>> /\ line = 0 /\ header = None /\ Len(Log) \in Nat
    BY LogAssumption DEF Init, NavInit
  <2>2. <<>> \in Seq(Point) /\ Len(<<>>) = 0 /\ <<>> \in [1..0 -> {}] /\ 1..0 = {}
    OBVIOUS
  <2>3. Moves(0) = {}
    BY DEF Moves
  <2>4. ShowsAll(positions, Moves(line))
    BY <2>1, <2>2, <2>3, ShowsAllOf
  <2>5. \A k \in 1..line : FALSE
    BY <2>1
  <2> QED
    BY <2>1, <2>4, <2>5 DEF PathInv
<1>3. PathReal
  BY DEF Init, NavInit, PathReal
<1> QED
  BY <1>1, <1>2, <1>3

(* The path returned with a map is where the robot has been, whenever the  *)
(* watcher assigns the slice that is being read (navmap.go:360, 393).      *)
THEOREM PathIsReal == Spec => []PathReal
<1>1. PictureInv /\ PathInv /\ PathReal /\ [Next]_vars => (PictureInv /\ PathInv /\ PathReal)'
  BY PictureStep, PathStep
<1> QED
  BY <1>1, MapsInit, PTL DEF Spec

(* A point of the path is on the picture where the robot was in the used   *)
(* area, at the pixel the map file has there, though the latest map        *)
(* changes meanwhile (navmap.go:139, 396).                                 *)
THEOREM PathOnPicture == Spec => []OnPicture
<1>1. PictureInv /\ PathInv /\ PathReal /\ [Next]_vars => (PictureInv /\ PathInv /\ PathReal)'
  BY PictureStep, PathStep
<1>2. PictureInv => OnPicture
  <2> SUFFICES ASSUME PictureInv, result # None, result.trail # Garbage, NEW i \in DOMAIN result.trail
               PROVE  LET full == result.trail[i]
                          xy == <<result.path[i].x, result.path[i].y>>
                      IN IF Within(Area(result.image), full)
                           THEN xy \in DOMAIN result.map.data
                                /\ result.map.data[xy] = Recolour(result.image[<<full.x, full.y>>])
                           ELSE xy \notin DOMAIN result.map.data
    BY DEF OnPicture
  <2>1. result.image \in Images /\ result.map = NewMap(result.image)
    BY DEF PictureInv, MapOf
  <2>2. result.trail[i] \in Point
    BY DEF PictureInv
  <2>3. /\ result.path[i].x = result.trail[i].x - result.map.left
        /\ result.path[i].y = result.trail[i].y - result.map.top
    BY DEF PictureInv, ConvertInto
  <2> QED
    BY <2>1, <2>2, <2>3, PointOnPicture
<1> QED
  BY <1>1, <1>2, MapsInit, PTL DEF Spec
=============================================================================
