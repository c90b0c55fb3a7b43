-------------------------------- MODULE NavMap ------------------------------
(***************************************************************************)
(* Navigation maps (pkg/navmap/navmap.go): the loop that looks for the     *)
(* newest map file, the watcher that collects the robot's positions from   *)
(* the SLAM log, and LatestPositionsMap, which the status loop calls to    *)
(* put the two together.  The firmware writes maps and log.                *)
(*                                                                         *)
(* The lookup takes the times of all files in one step; a file may change  *)
(* before it is opened.  LatestPositionsMap reads the header of the slice  *)
(* of positions, its data and its length, without the lock: when the       *)
(* watcher assigns it meanwhile, the two may be of different slices.       *)
(***************************************************************************)
EXTENDS Integers, Sequences, SequencesExt, FiniteSetsExt

CONSTANTS
  Files,       \* paths of map files, ordered as Glob sorts them: numbers
  Images,      \* contents of map files that can be decoded
  Log,         \* the lines of the SLAM log
  MaxChanges,  \* bound: changes of map files
  BadLines,    \* the log may have a malformed line
  Garbage,     \* what lies behind the end of a slice
  None         \* no file, no map, no slice

Partial == <<>>     \* the content of a file that is being written

ASSUME NavMapAssumption ==
  /\ Files \subseteq Nat /\ MaxChanges \in Nat
  /\ Partial \notin Images /\ BadLines \in BOOLEAN

Point == [x : Int, y : Int]

(* The lines that parseSlamLine does not refuse: an estimate may be too    *)
(* short to tell a position.  Lines of other kinds are of any form.        *)
ASSUME LogAssumption ==
  /\ Log \in Seq(ToSet(Log))
  /\ \A l \in ToSet(Log) : l.command = "estimate" => l.at \in Point \cup {None}

VARIABLES
  files,      \* the map files: time and content
  changes,    \* changes so far, the clock of the file system
  lookup,     \* the file the map loop is about to open
  latestMap,  \* latestMap
  positions,  \* positions
  line,       \* lines of the log the watcher has read
  reading,    \* where LatestPositionsMap stands
  header,     \* the slice when half of its header has been read
  result,     \* what LatestPositionsMap returned
  panicked    \* a goroutine panicked, which ends the process

fileVars == <<files, changes>>
mapVars  == <<lookup, latestMap>>
logVars  == <<positions, line>>
readVars == <<reading, header, result>>
navVars  == <<fileVars, mapVars, logVars, readVars, panicked>>

NavInit ==
  /\ files \in [Files -> {None} \cup [mtime : {0}, image : Images]] /\ changes \in 0..MaxChanges
  /\ lookup = None /\ latestMap = None
  /\ positions = <<>> /\ line = 0
  /\ reading = None /\ header = None /\ result = None /\ panicked = FALSE

-----------------------------------------------------------------------------
(* NewMap.  An image is a function from pixels to shades of the map file;  *)
(* white is floor, black is wall and grey is unknown.                      *)

Recolour(shade) == CASE shade = "grey"  -> "unknown" [] shade = "white" -> "inside"
                     [] shade = "black" -> "wall"    [] OTHER -> shade

Used(image)   == {xy \in DOMAIN image : image[xy] # "grey"}
Column(xy)    == xy[1]
Row(xy)       == xy[2]
Width(image)  == Max({Column(xy) : xy \in DOMAIN image}) + 1
Height(image) == Max({Row(xy) : xy \in DOMAIN image}) + 1

ASSUME ImageAssumption ==
  \A image \in Images :
    /\ {Width(image), Height(image)} \subseteq Nat
    /\ DOMAIN image = (0..Width(image) - 1) \X (0..Height(image) - 1)

(* The bounds of the used area start from the opposite bounds of the image *)
(* and end before the last used column and row.                            *)
Area(image) ==
  LET xs == {Column(xy) : xy \in Used(image)}
      ys == {Row(xy) : xy \in Used(image)}
  IN [left |-> Min(xs \cup {Width(image)}), right |-> Max(xs \cup {0}),
      top |-> Min(ys \cup {Height(image)}), bottom |-> Max(ys \cup {0})]

(* An empty picture has no PNG.                                            *)
Convertible(image) ==
  /\ image # Partial
  /\ Area(image).left < Area(image).right /\ Area(image).top < Area(image).bottom

(* The picture is encoded: its pixels count from its own corner.           *)
Picture(image, a, origin) ==
  [left |-> origin[1], top |-> origin[2],
   data |-> [xy \in (0..a.right - a.left - 1) \X (0..a.bottom - a.top - 1) |->
               Recolour(image[<<xy[1] + a.left, xy[2] + a.top>>])]]

NewMapUnmoved(image) ==     \* variant: the origin of the area is not recorded
  Picture(image, Area(image), <<0, 0>>)
NewMap(image) ==
  Picture(image, Area(image), <<Area(image).left, Area(image).top>>)

-----------------------------------------------------------------------------
(* The firmware (external) writes map files in two steps and removes them. *)

Change(f, content) ==
  /\ changes < MaxChanges
  /\ changes' = changes + 1
  /\ files' = [files EXCEPT ![f] = content]
  /\ UNCHANGED <<mapVars, logVars, readVars, panicked>>

BeginFile(f) == Change(f, [mtime |-> changes + 1, image |-> Partial])
EndFile(f) ==
  /\ files[f] # None /\ files[f].image = Partial
  /\ \E i \in Images : Change(f, [mtime |-> changes + 1, image |-> i])
RemoveFile(f) == files[f] # None /\ Change(f, None)

-----------------------------------------------------------------------------
(* lookupMaps, every 200 ms: the newest file, of several the last one.     *)

Present == {f \in Files : files[f] # None}
IsNewest(f) ==
  \A g \in Present :
    files[g].mtime < files[f].mtime \/ (files[g].mtime = files[f].mtime /\ g <= f)

SamePath(f, mtime) ==   \* variant: a file is known by its path
  latestMap # None /\ latestMap.path = f
Known(f, mtime) == latestMap # None /\ latestMap.path = f /\ latestMap.mtime = mtime

LookupMaps ==
  /\ lookup = None
  /\ \E f \in Present :
       /\ IsNewest(f) /\ ~Known(f, files[f].mtime)
       /\ lookup' = [path |-> f, mtime |-> files[f].mtime]
  /\ UNCHANGED <<fileVars, latestMap, logVars, readVars, panicked>>

(* A file that is gone or cannot be decoded leaves the map as it is.       *)
OpenMap ==
  /\ lookup # None
  /\ lookup' = None
  /\ LET file == files[lookup.path] IN
       latestMap' = IF file # None /\ Convertible(file.image)
         THEN [path |-> lookup.path, mtime |-> lookup.mtime, image |-> file.image,
               map |-> NewMap(file.image)]
         ELSE latestMap
  /\ UNCHANGED <<fileVars, logVars, readVars, panicked>>

-----------------------------------------------------------------------------
(* watchSlamLog: an estimate is appended unless the robot stands still, a  *)
(* reset starts anew.  Lines of other kinds are read and ignored.          *)

(* The coordinates of a short estimate stay zero, which is the centre of   *)
(* the image.                                                              *)
Origin   == [x |-> 512, y |-> 512]
Where(l) == IF l.at = None THEN Origin ELSE l.at

AppendAlways(p) ==      \* variant: a robot at rest is recorded, too
  positions' = Append(positions, p)
AppendPosition(p) ==
  positions' = IF positions # <<>> /\ Last(positions) = p THEN positions ELSE Append(positions, p)

ReadLine ==
  /\ line < Len(Log)
  /\ line' = line + 1
  /\ LET l == Log[line + 1] IN
       CASE l.command = "estimate" -> AppendPosition(Where(l))
         [] l.command = "reset" -> positions' = <<>>
         [] OTHER -> UNCHANGED positions
  /\ UNCHANGED <<fileVars, mapVars, readVars, panicked>>

(* parseSlamLine returns nil for a line of one field and for one with a    *)
(* number it cannot parse; the watcher dereferences it.                    *)
ReadBadLine ==
  /\ BadLines /\ panicked' = TRUE
  /\ UNCHANGED <<fileVars, mapVars, logVars, readVars>>

-----------------------------------------------------------------------------
(* LatestPositionsMap: the map under its lock, then the positions.         *)

LatestMap ==
  /\ reading = None /\ latestMap # None
  /\ reading' = [map |-> latestMap.map, image |-> latestMap.image]
  /\ UNCHANGED <<fileVars, mapVars, logVars, header, result, panicked>>

ReadHeader ==
  /\ reading # None /\ header = None
  /\ header' = positions
  /\ UNCHANGED <<fileVars, mapVars, logVars, reading, result, panicked>>

(* The data of the one slice and the length of the other.                  *)
Mixture(data, length) ==
  IF length <= Len(data) THEN SubSeq(data, 1, length) ELSE Garbage
Slices(one, other) == {Mixture(data, Len(sized)) : data, sized \in {one, other}}

ConvertInto(m, trail) ==
  [i \in DOMAIN trail |-> [x |-> trail[i].x - m.left, y |-> trail[i].y - m.top]]

MapNow  == latestMap.map    \* variant: the map is looked up once more
MapRead == reading.map

(* The charger is taken to be at the first position.                       *)
First(path) == IF path = Garbage THEN Garbage ELSE IF path = <<>> THEN None ELSE Head(path)

LatestPositions ==
  /\ reading # None /\ header # None
  /\ \E trail \in Slices(header, positions) :
       LET path == IF trail = Garbage THEN Garbage ELSE ConvertInto(MapRead, trail)
       IN result' = [map |-> reading.map, image |-> reading.image, trail |-> trail,
                     path |-> path, charger |-> First(path)]
  /\ reading' = None /\ header' = None
  /\ UNCHANGED <<fileVars, mapVars, logVars, panicked>>

-----------------------------------------------------------------------------
Firmware == ~panicked /\ \E f \in Files : BeginFile(f) \/ EndFile(f) \/ RemoveFile(f)
MapLoop  == ~panicked /\ (LookupMaps \/ OpenMap)
Watcher  == ~panicked /\ (ReadLine \/ ReadBadLine)
ReadMap  == ~panicked /\ (ReadHeader \/ LatestPositions)

-----------------------------------------------------------------------------
(* Properties.                                                             *)

(* The newest file, once it is at rest and if it can be converted, becomes *)
(* the latest map, though files change between the lookup and the opening  *)
(* and a file may be found half written (navmap.go:278, 283).              *)
Shown ==
  \A f \in Present : IsNewest(f) /\ Convertible(files[f].image) =>
    Known(f, files[f].mtime) /\ latestMap.image = files[f].image
MapCatchesUp == <>[](Shown \/ panicked)

(* A path that is no memory behind a slice is where the robot has been:    *)
(* the beginning of its moves since a reset, as of one moment; an estimate *)
(* like the one before is no move.  A short estimate counts as a move to   *)
(* the origin, where the robot need not have been: the path of the code    *)
(* does show that point (navmap.go:360, 393, 473, 516).                    *)
Follows(j, k) ==
  /\ Log[j].command = "estimate" /\ Log[k].command = "estimate"
  /\ \A i \in j + 1..k - 1 : Log[i].command \notin {"estimate", "reset"}
IsMove(k) ==
  /\ Log[k].command = "estimate"
  /\ \A j \in 1..k - 1 : Follows(j, k) => Where(Log[j]) # Where(Log[k])
Moves(n) == {k \in 1..n : IsMove(k) /\ \A i \in k..n : Log[i].command # "reset"}
Shows(trail, moves) ==      \* the first ones of these moves
  \E at \in [DOMAIN trail -> moves] :
    /\ \A i, j \in DOMAIN trail : i < j => at[i] < at[j]
    /\ \A i \in DOMAIN trail : trail[i] = Where(Log[at[i]])
    /\ \A i \in DOMAIN trail, k \in moves : k < at[i] => \E j \in DOMAIN trail : at[j] = k
PathReal ==
  result # None /\ result.trail # Garbage => \E n \in 0..line : Shows(result.trail, Moves(n))

(* A point of a path is on the picture it is returned with if the robot    *)
(* was in the used area, at the pixel the map file has there, though the   *)
(* latest map changes while the path is put together (navmap.go:139, 396). *)
Within(a, p) == p.x \in a.left..a.right - 1 /\ p.y \in a.top..a.bottom - 1
OnPicture ==
  result # None /\ result.trail # Garbage =>
    \A i \in DOMAIN result.trail :
      LET full == result.trail[i]
          xy == <<result.path[i].x, result.path[i].y>>
      IN IF Within(Area(result.image), full)
           THEN xy \in DOMAIN result.map.data
                /\ result.map.data[xy] = Recolour(result.image[<<full.x, full.y>>])
           ELSE xy \notin DOMAIN result.map.data

(* What the two goroutines keep: a map that has been read is that of an    *)
(* image that can be converted, though its file is being written again.    *)
MapOf(m) == m.image \in Images /\ Convertible(m.image) /\ m.map = NewMap(m.image)
PictureInv ==
  /\ files \in [Files -> {None} \cup [mtime : Nat, image : Images \cup {Partial}]]
  /\ changes \in Nat
  /\ lookup # None => lookup.path \in Files
  /\ latestMap # None => MapOf(latestMap)
  /\ reading # None => MapOf(reading)
  /\ result # None => MapOf(result)
  /\ positions \in Seq(Point)
  /\ header # None => header \in Seq(Point)
  /\ result # None /\ result.trail # Garbage =>
       result.trail \in Seq(Point) /\ result.path = ConvertInto(result.map, result.trail)

(* A slice shows all moves of its moment; where the robot was last is the  *)
(* latest estimate since the reset, which is none if the slice is empty.   *)
ShowsAll(trail, moves) ==
  \E at \in [DOMAIN trail -> moves] :
    /\ \A i, j \in DOMAIN trail : i < j => at[i] < at[j]
    /\ \A i \in DOMAIN trail : trail[i] = Where(Log[at[i]])
    /\ \A k \in moves : \E j \in DOMAIN trail : at[j] = k
Latest(k, n) ==
  /\ Log[k].command = "estimate"
  /\ \A i \in k + 1..n : Log[i].command \notin {"estimate", "reset"}
PathInv ==
  /\ line \in 0..Len(Log)
  /\ ShowsAll(positions, Moves(line))
  /\ positions = <<>> => \A k \in 1..line : ~Latest(k, line)
  /\ positions # <<>> => \E k \in 1..line : Latest(k, line) /\ Where(Log[k]) = Last(positions)
  /\ header # None => \E n \in 0..line : ShowsAll(header, Moves(n))
=============================================================================
