---------------------------- MODULE RobotDatabase ---------------------------
(***************************************************************************)
(* What pkg/navmap/robotdb.go makes of the robot's database of cleanings:  *)
(* a list of records, and a list of maps that belong to records by their   *)
(* time of begin.  A map is a gzipped stream of blocks: the charger's      *)
(* position (type 1), the cells (2), the path (3) and others.  A stream    *)
(* that ends inside a block has the block Cut there.                       *)
(*                                                                         *)
(* The robot measures in millimetres, Cell of which make a cell; positions *)
(* in the picture, floats in the code, are numbers of Cell-th pixels here. *)
(***************************************************************************)
EXTENDS Integers, Sequences, SequencesExt

Cell  == 50
Cut   == [type |-> 0]
NoMap == [top |-> 0, left |-> 0, height |-> 0, width |-> 0, image |-> <<>>]
Fail  == [ok |-> FALSE]

(* The colour of a byte; white lies above, unknown is transparent.         *)
Colour(b) == CASE b = 1 -> "wall" [] b = 255 -> "inside" [] b = 0 -> "unknown" [] OTHER -> "grey"

-----------------------------------------------------------------------------
(* The cells are stored row by row from the bottom; bytes that are missing *)
(* leave their pixels transparent.  Heights and widths are those whose     *)
(* product does not wrap at 32 bits.                                       *)
Pixel(b, pos) == <<pos % b.width, b.height - ((pos \div b.width) + 1)>>

drawMap(b) ==
  LET stored == (0..b.height * b.width - 1) \cap (0..Len(b.data) - 1)
      byte(xy) == {b.data[pos + 1] : pos \in {p \in stored : Pixel(b, p) = xy}}
  IN [top |-> b.top, left |-> b.left, height |-> b.height, width |-> b.width,
      image |-> [xy \in (0..b.width - 1) \X (0..b.height - 1) |->
                   IF byte(xy) = {} THEN "unknown" ELSE Colour(CHOOSE c \in byte(xy) : TRUE)]]

(* The length counts one point more than are read: the header takes the    *)
(* first one for the size of the picture.                                  *)
parsePath(b) == SubSeq(b.points, 1, b.length - 1)

PositionUnflipped(m, p) ==  \* variant: the vertical axis is kept
  [x |-> p.x - Cell * m.left, y |-> p.y - Cell * m.top]
positionInMapDimensions(m, p) ==
  [x |-> p.x - Cell * m.left, y |-> Cell * m.height - p.y + Cell * m.top]

(* Readable is what ends a block loop with an error when it does not hold. *)
Readable(b) ==
  CASE b.type = 0 -> FALSE
    [] b.type = 2 -> b.width > 0 /\ b.height > 0
    [] b.type = 3 -> b.length - 1 <= Len(b.points)
    [] OTHER -> TRUE

LastOf(blocks, type) == SelectLastInSeq(blocks, LAMBDA b : b.type = type)

(* The charger and the path are placed when all blocks are read, so a map  *)
(* may follow them.  What the stream lacks the cleaning keeps.             *)
ConvertMap(blocks, cleaning) ==
  LET charger == LastOf(blocks, 1)
      cells   == LastOf(blocks, 2)
      path    == LastOf(blocks, 3)
      m       == IF cells = 0 THEN cleaning.map ELSE drawMap(blocks[cells])
      place(p) == positionInMapDimensions(m, p)
  IN IF (\E i \in DOMAIN blocks : ~Readable(blocks[i])) \/ m = NoMap
       THEN Fail
       ELSE [ok |-> TRUE,
             cleaning |-> [cleaning EXCEPT
               !.map = m,
               !.path = IF path = 0 THEN @ ELSE
                  LET points == parsePath(blocks[path])
                  IN [i \in DOMAIN points |-> place(points[i])],
               !.charger = IF charger = 0 THEN @ ELSE <<place(blocks[charger].at)>>]]

(* Numbers in blocks are unsigned.                                         *)
WellTyped(b) ==
  /\ b.type = 1 => b.at \in [x : Nat, y : Nat]
  /\ b.type = 2 => {b.top, b.left, b.height, b.width} \subseteq Nat /\ b.data \in Seq(0..255)
  /\ b.type = 3 => b.length \in Nat /\ b.points \in Seq([x : Nat, y : Nat])

-----------------------------------------------------------------------------
(* A map goes to the last record that began when it did; one without a     *)
(* record is skipped before it is converted.  The first map that cannot be *)
(* read makes the whole list fail.                                         *)
Unmapped(r) == [name |-> r.begin, complete |-> r.complete = 1,
                map |-> NoMap, path |-> <<>>, charger |-> <<>>]

IndexOf(begin, list) == SelectLastInSeq(list, LAMBDA c : c.name = begin)

AddMap(list, m) ==
  LET i == IndexOf(m.begin, list)
      c == ConvertMap(m.blocks, list[i])
  IN IF ~m.gzip THEN Fail
     ELSE IF i = 0 THEN [ok |-> TRUE, list |-> list]
     ELSE IF ~c.ok THEN Fail
     ELSE [ok |-> TRUE, list |-> [list EXCEPT ![i] = c.cleaning]]

AddTo(acc, m) == IF acc.ok THEN AddMap(acc.list, m) ELSE acc

(* What the list is after the first n maps.                                *)
Lists(db) ==
  LET after[n \in 0..Len(db.maps)] ==
        IF n = 0
          THEN [ok |-> TRUE, list |-> [i \in DOMAIN db.records |-> Unmapped(db.records[i])]]
          ELSE AddTo(after[n - 1], db.maps[n])
  IN after

ListCleanings(db) == Lists(db)[Len(db.maps)]
=============================================================================
