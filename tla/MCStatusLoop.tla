---------------------------- MODULE MCStatusLoop ----------------------------
(* StatusLoop for TLC: pictures of four by three pixels whose used areas   *)
(* begin at different corners, and a walk with a halt, a short estimate    *)
(* and a reset.                                                            *)
EXTENDS StatusLoop

Position(x, y) == [x |-> x, y |-> y]
Estimate(x, y) == [command |-> "estimate", at |-> Position(x, y)]

Image(rows) == [xy \in (0..3) \X (0..2) |-> rows[xy[2] + 1][xy[1] + 1]]
NarrowImage ==
  Image(<< <<"grey", "grey", "grey",  "grey">>,
           <<"grey", "grey", "white", "black">>,
           <<"grey", "grey", "black", "special">> >>)
WideImage ==
  Image(<< <<"black", "white", "black", "grey">>,
           <<"black", "black", "white", "grey">>,
           <<"grey",  "black", "black", "grey">> >>)
MCImages == {NarrowImage, WideImage}

ShortEstimate == [command |-> "estimate", at |-> None]

MCLog == << Estimate(2, 1), Estimate(2, 1), ShortEstimate, [command |-> "reset"], Estimate(1, 1) >>

MCStateHash == 5 :> "Cleaning"

MCRobots == {[code |-> 5, map |-> TRUE], [code |-> 99, map |-> FALSE]}

(* Either the map files change, or others write and calls fail.            *)
MCInit ==
  /\ Init /\ robot.map
  /\ files[2] = None
  /\ \/ faults = MaxFaults /\ changes = 0 /\ obj = None
     \/ faults = 0 /\ changes = MaxChanges
  /\ files[1] = None => faults = 0
  /\ files[1] # None => files[1].image = NarrowImage
MCSpec == MCInit /\ [][Next]_vars /\ Fairness
=============================================================================
