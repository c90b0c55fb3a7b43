----------------------------- MODULE MCKubeLoop -----------------------------
(* KubeLoop for TLC: databases of two records.  The first has two maps for *)
(* the first record, the last one of three by two cells with a path that   *)
(* leaves it.  In the second both records are of the same time.            *)
EXTENDS KubeLoop

Record(begin) == [begin |-> begin, complete |-> 1]

Cells   == [type |-> 2, top |-> 1, left |-> 2, height |-> 3, width |-> 2,
            data |-> <<1, 255, 255, 9, 0, 255>>]
Path    == [type |-> 3, length |-> 5,
            points |-> <<[x |-> 110, y |-> 60], [x |-> 199, y |-> 120], [x |-> 120, y |-> 199],
                         [x |-> 220, y |-> 70]>>]
Earlier == [type |-> 2, top |-> 2, left |-> 2, height |-> 1, width |-> 3, data |-> <<1, 1, 1>>]
Charger == [type |-> 1, at |-> [x |-> 160, y |-> 70]]
Other   == [type |-> 8]

Row(begin, blocks) == [begin |-> begin, gzip |-> TRUE, blocks |-> blocks]

(* Maps in other orders of blocks than the table; an unmatched map; a      *)
(* stream that is cut; a map without cells.                                *)
MCDatabases ==
  {[records |-> <<Record(1), Record(2)>>,
    maps |-> <<Row(2, <<Path, Other, Cells>>), Row(7, <<Cut>>), Row(1, <<Earlier, Path>>),
               Row(1, <<Charger, Cells, Path>>)>>],
   [records |-> <<Record(1), Record(1)>>, maps |-> <<Row(1, <<Cells, Path>>)>>],
   [records |-> <<Record(1), Record(2)>>, maps |-> <<Row(1, <<Cells, Cut>>)>>],
   [records |-> <<Record(1)>>, maps |-> <<Row(1, <<Path>>)>>]}
=============================================================================
