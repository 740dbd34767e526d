--------------------------- MODULE SnapshotOrder ---------------------------
(***************************************************************************)
(* The orders in which ListSnapshots of internal/hypervisor/snapshots.go   *)
(* may answer.  A snapshot is a record with a name and a time; names are   *)
(* numbered in the byte order of their text, and the time 0 stands for a   *)
(* snapshot without a creation time (CreatedAt is nil).                    *)
(***************************************************************************)
EXTENDS Naturals, Sequences

LOCAL INSTANCE SequencesExt

Dated(a) == a.time # 0

(* Mutant of Less: no tie is broken by the name.                           *)
LessByTime(a, b) == a.time < b.time

(* The comparison function returns a negative number: by time when both    *)
(* have one and they differ, by name otherwise.                            *)
Less(a, b) ==
    IF Dated(a) /\ Dated(b) /\ a.time # b.time THEN a.time < b.time ELSE a.name < b.name

Ordered(list) == \A i \in 1 .. Len(list) - 1 : Less(list[i], list[i + 1])

(* Up to twelve elements slices.SortFunc (external) is an insertion sort:  *)
(* an element moves left while it is less than its neighbour.              *)
InsertionLimit == 12

Insert(sorted, a) ==
    InsertAt(sorted, Max({0} \cup {i \in DOMAIN sorted : ~Less(a, sorted[i])}) + 1, a)

(* Beyond, it only promises to sort by a strict weak ordering.  Less is    *)
(* one when all or none of the snapshots are dated, and need not be        *)
(* transitive otherwise: the result may then be any reordering.            *)
Consistent(list) == \A i, j \in DOMAIN list : Dated(list[i]) <=> Dated(list[j])

SortSnapshots(list) ==
    IF Len(list) <= InsertionLimit THEN {FoldLeft(Insert, <<>>, list)}
    ELSE {t \in SetToSeqs(Range(list)) : Consistent(list) => Ordered(t)}
=============================================================================
