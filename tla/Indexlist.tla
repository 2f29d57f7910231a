----------------------------- MODULE Indexlist ------------------------------
(***************************************************************************)
(* qpOASES::Indexlist (extlibs/qpOASES-3.2.0/src/Indexlist.cpp): the       *)
(* indices of a working set in the order in which they were added, and     *)
(* iSort, the positions of that order sorted by index, so that an index    *)
(* can be found by bisection.                                              *)
(*                                                                         *)
(* A list is a record [number, iSort] of two sequences of equal length;    *)
(* positions count from 1, so FindInsert returns 0 where the code returns  *)
(* -1.                                                                     *)
(***************************************************************************)
EXTENDS Integers, Sequences, FiniteSets

EmptyList == [number |-> <<>>, iSort |-> <<>>]

Length(l) == Len(l.number)
Numbers(l) == {l.number[k] : k \in 1 .. Length(l)}

(* The entry at a place of the sorted order.                               *)
Sorted(l, k) == l.number[l.iSort[k]]

(* findInsert(): the last place of the sorted order that does not exceed   *)
(* i, by bisection; b = <<fst, lst>>.                                      *)
Halved(l, i, b) ==
  LET mid == (b[1] + b[2]) \div 2
  IN  IF i >= Sorted(l, mid) THEN <<mid, b[2]>> ELSE <<b[1], mid>>
Bisect(l, i) ==
  LET found[b \in (1 .. Length(l)) \X (1 .. Length(l))] ==
        IF b[1] < b[2] - 1 THEN found[Halved(l, i, b)] ELSE b[1]
  IN  found
FindInsert(l, i) ==
  LET n == Length(l)
  IN  IF n = 0 THEN 0
      ELSE IF i < Sorted(l, 1) THEN 0
      ELSE IF i >= Sorted(l, n) THEN n
      ELSE Bisect(l, i)[<<1, n>>]

(* getIndex(): where i is stored; 0 when the bisection ends elsewhere.     *)
(* The code reads iSort[-1] when nothing in the list is as small as i; its *)
(* callers ask for indices that are in the list.                           *)
Holds(l, i) == FindInsert(l, i) # 0 /\ Sorted(l, FindInsert(l, i)) = i
GetIndex(l, i) == IF Holds(l, i) THEN l.iSort[FindInsert(l, i)] ELSE 0

InsertAt(s, p, x) == SubSeq(s, 1, p) \o <<x>> \o SubSeq(s, p + 1, Len(s))
DeleteAt(s, p) == SubSeq(s, 1, p - 1) \o SubSeq(s, p + 1, Len(s))

(* addNumber(): appended, and entered in the sorted order.                 *)
AddNumber(l, i) ==
  [number |-> Append(l.number, i),
   iSort  |-> InsertAt(l.iSort, FindInsert(l, i), Length(l) + 1)]

(* The positions behind the removed one keep their old value.              *)
RemoveNumberNoShift(l, i) ==
  IF ~Holds(l, i) THEN l
  ELSE [number |-> DeleteAt(l.number, GetIndex(l, i)),
        iSort  |-> DeleteAt(l.iSort, FindInsert(l, i))]

(* removeNumber(): the entries behind it move forward, in both orders.     *)
RemoveNumber(l, i) ==
  IF ~Holds(l, i) THEN l
  ELSE LET at == GetIndex(l, i)
           moved == [k \in 1 .. Length(l) |-> IF l.iSort[k] > at THEN l.iSort[k] - 1 ELSE l.iSort[k]]
       IN  [number |-> DeleteAt(l.number, at), iSort |-> DeleteAt(moved, FindInsert(l, i))]

(* swapNumbers(): both orders exchange the two entries.                    *)
SwapNumbers(l, i, j) ==
  LET p == FindInsert(l, i)
      q == FindInsert(l, j)
  IN  [number |-> [l.number EXCEPT ![l.iSort[p]] = j, ![l.iSort[q]] = i],
       iSort  |-> [l.iSort EXCEPT ![p] = l.iSort[q], ![q] = l.iSort[p]]]

-----------------------------------------------------------------------------
(* The sorted order is a permutation of the positions that sorts the       *)
(* entries, and no index occurs twice.                                     *)
IsSorted(l) ==
  /\ Len(l.iSort) = Length(l)
  /\ {l.iSort[k] : k \in 1 .. Length(l)} = 1 .. Length(l)
  /\ \A k \in 1 .. Length(l) - 1 : Sorted(l, k) < Sorted(l, k + 1)
=============================================================================
