-------------------------------- MODULE Vitals --------------------------------
(***************************************************************************)
(* The list of a Revital object: how it is sorted and cleaned, how invests *)
(* (90-99) are given the number of the storm they became, and how that is  *)
(* taken back.                                                             *)
(*                                                                         *)
(* A vital is a StormInfo object: storm number, basin, the stormid3 made   *)
(* of them, the old_ values behind them, time, place, motion, wind, centre *)
(* and name, and whether it has 34-kt radii.  Places are on a line; a      *)
(* motion is in units of it per hour, a time in units of three hours.  The *)
(* basins that share a public name (A and B, S and P) are not told apart   *)
(* by stormid4: files have one of each, and stormid4 says what stormid3    *)
(* does.                                                                   *)
(***************************************************************************)
EXTENDS Integers, SequencesExt

CONSTANTS
  SearchDx,      \* search_dx: places less than this apart are of one storm
  NoOld          \* the old_ values of a vital that has not been renumbered

ASSUME VitalsAssumption == SearchDx \in Nat

SixHours == 2
TwoDays  == 16

Id(num, basin) == [num |-> num, basin |-> basin]

(* A line of the file becomes a vital.                                     *)
Parse(line) == line @@ [id |-> Id(line.num, line.basin), old |-> NoOld]

(***************************************************************************)
(* vitcmp: by time, by falling stormid3, by centre, and those with 34-kt   *)
(* radii last.  sorted() is stable.                                        *)
(***************************************************************************)
Letters == <<"A", "B", "C", "E", "L", "P", "Q", "S", "W">>
Rank(b) == SelectInSeq(Letters, LAMBDA l : l = b)

IdBefore(i, j) == i.num < j.num \/ (i.num = j.num /\ Rank(i.basin) < Rank(j.basin))

Before(a, b) ==
  \/ a.when < b.when
  \/ a.when = b.when /\ IdBefore(b.id, a.id)
  \/ a.when = b.when /\ a.id = b.id /\ a.center = "JTWC" /\ b.center = "NHC"
  \/ a.when = b.when /\ a.id = b.id /\ a.center = b.center /\ ~a.r34 /\ b.r34

Sorted(s) ==
  LET Insert(t, v) == InsertAt(t, 1 + Cardinality({i \in DOMAIN t : ~Before(v, t[i])}), v)
  IN  FoldLeft(Insert, <<>>, s)

NameNumberOkay(v) ==
  v.num \in 80..89 \/ (v.name \notin {"TEST", "UNKNOWN"} /\ v.num \notin 51..79)

(* All places are in the basin's hemisphere.                               *)
BasinCenterOkay(v) ==
  \/ v.center = "JTWC" /\ v.basin \in {"A", "B", "C", "E", "P", "Q", "S", "W"}
  \/ v.center = "NHC"  /\ v.basin \in {"C", "E", "L", "Q"}

StormKey(v) == <<v.center, v.id, v.when>>

(* clean_up_vitals: of the vitals with one key the last stays.             *)
CleanUp(s) ==
  LET Keep(t, v) == Append(SelectSeq(t, LAMBDA w : StormKey(w) # StormKey(v)), v)
      Okay(v)    == NameNumberOkay(v) /\ BasinCenterOkay(v)
  IN  FoldLeft(Keep, <<>>, SelectSeq(Sorted(s), Okay))

-----------------------------------------------------------------------------
(* change_basin and renumber_storm: the old_ values are those before this  *)
(* renumbering, also when it is not the first.                             *)
RenumberStorm(v, num, basin) ==
  [v EXCEPT !.num = num, !.basin = basin, !.id = Id(num, basin),
            !.old = [num |-> v.num, id |-> v.id, basin |-> v.basin]]

(* Mutant: the number and not what was made of it.                         *)
SwapOnlyNumber(v) ==
  IF v.old = NoOld THEN v ELSE [v EXCEPT !.num = v.old.num, !.old.num = v.num]

(* swap_numbers: everything but the basin.                                 *)
SwapNumber(v) ==
  IF v.old = NoOld THEN v
  ELSE [v EXCEPT !.num = v.old.num, !.id = v.old.id,
                 !.old = [num |-> v.num, id |-> v.id, basin |-> v.old.basin]]

(* old(): a copy whose values are the old_ ones.                           *)
Old(v) ==
  IF v.old = NoOld THEN v
  ELSE [v EXCEPT !.num = v.old.num, !.id = v.old.id, !.basin = v.old.basin, !.old = NoOld]

SwapNumbers(s) == [i \in DOMAIN s |-> SwapNumber(s[i])]

(* mirror_renumbered_vitals                                                *)
Mirror(s) ==
  FlattenSeq([i \in DOMAIN s |-> IF s[i].old = NoOld THEN <<s[i]>> ELSE <<s[i], Old(s[i])>>])

(* each(stormid) and each(stormid,old=True)                                *)
Each(s, id)    == SelectSeq(s, LAMBDA v : v.id = id)
EachOld(s, id) == SelectSeq(s, LAMBDA v : v.id = id \/ (v.old # NoOld /\ v.old.id = id))

-----------------------------------------------------------------------------
(* move_latlon: without a motion there is no place to search at.           *)
Moves(v, hours) == hours = 0 \/ v.speed # 0
Place(v, hours) == v.pos + v.speed * hours

Gap(a, b) == IF a > b THEN a - b ELSE b - a

(***************************************************************************)
(* lastvit: a dict from stormid3 to a vital, here to its index in the      *)
(* list, for both hold the same objects; in the order of its insertions.   *)
(***************************************************************************)
Put(last, id, i) ==
  LET n == SelectInSeq(last, LAMBDA e : e.id = id)
  IN  IF n = 0 THEN Append(last, [id |-> id, at |-> i]) ELSE [last EXCEPT ![n].at = i]

Drop(last, id)  == SelectSeq(last, LAMBDA e : e.id # id)
Index(last, id) == last[SelectInSeq(last, LAMBDA e : e.id = id)].at

(* A storm that was a weak invest is as far back as a storm is followed.   *)
TooWeak(v, threshold) ==
  threshold > 0 /\ v.old # NoOld /\ v.old.num >= 90 /\ v.wmax < threshold

(* A storm that was an invest goes on under the invest's number; to        *)
(* another one an invest is linked by its place.                           *)
SameStorm(v, other, hours, otherHours) ==
  IF other.old # NoOld
  THEN other.old.num = v.num /\ other.basin = v.basin
  ELSE /\ Moves(other, otherHours)
       /\ Gap(Place(v, hours), Place(other, otherHours)) < SearchDx
       /\ Gap(other.when, v.when) = SixHours

(***************************************************************************)
(* renumber_one, for the vital at index i: the storms that lastvit has at  *)
(* the beginning, one after the other; a second match renumbers again.     *)
(***************************************************************************)
RenumberOne(st, i, hours, otherHours, threshold) ==
  LET Look(acc, entry) ==
        LET other == acc.vitals[Index(acc.last, entry.id)]
            v     == acc.vitals[i]
            dt    == Gap(other.when, v.when)
        IN  IF TooWeak(other, threshold) \/ dt = 0 THEN acc
            ELSE IF dt > TwoDays THEN [acc EXCEPT !.last = Drop(@, entry.id)]
            ELSE IF dt > SixHours \/ ~SameStorm(v, other, hours, otherHours) THEN acc
            ELSE [vitals |-> [acc.vitals EXCEPT ![i] = RenumberStorm(v, other.num, other.basin)],
                  last   |-> Put(acc.last, other.id, i),
                  done   |-> TRUE]
  IN  IF Moves(st.vitals[i], hours) THEN FoldLeft(Look, st, st.last) ELSE st

(* Mutant: the earlier vital is never moved on.                            *)
SearchesBack == << <<0, 0>>, <<0, -6>> >>

(* How far the vital and the later one are moved before they are compared. *)
Searches == << <<0, 0>>, <<0, -6>>, <<6, 0>>, <<3, -3>> >>

(***************************************************************************)
(* renumber, from the last vital to the first: a search follows when the   *)
(* ones before it have found nothing.                                      *)
(***************************************************************************)
RenumberAll(s, threshold) ==
  LET Invest(st, i) ==
        LET Search(acc, m) == IF acc.done THEN acc ELSE RenumberOne(acc, i, m[1], m[2], threshold)
        IN  FoldLeft(Search, [st EXCEPT !.done = FALSE], Searches)
      Step(st, i) ==
        LET v == st.vitals[i]
        IN  IF v.num >= 90 THEN Invest(st, i)
            ELSE IF v.num >= 50 THEN st
            ELSE [st EXCEPT !.last = Put(@, v.id, i)]
      start == [vitals |-> s, last |-> <<>>, done |-> FALSE]
  IN  FoldLeft(Step, start, Reverse([i \in DOMAIN s |-> i])).vitals

(***************************************************************************)
(* delete_invest_duplicates: per time and place the last of the storms     *)
(* below 50, where the first one was, or else the first invest.            *)
(***************************************************************************)
DeleteInvestDuplicates(s) ==
  LET Same(t, v)   == SelectInSeq(t, LAMBDA w : w.when = v.when /\ w.pos = v.pos)
      Storm(t, v)  == IF Same(t, v) = 0 THEN Append(t, v) ELSE [t EXCEPT ![Same(t, v)] = v]
      Invest(t, v) == IF Same(t, v) = 0 THEN Append(t, v) ELSE t
      storms  == SelectSeq(s, LAMBDA v : v.num < 50)
      invests == SelectSeq(s, LAMBDA v : v.num >= 90)
  IN  FoldLeft(Invest, FoldLeft(Storm, <<>>, storms), invests)

(* renumber(threshold), and renumber(unrenumber=True)                      *)
Renumber(s, threshold) == CleanUp(DeleteInvestDuplicates(RenumberAll(CleanUp(s), threshold)))
Unrenumber(s)          == CleanUp(SwapNumbers(RenumberAll(CleanUp(s), 0)))
================================================================================
