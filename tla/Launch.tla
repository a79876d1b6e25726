-------------------------------- MODULE Launch --------------------------------
(***************************************************************************)
(* From the tcvitals file to the vitals of a cycle.  run_hafs makes a      *)
(* workflow of the cycles for which the storm has vitals; the launch job   *)
(* of a cycle reads the file again, which has grown since, finds the       *)
(* storm's vitals of the cycle and of the one before, and looks on disk    *)
(* for the run of that one, to start from its fields.                      *)
(*                                                                         *)
(* The file grows by whole cycles.  The messages hold lines of the file    *)
(* again.  Runs of several storms, and test storms that are made up, are   *)
(* left out.                                                               *)
(***************************************************************************)
EXTENDS Vitals

CONSTANTS
  Runs,          \* the storm that is run, and the sequence of what comes in: the
                 \* sequences of a cycle's lines
  WeakInvest,    \* weak_invest of run_hafs, where it renumbers
  MaxCycle,      \* bound on the cycles
  NoVital

ASSUME LaunchAssumption == WeakInvest \in Nat /\ MaxCycle \in Nat

Cycles == {c \in 0..MaxCycle : c % SixHours = 0}

VARIABLES
  storm,         \* STID
  feed,          \* what comes in
  upto,          \* the number of cycles whose lines are in the file
  listed,        \* the cycles of the workflow
  launched,      \* what the launch job of a cycle has found
  refused,       \* the cycles whose launch job has raised NoSuchVitals
  centers        \* the domain.center files in the com directories

vars == <<storm, feed, upto, listed, launched, refused, centers>>

File == FlattenSeq([i \in 1..upto |-> [n \in DOMAIN feed[i] |-> Parse(feed[i][n])]])

Init ==
  /\ \E run \in Runs : storm = run.storm /\ feed = run.feed
  /\ upto = 1
  /\ listed = {}
  /\ launched = [c \in Cycles |-> NoVital]
  /\ refused = {}
  /\ centers = {}

(* The lines of one more cycle are in the file.                            *)
Issue ==
  /\ upto < Len(feed)
  /\ upto' = upto + 1
  /\ UNCHANGED <<storm, feed, listed, launched, refused, centers>>

(* run_hafs, for the first time or again; for invests and test storms it   *)
(* does not renumber.                                                      *)
Submit ==
  LET vitals == IF storm.num >= 80 THEN CleanUp(File) ELSE Renumber(File, WeakInvest)
  IN  /\ listed' = {v.when : v \in ToSet(Each(vitals, storm))} \cap Cycles
      /\ UNCHANGED <<storm, feed, upto, launched, refused, centers>>

-----------------------------------------------------------------------------
(***************************************************************************)
(* gen_vitals: the vitals of the storm and of the invests that it was, by  *)
(* the numbers in the file, by the storm's, and by both.                   *)
(***************************************************************************)
Unrenumbered == CleanUp(EachOld(IF storm.num >= 50 THEN File ELSE Unrenumber(File), storm))

(* Mutant: the numbers are not swapped again.                              *)
NotSwapped == Unrenumbered

Renumbered == IF storm.num >= 50 THEN Unrenumbered ELSE CleanUp(SwapNumbers(Unrenumbered))

(* Mutant: not the vitals under both.                                      *)
NotMirrored == Unrenumbered

AllIds == IF storm.num >= 50 THEN Unrenumbered ELSE CleanUp(Mirror(Unrenumbered))

(* [config] domlocfile, and HISTCHECK with its oldcom                      *)
Center(v) == [when |-> v.when, com |-> v.id, num |-> v.num, basin |-> v.basin]

(* The first of these vitals that is not an invest, or the last invest.    *)
Preferred(s) ==
  FoldLeft(LAMBDA best, v : IF best # NoVital /\ best.num < 50 THEN best ELSE v, NoVital, s)

(***************************************************************************)
(* The launch job of cycle c: the vitals of the cycle before of which      *)
(* there is a run are preferred to others, and without any the storm is    *)
(* moved back.  What it found goes into storm1.conf.                       *)
(***************************************************************************)
LaunchCycle(c) ==
  LET mine   == SelectSeq(Each(Renumbered, storm), LAMBDA v : v.when = c)
      prior  == SelectSeq(EachOld(AllIds, storm), LAMBDA v : v.when = c - SixHours)
      onDisk == SelectSeq(prior, LAMBDA v : Center(v) \in centers)
      syndat == Last(mine)
      back   == [syndat EXCEPT !.when = c - SixHours, !.pos = Place(syndat, -6)]
      found  ==
        IF onDisk # <<>>     THEN [syndat |-> syndat, oldsyndat |-> Preferred(onDisk), cold |-> FALSE]
        ELSE IF prior # <<>> THEN [syndat |-> syndat, oldsyndat |-> Preferred(prior), cold |-> TRUE]
        ELSE                      [syndat |-> syndat, oldsyndat |-> back, cold |-> TRUE]
  IN  /\ c \in listed
      /\ launched[c] = NoVital
      /\ c - SixHours \in listed => launched[c - SixHours] # NoVital
      /\ \/ /\ mine # <<>>
            /\ launched' = [launched EXCEPT ![c] = found]
            /\ centers' = centers \cup {Center(syndat)}
            /\ UNCHANGED refused
         \/ /\ mine = <<>>
            /\ refused' = refused \cup {c}
            /\ UNCHANGED <<launched, centers>>
      /\ UNCHANGED <<storm, feed, upto, listed>>

Next ==
  \/ Issue
  \/ Submit
  \/ \E c \in Cycles : LaunchCycle(c)

Spec == Init /\ [][Next]_vars

-----------------------------------------------------------------------------
(***************************************************************************)
(* What it is for a vital to be of a storm, said without lists: an invest  *)
(* goes on under its number, and the vital of six hours before is near to  *)
(* the first one under the storm's, when both are taken to some common     *)
(* time.                                                                   *)
(***************************************************************************)
Near(v, w) ==
  \E n \in {<<0, 0>>, <<0, -6>>, <<6, 0>>, <<3, -3>>} :
    /\ Moves(v, n[1]) /\ Moves(w, n[2])
    /\ Gap(Place(v, n[1]), Place(w, n[2])) < SearchDx

Follows(v, w) ==
  /\ v.num >= 90
  /\ w.when - v.when \in 1..SixHours
  /\ IF w.num >= 90 THEN v.id = w.id ELSE w.when - v.when = SixHours /\ Near(v, w)

Track(id) ==
  LET all == ToSet(CleanUp(File))
      Known[n \in 0..Len(feed)] ==
        IF n = 0 THEN {v \in all : v.id = id}
        ELSE Known[n - 1] \cup {v \in all : \E w \in Known[n - 1] : Follows(v, w)}
  IN  Known[Len(feed)]

(* No vital could be of two storms.                                        *)
Apart ==
  LET ids == {v.id : v \in {w \in ToSet(CleanUp(File)) : w.num < 50}}
  IN  \A i, j \in ids : i # j => Track(i) \cap Track(j) = {}

(* A storm has one vital at a time.                                        *)
Single == \A v, w \in Track(storm) : v.when = w.when => v = w

(* A vital, whatever its number is at present.                             *)
Seen(v) == <<v.when, v.pos, v.center, v.speed, v.wmax>>

(* The workflow and its launch jobs agree on the storm: the cycle that     *)
(* run_hafs listed by the renumbered vitals is found by gen_vitals in a    *)
(* longer file by renumbering them, taking it back and swapping again.     *)
ListedLaunched == refused = {}

(* A run that can start warm does: when the storm and the invests it was   *)
(* are of one basin and the run of the cycle before has been launched, the *)
(* launch job finds it, under the number that it was launched with.        *)
OneBasin == \A i \in 1..upto : \A n \in DOMAIN feed[i] : feed[i][n].basin = storm.basin

WarmStart ==
  [][\A c \in Cycles \ {0} :
       OneBasin /\ launched[c] # launched'[c] /\ launched[c - SixHours] # NoVital
         => ~launched'[c].cold /\ launched'[c].oldsyndat.id = storm]_vars

(* gen_vitals gathers the storm's vitals and no others, over any number of *)
(* cycles as an invest, whatever else is there, where it is clear to whom  *)
(* each vital belongs.  (It depends on the file only, so that it is asked  *)
(* before the cycles are listed.)                                          *)
FollowsStorm ==
  listed = {} /\ storm.num < 50 /\ Apart /\ Single
    => {Seen(v) : v \in ToSet(Each(Renumbered, storm))} = {Seen(v) : v \in Track(storm)}

(* "the original storm numbers are restored after renumbering", where it   *)
(* is clear to whom each vital belongs: renumber(unrenumber=True) of       *)
(* revital.py, before its clean-up.                                        *)
NumbersRestored ==
  listed = {} /\ Apart
    => LET s == CleanUp(File)
           r == SwapNumbers(RenumberAll(s, 0))
       IN  \A i \in DOMAIN s : r[i].id = s[i].id
=============================================================================
