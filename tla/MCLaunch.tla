------------------------------- MODULE MCLaunch -------------------------------
(***************************************************************************)
(* Three families of files, of two to four cycles each: invests that       *)
(* become storms side by side, invests that move, and lines of both        *)
(* centres, of test storms and of corrections.                             *)
(***************************************************************************)
EXTENDS Launch

Line(n, w, p, s, x) ==
  [num |-> n, basin |-> "L", when |-> w, pos |-> p, speed |-> s, wmax |-> x,
   center |-> "NHC", name |-> "NAMED", r34 |-> FALSE]

MaybeOne(w, ns, ps, ss, xs) ==
  {<<>>} \cup {<<Line(n, w, p, s, x)>> : n \in ns, p \in ps, s \in ss, x \in xs}
Both(A, B) == {a \o b : a \in A, b \in B}

Crowd ==
  {<<a, b, c, d>> :
     a \in Both(MaybeOne(0, {90}, {0, 2, 4}, {0}, {10}), MaybeOne(0, {91}, {2}, {0}, {10})),
     b \in Both(MaybeOne(2, {90}, {0}, {0}, {10}) \cup MaybeOne(2, {90}, {4}, {0}, {20}),
               MaybeOne(2, {5, 91}, {0, 2}, {0}, {10})),
     c \in Both(MaybeOne(4, {5, 90}, {0, 2}, {0}, {10}), MaybeOne(4, {6}, {0}, {0}, {10})),
     d \in Both(MaybeOne(6, {5}, {0}, {0}, {10}), MaybeOne(6, {6}, {0}, {0}, {10}))}

Moving ==
  {<<a, b, c>> :
     a \in Both(MaybeOne(0, {90}, {0, 6, 12}, {0, 1}, {10}), MaybeOne(1, {90}, {6}, {0}, {10})),
     b \in MaybeOne(2, {5, 90}, {0, 6, 12}, {0, 1}, {10}),
     c \in MaybeOne(4, {5, 90}, {6, 12}, {0, 1}, {10})}

JTWC(v) == [v EXCEPT !.center = "JTWC"]
East(l) == [n \in DOMAIN l |-> [l[n] EXCEPT !.basin = "E"]]
Twice(l) == IF l = <<>> THEN l ELSE <<[l[1] EXCEPT !.r34 = TRUE], JTWC(l[1]), l[1]>>
Test(w)  == <<[Line(5, w, 0, 0, 10) EXCEPT !.name = "TEST"], Line(80, w, 0, 0, 10)>>

Centres ==
  {<<a \o Test(0), b, East(Twice(c)), East(d)>> :
     a \in {x \o y : x \in {East(Twice(l)) : l \in MaybeOne(0, {90}, {0}, {0}, {10})},
                     y \in MaybeOne(0, {91}, {0, 2}, {0}, {10})},
     b \in {x \o y : x \in {East(Twice(l)) : l \in MaybeOne(2, {5, 90}, {0, 2}, {0}, {10})},
                     y \in MaybeOne(2, {5}, {0}, {0}, {10})},
     c \in MaybeOne(4, {5}, {0, 2}, {0}, {10}),
     d \in MaybeOne(6, {5}, {0}, {0}, {10})}

Run(storms, feeds) == {[storm |-> s, feed |-> f] : s \in storms, f \in feeds}

MCRuns ==
  Run({Id(5, "L")}, Crowd) \cup Run({Id(5, "L"), Id(90, "L")}, Moving)
    \cup Run({Id(5, "L"), Id(5, "E"), Id(80, "L")}, Centres)
=============================================================================
