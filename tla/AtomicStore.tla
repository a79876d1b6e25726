----------------------------- MODULE AtomicStore -----------------------------
(***************************************************************************)
(* What a Datastore promises its clients: a transaction takes effect at    *)
(* one instant, and at that instant everything it has read is still what   *)
(* the database holds.                                                     *)
(***************************************************************************)
CONSTANTS Threads, Keys, Values, NoValue

VARIABLES
  db,      \* the committed database
  reads,   \* the values a thread has read of a key since it last committed
  writes   \* its uncommitted writes

vars == <<db, reads, writes>>

Nothing == [k \in Keys |-> NoValue]
Unread  == [k \in Keys |-> {}]

Overlay(w) == [k \in Keys |-> IF w[k] = NoValue THEN db[k] ELSE w[k]]

Init ==
  /\ db \in [Keys -> Values]
  /\ reads = [t \in Threads |-> Unread]
  /\ writes = [t \in Threads |-> Nothing]

(* A thread sees its own write, or else the committed value.               *)
Read(t, k) ==
  /\ reads' = IF writes[t][k] = NoValue
              THEN [reads EXCEPT ![t][k] = @ \cup {db[k]}] ELSE reads
  /\ UNCHANGED <<db, writes>>

Write(t, k, v) ==
  /\ writes' = [writes EXCEPT ![t][k] = v]
  /\ UNCHANGED <<db, reads>>

Commit(t) ==
  /\ \A k \in Keys : reads[t][k] \subseteq {db[k]}
  /\ db' = Overlay(writes[t])
  /\ reads' = [reads EXCEPT ![t] = Unread]
  /\ writes' = [writes EXCEPT ![t] = Nothing]

(* Threads lose what they have not committed.                              *)
Discard(T) ==
  /\ reads' = [t \in Threads |-> IF t \in T THEN Unread ELSE reads[t]]
  /\ \/ writes' = [t \in Threads |-> IF t \in T THEN Nothing ELSE writes[t]]
     \/ UNCHANGED writes
  /\ UNCHANGED db

Next ==
  \/ \E t \in Threads : \/ \E k \in Keys : Read(t, k)
                        \/ \E k \in Keys, v \in Values : Write(t, k, v)
                        \/ Commit(t)
  \/ \E T \in SUBSET Threads : Discard(T)

Spec == Init /\ [][Next]_vars
=============================================================================
