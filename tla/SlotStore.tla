----------------------------- MODULE SlotStore -----------------------------
(***************************************************************************)
(* Tables with a unique key, as the two SQLite databases of a trajectory   *)
(* offer them to the Go code.  A table is a function from the keys present *)
(* to the stored values.  The node log's key is the logical slot (step,    *)
(* seq, kind) of one trajectory: idx_nodes_slot makes it unique, and a     *)
(* node id is a hash of slot and payload, so "same id" is "same slot and   *)
(* same payload".  The memo's key is (workflow id, step key).              *)
(***************************************************************************)

\* INSERT of a row whose key is not in the table yet.
Put(tab, key, val) ==
    [k \in DOMAIN tab \cup {key} |-> IF k = key THEN val ELSE tab[k]]

\* INSERT OR IGNORE: the first writer of a key wins.
PutIfAbsent(tab, key, val) ==
    IF key \in DOMAIN tab THEN tab ELSE Put(tab, key, val)

\* NodeLog.Append answers ErrSlotConflict: the slot has an owner, and its
\* node id is not the one of the node being appended.
SlotConflict(tab, key, val) == key \in DOMAIN tab /\ tab[key] # val

=============================================================================
