---------------------------- MODULE ChangeStream ----------------------------
(***************************************************************************)
(* What a captured change is and what applying one does to a table:        *)
(* compat/journal.go, the images the triggers of compat/capture.go write,  *)
(* and the row semantics of compat/replicate.go.                           *)
(*                                                                         *)
(* A table is a function from primary keys to rows.  A row carries its own *)
(* key, so an UPDATE that moves a row to another key is an ordinary change *)
(* whose after image has a different id.  Keys of different SQL tables are *)
(* simply different elements of Keys.                                      *)
(***************************************************************************)
EXTENDS Naturals, Sequences

CONSTANTS
    Keys,       \* primary keys
    Values,     \* what the non-key columns of a row hold
    NoRow       \* the absent row: sql.ErrNoRows, or a NULL image

Rows == [id : Keys, val : Values]

ASSUME NoRowAssumption == NoRow \notin Rows

Images == Rows \cup {NoRow}

\* A table stores every row under its own key.
Tables == {t \in [Keys -> Images] : \A k \in Keys : t[k] # NoRow => t[k].id = k}

EmptyTable == [k \in Keys |-> NoRow]

-----------------------------------------------------------------------------
(* The journal entry a trigger writes.  The sequence of a change is its    *)
(* place in the journal, its source the node that owns the journal.        *)

ChangeKinds == {"insert", "update", "delete"}

Changes == [kind : ChangeKinds, key : Keys, before : Images, after : Images]

\* AFTER INSERT: the key and the after image are NEW, there is no before.
InsertChange(new) ==
    [kind |-> "insert", key |-> new.id, before |-> NoRow, after |-> new]

\* Faulty: the update trigger takes the key from NEW.
UpdateChange_NewKey(old, new) ==
    [kind |-> "update", key |-> new.id, before |-> old, after |-> new]

\* Faulty: the update trigger takes both images from NEW.
UpdateChange_NewBefore(old, new) ==
    [kind |-> "update", key |-> old.id, before |-> new, after |-> new]

\* AFTER UPDATE: the key and the before image are OLD, the after image NEW.
UpdateChange(old, new) ==
    [kind |-> "update", key |-> old.id, before |-> old, after |-> new]

\* AFTER DELETE: the key and the before image are OLD, there is no after.
DeleteChange(old) ==
    [kind |-> "delete", key |-> old.id, before |-> old, after |-> NoRow]

\* Change.Validate: the images each kind must carry.
WellFormed(c) ==
    /\ c.kind \in ChangeKinds
    /\ c.kind \in {"insert", "update"} => c.after # NoRow
    /\ c.kind \in {"update", "delete"} => c.before # NoRow

-----------------------------------------------------------------------------
(* Applying a change to a table.                                           *)

Load(t, k) == t[k]

\* The keys whose rows the statement of a change writes.
TouchedKeys(c) ==
    {c.key} \cup (IF c.after = NoRow THEN {} ELSE {c.after.id})

\* The uniqueness of the primary key, which the engine enforces.
KeyIsFree(t, c) ==
    (c.kind = "insert" \/ (c.kind = "update" /\ c.after.id # c.key))
        => Load(t, c.after.id) = NoRow

\* insertRow, updateRow and deleteRow: the table after the statement.
Written(t, c) ==
    [k \in Keys |->
        IF c.after # NoRow /\ k = c.after.id THEN c.after
        ELSE IF k = c.key THEN NoRow
        ELSE t[k]]

\* The tables a sequence of changes leads through when each is applied to what
\* the ones before it left: the n-th is the table after the first n of them.
Replay(base, changes) ==
    LET after[n \in 0..Len(changes)] ==
            IF n = 0 THEN base ELSE Written(after[n - 1], changes[n])
    IN  after

\* Faulty: any row at the key counts as already applied.
AlreadyReflected_AnyRow(t, c) ==
    \/ c.kind \in {"insert", "update"} /\ Load(t, c.key) # NoRow
    \/ c.kind = "delete" /\ Load(t, c.key) = NoRow

\* The tolerant mode's reading of a change the destination already holds.
AlreadyReflected(t, c) ==
    \/ c.kind \in {"insert", "update"} /\ Load(t, c.key) = c.after
    \/ c.kind = "delete" /\ Load(t, c.key) = NoRow

\* Faulty: the row only has to be there.
BeforeMatches_RowOnly(t, c) == Load(t, c.key) # NoRow

\* The comparison with the row found at the change's key.
BeforeMatches(t, c) ==
    Load(t, c.key) # NoRow /\ Load(t, c.key) = c.before

\* A change speaks of the rows of the table: its statement would succeed there.
Fits(t, c) ==
    /\ KeyIsFree(t, c)
    /\ c.kind \in {"update", "delete"} => BeforeMatches(t, c)

\* What an application statement can do to a table, as its trigger records it.
LocalChanges(t) ==
       {InsertChange(r) : r \in {q \in Rows : t[q.id] = NoRow}}
  \cup {DeleteChange(t[k]) : k \in {j \in Keys : t[j] # NoRow}}
  \cup {UpdateChange(t[k], r) : k \in {j \in Keys : t[j] # NoRow}, r \in Rows}

-----------------------------------------------------------------------------
(* What the invariants say of a change.                                    *)

\* The image a change takes from a key it touches, and the one it leaves there.
Takes(c, k)  == IF k = c.key THEN c.before ELSE NoRow
Leaves(c, k) == IF c.after # NoRow /\ k = c.after.id THEN c.after ELSE NoRow

\* The images an entry carries.
Shaped(c) ==
    /\ c.kind = "insert" => c.before = NoRow /\ c.after # NoRow /\ c.key = c.after.id
    /\ c.kind = "delete" => c.after = NoRow

=============================================================================
