------------------------------- MODULE Record -------------------------------
(***************************************************************************)
(* What the generated models of pkg/repo/model do to a table. The program  *)
(* holds an object with two copies of the columns: as it has set them      *)
(* ("now") and as they were read ("orig"). A write takes the columns in    *)
(* which the two differ, and of those the ones the caller names. The lines *)
(* cited are those of the users table; the other tables have the same      *)
(* code. A table is a function from the ids that exist to rows.            *)
(***************************************************************************)
CONSTANTS
  Null,   \* SQL's NULL, a null.String that is not valid
  Blank   \* the empty string, which is not NULL

ASSUME BlankIsAValue == Null # Blank

\* usersOriginal{}: what an object that was not read from the table compares with.
Original(cols) == [c \in cols |-> Null]

\* An object of the given columns; an object the program makes itself has no original.
Object(cols, kv) ==
  [now  |-> [c \in cols |-> IF c \in DOMAIN kv THEN kv[c] ELSE Null],
   orig |-> Original(cols)]

\* Mutant: a plain struct is converted with all its columns.
ToAll(plain, allows) == Object(DOMAIN plain, plain)

\* ToUsersN: a plain struct has no NULLs, and every column not allowed becomes one.
ToN(plain, allows) ==
  Object(DOMAIN plain, [c \in DOMAIN plain \cap allows |-> plain[c]])

\* ValueOrZero, and what ToUsers does to every column.
ValueOrZero(v) == IF v = Null THEN Blank ELSE v

\* What Get makes of a row: the original is a copy of it.
Loaded(row) == [now |-> row, orig |-> row]

\* The ids Get returns for WHERE c = v. NULL equals nothing.
Having(table, c, v) == {id \in DOMAIN table : table[id][c] = v /\ v # Null}

\* Mutant: every column of the object is written, changed or not.
StaledAll(inst, only) == inst.now

\* The columns to be written: those that differ from the original, of those named.
StaledKV(inst, only) ==
  [c \in {k \in DOMAIN inst.now : k \in only /\ inst.now[k] # inst.orig[k]} |-> inst.now[c]]

\* Create: the columns not written take their default, NULL.
Create(table, id, cols, kv) ==
  [i \in DOMAIN table \cup {id} |-> IF i = id THEN Object(cols, kv).now ELSE table[i]]

\* UpdateFields: without columns there is no statement, and nothing changes.
UpdateFields(table, id, kv) ==
  [i \in DOMAIN table |->
     IF i = id THEN [c \in DOMAIN table[i] |-> IF c \in DOMAIN kv THEN kv[c] ELSE table[i][c]]
               ELSE table[i]]

\* Delete: the rows with these ids go.
Delete(table, ids) == [i \in DOMAIN table \ ids |-> table[i]]

\* A unique index of the schema, which NULLs do not take part in.
Unique(table, id, kv, cols) ==
  \A c \in cols \cap DOMAIN kv : Having(table, c, kv[c]) \subseteq {id}
=============================================================================
