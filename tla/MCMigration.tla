----------------------------- MODULE MCMigration -----------------------------
(***************************************************************************)
(* Models for checking Migration: an application whose models differ in    *)
(* the ways a user changes them.  T1, T2 are table uuids; a, b, c column   *)
(* names; u, v, w column uuids.                                            *)
(***************************************************************************)
EXTENDS Migration

Col(uuid, name, type, nullable, index) ==
  [uuid |-> uuid, name |-> name, type |-> type, unsigned |-> FALSE,
   nullable |-> nullable, index |-> index]
Table(uuid, name, cols) == [uuid |-> uuid, name |-> name, cols |-> cols]

Plain == << Table("T1", "user", << Col("u", "a", "text", FALSE, TRUE),
                                   Col("v", "b", "int", TRUE, FALSE) >>) >>
\* The table renamed; u renamed and made nullable; v gone, w takes its name.
Renamed == << Table("T1", "member", << Col("u", "c", "text", TRUE, TRUE),
                                       Col("w", "b", "int", FALSE, TRUE) >>) >>
\* u has another type, v is indexed and required; a second table.
Retyped == << Table("T1", "user", << Col("u", "a", "int", FALSE, FALSE),
                                     Col("v", "b", "int", FALSE, TRUE) >>),
              Table("T2", "order", << Col("x", "a", "int", TRUE, TRUE) >>) >>
\* The columns of Plain exchange their names: MySQL refuses the first CHANGE.
Swapped == << Table("T1", "user", << Col("u", "b", "text", FALSE, TRUE),
                                     Col("v", "a", "int", TRUE, FALSE) >>) >>
\* T1 is dropped, T2 takes over its name, T3 is new.
Reused == << Table("T2", "user", << Col("x", "a", "int", TRUE, TRUE) >>),
             Table("T3", "log", << Col("y", "a", "text", TRUE, FALSE) >>) >>
\* Only the second table of Retyped, under another name.
Kept == << Table("T2", "sale", << Col("x", "a", "int", TRUE, TRUE) >>) >>
\* Kept with an unsigned column and a changed index.
Unsigned == << Table("T2", "sale", << [Col("x", "a", "int", TRUE, FALSE)
                                       EXCEPT !.unsigned = TRUE] >>) >>

MCModels == { <<>>, Plain, Renamed, Retyped, Swapped, Reused, Kept, Unsigned }
MCTableNames == { "user", "member", "order", "log", "sale", "other" }
=============================================================================
