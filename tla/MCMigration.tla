----------------------------- MODULE MCMigration ------------------------------
(* Two migrations and an editor; two timestamps, two texts around the      *)
(* block, each of the shapes at least once.                                *)
EXTENDS Migration
CONSTANTS m1, m2, r1, r2, t1, t2
MCMigrations == {m1, m2}
MCRests == {r1, r2}
MCStamps == {t1, t2}
MCDocuments == [shape : {"legacy"}, rest : MCRests] \cup [shape : Shapes, rest : {r1}]
===============================================================================
