--------------------------- MODULE BackupPromise ---------------------------
(***************************************************************************)
(* What the database backup promises its operator, with everything about   *)
(* how left out: there is one published backup, and a push replaces it by  *)
(* one that holds every commit it held.                                    *)
(***************************************************************************)
CONSTANT Commits

VARIABLE published

TypeOK == published \in SUBSET Commits

Init == published \in SUBSET Commits

Push == \E d \in SUBSET Commits : published \subseteq d /\ published' = d

Spec == Init /\ [][Push]_published

=============================================================================
