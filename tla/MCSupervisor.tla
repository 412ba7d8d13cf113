---------------------------- MODULE MCSupervisor ----------------------------
(* Instance of Supervisor for TLC.                                         *)
EXTENDS Supervisor

(* Everything on, and the shapes that differ from it in one respect.       *)
Full == [backup |-> TRUE, serve |-> TRUE, port |-> TRUE, tasks |-> <<"db", "sync">>,
         syncCadence |-> TRUE]

RepresentativeSetups ==
  {Full,
   [Full EXCEPT !.port = FALSE],
   [Full EXCEPT !.port = FALSE, !.serve = FALSE],
   [Full EXCEPT !.serve = FALSE, !.tasks = <<>>],
   [Full EXCEPT !.tasks = <<"db">>],
   [Full EXCEPT !.backup = FALSE, !.tasks = <<"sync">>, !.syncCadence = FALSE]}
=============================================================================
