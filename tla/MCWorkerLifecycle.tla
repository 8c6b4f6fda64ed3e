------------------------- MODULE MCWorkerLifecycle -------------------------
(***************************************************************************)
(* The four threads of the dialog, in the order OnDestroy stops them.      *)
(***************************************************************************)
EXTENDS WorkerLifecycle

CONSTANTS ReSign, DviceStatus, RMQ, ChooseProgram

MCWorker == {ReSign, DviceStatus, RMQ, ChooseProgram}

MCRank == [w \in MCWorker |->
             CASE w = ReSign        -> 1
               [] w = DviceStatus   -> 2
               [] w = RMQ           -> 3
               [] w = ChooseProgram -> 4]

MCTimerWoken == {ReSign, RMQ, ChooseProgram}

MCNotifies == {<<RMQ, DviceStatus>>}

MCOneShot == {ReSign}

=============================================================================
