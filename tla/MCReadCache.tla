---------------------------- MODULE MCReadCache ----------------------------
(***************************************************************************)
(* Instances of ReadCache for TLC.                                         *)
(***************************************************************************)
EXTENDS ReadCache, TLC

CONSTANTS q1, c1, c2, s1, s2

MCQuery == {q1}
MCReaders == {c1, c2}
MCJobs == {s1, s2}
MCOneReader == {c1}
MCOneJob == {s1}
=============================================================================
