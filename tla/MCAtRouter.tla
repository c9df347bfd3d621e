----------------------------- MODULE MCAtRouter -----------------------------
(***************************************************************************)
(* Two payloads belong to one initiator each, the third is used by both in  *)
(* turn; either target is accessed by both initiators.                      *)
(***************************************************************************)
EXTENDS AtRouter

MCAccesses ==
    {<<0, 1, "t1">>, <<0, 1, "hole">>, <<1, 2, "t2">>, <<0, 3, "t2">>, <<1, 3, "t1">>}
=============================================================================
