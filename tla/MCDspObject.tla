---------------------------- MODULE MCDspObject ----------------------------
(* Small instances of DspObject. *)
EXTENDS DspObject

MCBangOnly == {<<"bang">>}

=============================================================================
