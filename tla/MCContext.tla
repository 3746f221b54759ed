----------------------------- MODULE MCContext -----------------------------
(* Small instances of Context. *)
EXTENDS Context

\* a bang, a float, and a list that begins with that float
MCBangOnly == {<<"bang">>}
MCAtomLists == {<<"f1">>, <<"f1", "f2">>}
=============================================================================
