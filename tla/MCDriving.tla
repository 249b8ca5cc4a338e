----------------------------- MODULE MCDriving -----------------------------
(* Driving on maps with hardly any rock on the rim, and with rugged rock   *)
(* that differs from side to side.                                         *)
EXTENDS Driving

Bare == <<0>>
Rugged == <<20, 0>>
Thick == <<20>>

SomeRock == {[across |-> Bare, left |-> Bare, right |-> Bare],
             [across |-> Rugged, left |-> Thick, right |-> Rugged]}
=============================================================================
