------------------------------- MODULE MCMux --------------------------------
(* Small instances of Mux.                                                 *)
EXTENDS Mux

Load(sids, up, down, nets, controls) ==
    [sids |-> sids, up |-> up, down |-> down, nets |-> nets, controls |-> controls,
     reuse |-> FALSE, bridged |-> FALSE]

\* One sub-session that fills its link while its target answers.
Upload == Load({1}, <<3>>, <<1>>, {"tcp"}, {"end"})
\* Datagrams, and every other kind of frame.
Datagrams == Load({1}, <<1>>, <<1>>, {"udp"}, {"end", "keepalive", "bare", "bad"})
\* Two sub-sessions at a time or one after the other, on one sid or on two.
TwoSubs == Load({1, 2}, <<0, 0>>, <<1, 0>>, {"tcp"}, {})
\* A second sub-session over the first, with chunks for both.
Replaced == [Load({1}, <<1, 1>>, <<0, 0>>, {"tcp"}, {}) EXCEPT !.reuse = TRUE]
\* A VMess carrier: closed at any point, ended by the terminal chunk, or failed.
Bridged == [Load({1}, <<1>>, <<1>>, {"tcp"}, {"end", "terminal", "bad"}) EXCEPT !.bridged = TRUE]

MCLoads == {Upload, Datagrams, TwoSubs, Replaced, Bridged}
=============================================================================
