----------------------------- MODULE MCRecalculation -----------------------------
(* Two services; a trace of one and two of both, of which two start together; two
   calculations, of at most two traces of a service at a time.                  *)
EXTENDS Recalculation

MCMonitored == <<"kx-wallet", "kx-exchange">>
MCTraces == 1..3
MCAt == <<1, 2, 2>>
MCOf == <<{"kx-wallet", "kx-exchange"}, {"kx-exchange"}, {"kx-wallet", "kx-exchange"}>>
================================================================================
