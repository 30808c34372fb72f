---------------------------- MODULE MCChaosController ----------------------------
(* Three starts over each other, two overlapping collections of two fetches.     *)
EXTENDS ChaosController
================================================================================
