---------------------------- MODULE MCEpochPolicy ----------------------------
(* An instance of EpochPolicy for TLC: virtual pages are alike but for the order in  *)
(* which they are used first.                                                       *)
EXTENDS EpochPolicy

MCNext == Next /\ \A v \in Mapped' : v = 1 \/ v - 1 \in Mapped'
MCSpec == Init /\ [][MCNext]_vars
=============================================================================
