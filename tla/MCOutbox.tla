------------------------------ MODULE MCOutbox ------------------------------
(* Model-checking values for Outbox: two tabs, which its liveness property    *)
(* keeps from being taken for alike.                                          *)
EXTENDS Outbox

CONSTANTS t1, t2

ASSUME TwoTabs == Tabs = {t1, t2} /\ t1 # t2
=============================================================================
