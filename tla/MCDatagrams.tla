---------------------------- MODULE MCDatagrams ----------------------------
(* A packet of two fragments and a short one.                               *)
EXTENDS Datagrams

MCLengths == <<30, 10>>
MCInjected == <<0, 2, 3>>
=============================================================================
