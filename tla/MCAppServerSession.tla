------------------------- MODULE MCAppServerSession -------------------------
(* One thread that can be subscribed to and one that may refuse: enough for a  *)
(* walk of two pages and for a notification of either during the walk.         *)
EXTENDS AppServerSession
=============================================================================
