--------------------------- MODULE MCAsyncClient ---------------------------
(***************************************************************************)
(* Two tasks that share one client.                                        *)
(***************************************************************************)
EXTENDS AsyncClient

CONSTANTS t1, t2

MCTasks == {t1, t2}
=============================================================================
