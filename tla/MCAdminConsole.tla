---------------------------- MODULE MCAdminConsole ----------------------------
(* Two merchants, the first with two intents (one of them settled already)  *)
(* and so with two pages in a table of one row a page, the second with none.*)
EXTENDS AdminConsole, TLC

CONSTANTS a1, a2, m1, m2

merchantOf == (a1 :> m1) @@ (a2 :> m1)
=============================================================================
