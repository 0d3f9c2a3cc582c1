----------------------------- MODULE MCHttpServer -----------------------------
(***************************************************************************)
(* Requests for HttpServer: with and without a program, a query before one *)
(* that has none, two programs, one, and none.                             *)
(***************************************************************************)
EXTENDS HttpServer

Ask(prog, query) == [prog |-> prog, query |-> query]
PairsAsked ==
    {<<Ask(TRUE, TRUE), Ask(TRUE, FALSE)>>, <<Ask(FALSE, TRUE), Ask(TRUE, FALSE)>>,
     <<Ask(FALSE, TRUE), Ask(FALSE, FALSE)>>}
=============================================================================
