------------------------------- MODULE MCAgent ------------------------------
(***************************************************************************)
(* A small instance of Agent: budgets of one, and a model that may answer  *)
(* with any one call or with one of the pairs below.                       *)
(***************************************************************************)
EXTENDS Agent

AnswersBound == {<<>>, <<"lane", "lane">>, <<"bg", "record">>, <<"cancel", "compact">>}

=============================================================================
