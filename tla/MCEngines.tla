------------------------------ MODULE MCEngines ------------------------------
(* Every engine on small inputs of every kind it tells apart. *)
EXTENDS EngineQuestions, MCCbomIngest
=============================================================================
