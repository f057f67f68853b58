---------------------------- MODULE MCResources ----------------------------
(***************************************************************************)
(* The web application or a script starts while another thread of the      *)
(* process, whose container was given a provider, asks for a little; two   *)
(* workers serve one request each.                                         *)
(***************************************************************************)
EXTENDS Resources

CONSTANTS app, script, w1, w2

MCPrograms == {Ask(1, <<"stress_dict">>), Ask(1, <<"provider_info">>)}

MCScripts == {EvaluationScript, BatchScript, GenerateScript}

MCCorpora == {<<TRUE, FALSE>>}
=============================================================================
