---------------------------- MODULE MCEvalDriver ----------------------------
(***************************************************************************)
(* Instances of EvalDriver for TLC.                                        *)
(***************************************************************************)
EXTENDS EvalDriver

Factual ==
    [type |-> "factual", families |-> {"get_amcache", "get_bam"}, uses |-> 2]

Adversarial ==
    [type |-> "adversarial_single_family", families |-> {"get_amcache"},
     uses |-> 1]

MCPlans ==
    {[source |-> "local", arms |-> <<"sanctum">>, questions |-> <<Factual>>],
     [source |-> "local", arms |-> <<"sanctum", "bare">>,
      questions |-> <<Adversarial>>],
     [source |-> "local", arms |-> <<"parallel">>,
      questions |-> <<Adversarial, Adversarial>>],
     [source |-> "upstream", arms |-> <<"structured_bare">>,
      questions |-> <<Factual, Adversarial>>],
     [source |-> "upstream", arms |-> <<"prompt_only">>,
      questions |-> <<Factual>>],
     [source |-> "local", arms |-> <<"bare">>,
      questions |-> <<Factual, Adversarial>>]}

=============================================================================
