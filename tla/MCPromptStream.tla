--------------------------- MODULE MCPromptStream ---------------------------
(* Instances of PromptStream for TLC.                                      *)
EXTENDS PromptStream

Msg(k, id) == [kind |-> k, id |-> id]
Answers ==
    {Msg("text", None), Msg("end_turn", None)}
        \cup {Msg("stop_error", a) : a \in AgentIds}
Greeting == {Msg("text", None)}
Permission == {Msg("permission", a) : a \in AgentIds}

StreamSymmetry == Permutations(Prompts) \cup Permutations(Sessions)
=============================================================================
