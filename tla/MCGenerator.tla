------------------------------ MODULE MCGenerator ------------------------------
EXTENDS Generator, GeneratorFile

MCStrings == [1..3 -> 2..5]
MCRequests == -9..24

\* generate makes the strings, generate_pattern and main write them: the file
\* depends on nothing of a string but its size, so that each part is checked on
\* inputs of its own, while the other one rests in an initial state.
VARIABLE part

MCInit ==
    /\ Init /\ FileInit
    /\ part \in {"strings", "file"}
    /\ part = "strings" => generated_strings = <<2, 2, 2>> /\ size_in_mb = 0
    /\ part = "file" => generator_inputs = always_matching_pattern

MCNext ==
    \/ part = "strings" /\ Next /\ UNCHANGED <<part, fileVars>>
    \/ part = "file" /\ FileNext /\ UNCHANGED <<part, vars>>

MCSpec == MCInit /\ [][MCNext]_<<part, vars, fileVars>>
================================================================================
