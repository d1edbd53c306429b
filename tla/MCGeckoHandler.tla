-------------------------- MODULE MCGeckoHandler --------------------------
(* GeckoHandler for TLC: any three statements, and longer sequences in and   *)
(* around conditions, with all corrections and without some.                 *)
EXTENDS GeckoHandler

Writing == {"scalar", "array", "hook"}
Script(on, kinds) == [policy |-> on, kinds |-> kinds]
MCScripts ==
    {Script(on, <<Kinds, Kinds, Kinds>>) : on \in {Flags, {}, Flags \ {"DirectiveBit31"}}}
    \cup {Script(Flags, <<{"ba", "if"}, {"if"}, Writing \cup {"ba", "reset"}, {"endif", "endif reset", "scalar"}, {"op"}>>),
          Script(Flags, <<{"if"}, {"array", "hook"}, {"endif", "if"}, {"endif", "op"}, {"scalar"}>>)}
=============================================================================
