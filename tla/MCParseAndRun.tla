---------------------------- MODULE MCParseAndRun ----------------------------
(* ParseAndRun on packages of an input, a resource with a count, an output, *)
(* two provider configs and an alias of one of them.                        *)
EXTENDS ParseAndRun

Text(refs, special) == [refs |-> refs, special |-> special]
Literal == Text({}, FALSE)

\* The config of an alias, "k_a", belongs to the provider "k".
MCRawOf == [b \in Blocks |-> IF b = "k_a" THEN "k" ELSE b]

\* The type of each name, and what its name begins with if it is not a resource.
MCType ==
  [b \in Blocks |-> CASE b = "in" -> "input" [] b = "out" -> "output"
                      [] b \in {"res", "also"} -> "resource" [] OTHER -> "provider"]

\* A graph of one shape: the input, then the resource, then the output.
MCGraph(blocks, given, loop, text) ==
  [blocks |-> blocks, given |-> given, type |-> MCType,
   after |-> [b \in Blocks |-> CASE b = "res" -> {"in"} [] b = "out" -> {"res"} [] OTHER -> {}],
   text |-> [b \in Blocks |-> CASE b = "res" -> text [] b = "out" -> Text({"res"}, FALSE)
                                [] b = "k" -> Text({"in"}, FALSE) [] OTHER -> Literal],
   loop |-> [b \in Blocks |-> IF b \in {"res", "out"} THEN loop ELSE "single"],
   over |-> [b \in Blocks |-> CASE b = "res" -> Text({"in"}, FALSE) [] b = "out" -> Text({"res"}, FALSE) [] OTHER -> Literal]]

MCPackage(g, configs, also, prefix, mixin) ==
  [graph |-> g, configs |-> configs, mixin |-> mixin, backend |-> FALSE,
   provider |-> [b \in Blocks |-> IF b = "also" THEN also ELSE "k"],
   prefix |-> [b \in Blocks |-> CASE MCType[b] # "resource" -> MCType[b]
                                  [] b = "also" -> prefix [] OTHER -> "none"]]

Small == {"in", "res", "out"}
Wide == {"in", "res", "also", "out"}
Plain == Text({"in"}, FALSE)
Odd == Text({"in", "word"}, TRUE)

MCPackages ==
  { MCPackage(MCGraph(Small, given, loop, text), {"k", "l"}, "l", "none", FALSE) :
      given \in {{}, {"in"}}, loop \in Loops, text \in {Plain, Odd} }
  \cup
  { MCPackage(MCGraph(Wide, {"in"}, "single", Plain), configs, also, prefix, FALSE) :
      configs \in {{"k", "l", "k_a"}, {"k"}, {"k_a", "l"}},
      also \in {"l", "k_a"}, prefix \in {"none", "local", "resource", "provider", "input"} }
  \cup { MCPackage(MCGraph(Small, {}, "single", Plain), {"k"}, "l", "none", TRUE) }

MCGraphs == {p.graph : p \in MCPackages} \cup {ProviderGraph(p) : p \in MCPackages}
=============================================================================
