----------------------------- MODULE MCGenerators -----------------------------
(***************************************************************************)
(* Instances of Generators for TLC: for each parameter the values on both  *)
(* sides of every limit the code or the OpenAPI document knows.            *)
(***************************************************************************)
EXTENDS Generators

Text(text, bytes) == [text |-> text, bytes |-> bytes]

Edges ==
  [count      |-> {0, 1, 2, 5, 6, 10, 11, 100, 101},
   format     |-> {"hex", "rgb", "hsl", "standard", "no-dashes", "urn", "other"},
   land_only  |-> BOOLEAN,
   sides      |-> {1, 4, 6, 8, 10, 12, 20, 99, 100},
   paragraphs |-> {0, 1, 10, 11},
   sentences  |-> {-1, 0, 1, 50, 51},
   min        |-> {-1000000001, -1000000000, 0, 101, 1000000000, 1000000001},
   max        |-> {-1000000001, -1000000000, -1, 0, 1000000000, 1000000001},
   float      |-> BOOLEAN,
   length     |-> {7, 8, 128, 129},
   uppercase  |-> BOOLEAN,
   lowercase  |-> BOOLEAN,
   digits     |-> BOOLEAN,
   symbols    |-> BOOLEAN,
   type       |-> {"ed25519", "rsa", "other"},
   bits       |-> {1024, 2048, 4096},
   comment    |-> {NoText, Text("at the limit", 128), Text("too long", 129)},
   style      |-> {"random", "docker", "ubuntu", "other"},
   words      |-> {0, 1, 20, 21},
   separator  |-> {NoText, Symbol("_"), Text("at the limit", 5), Text("too long", 6)},
   capitalize |-> BOOLEAN]

=============================================================================
