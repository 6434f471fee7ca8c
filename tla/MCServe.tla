------------------------------ MODULE MCServe ------------------------------
EXTENDS Serve, TLC

CONSTANTS a, b

MCKeys == {a, b}
MCRank == a :> 1 @@ b :> 2

None == a :> {} @@ b :> {}
Both == {<<a, b>>, <<b, a>>}

Written(depends, globs, paths) == [depends |-> depends, globs |-> globs, paths |-> paths]

(* Apart, and over one scope: sealed beside it, and sealed to it.  Behind a *)
(* dependency, in order and against it.  A ring, and a key nobody admitted. *)
MCPlans ==
  {Written(None, {}, None), Written(None, Both, None), Written(None, Both, a :> {b} @@ b :> {a}),
   Written(a :> {} @@ b :> {a}, {}, None),
   Written(a :> {b} @@ b :> {}, Both, a :> {b} @@ b :> {a}),
   Written(a :> {b} @@ b :> {a}, Both, None),
   Written(a :> {} @@ b :> {Unknown}, Both, None)}
=============================================================================
