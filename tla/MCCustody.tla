----------------------------- MODULE MCCustody -----------------------------
(***************************************************************************)
(* A source tree of one directory with a file and a file beside it, and    *)
(* archives that are right, in another order, wrong in one member, or      *)
(* incomplete; two delivered files; a tree of two members to remove; and   *)
(* modes that are all wrong, or wrong for one directory and one file.      *)
(***************************************************************************)
EXTENDS Custody

MCAbove == [p \in {"d", "d/f", "g", "e", "x"} |-> IF p = "d/f" THEN "d" ELSE ""]

MCFileOrder == <<"a", "b">>

Dir(p) == [path |-> p, kind |-> "directory", agrees |-> TRUE, bytes |-> TRUE]
Reg(p) == [path |-> p, kind |-> "file", agrees |-> TRUE, bytes |-> TRUE]

Right == [directories |-> {"d"}, files |-> {"d/f", "g"}, candidate |-> {"d/f", "g"}]

MCDrifts == [index |-> {{"top", "file", "stranger"}}, manifest |-> {{"top", "dir", "file", "deep", "stray"}},
             corpus |-> {{"top", "deep"}}]

Archives == {<<Dir("d"), Reg("d/f"), Reg("g")>>, <<Reg("g"), Dir("d"), Reg("d/f")>>,
             <<Reg("d/f"), Dir("d"), Reg("g")>>, <<Dir("d"), Reg("d/f")>>,
             <<Dir("d"), Dir("d"), Reg("g")>>, <<Dir("d"), Reg("d/f"), Dir("g")>>,
             <<Dir("d"), Reg("d/f"), Reg("e")>>, <<Dir("d"), [Reg("d/f") EXCEPT !.bytes = FALSE]>>,
             <<[Reg("g") EXCEPT !.agrees = FALSE]>>, <<[Reg("g") EXCEPT !.kind = "link"]>>}

Empty == [Right EXCEPT !.directories = {"d", "e"}]

Manifests == {[Right EXCEPT !.candidate = {"g"}], [Right EXCEPT !.directories = {}],
              [directories |-> {"g"}, files |-> {"g"}, candidate |-> {"g"}],
              [directories |-> {}, files |-> {}, candidate |-> {}]}

MCRequests == {[manifest |-> Right, members |-> a] : a \in Archives}
                \cup {[manifest |-> m, members |-> <<>>] : m \in Manifests}
                \cup {[manifest |-> Empty, members |-> <<Dir("d"), Dir("e"), Reg("d/f"), Reg("g")>>]}
=============================================================================
