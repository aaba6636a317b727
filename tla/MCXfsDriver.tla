----------------------------- MODULE MCXfsDriver -----------------------------
(* Instances of XfsDriver for TLC: a root directory with a file and a       *)
(* subdirectory that holds a link.                                          *)
EXTENDS XfsDriver, TLC

CONSTANTS t1, t2, n1, n2, n3, root, dir, file, link

Kinds  == root :> "dir" @@ dir :> "dir" @@ file :> "file" @@ link :> "link"
Tree   == <<root, "d">> :> dir @@ <<root, "f">> :> file @@ <<dir, "l">> :> link

\* Paths that exist; the root, a file, and a path that goes on below a file.
Existing == {<<>>, <<"d">>, <<"f">>, <<"d", "l">>}
Through  == {<<>>, <<"f">>, <<"f", "x">>}

Symmetry == Permutations({t1, t2}) \cup Permutations({n1, n2, n3})
=============================================================================
