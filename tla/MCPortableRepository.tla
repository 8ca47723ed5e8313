------------------------ MODULE MCPortableRepository ------------------------
EXTENDS PortableRepository, TLC

CONSTANTS t1, t2, a, b, c

(* Two callers share a page; the third has a page of its own. *)
MCTabOf == (a :> t1) @@ (b :> t1) @@ (c :> t2)
=============================================================================
