----------------------------- MODULE MCGridLayer -----------------------------
(* A map with one tile layer: from far away to close and back. *)
EXTENDS GridLayer

MCViews == {<<2, 0>>, <<5, 2>>}

=============================================================================
