------------------------------ MODULE MCBuffer ------------------------------
(* Buffer with one cell of prepend and a few cells of content: every index  *)
(* position, compaction, growth and the extrabuf path occur.                *)
EXTENDS Buffer
=============================================================================
