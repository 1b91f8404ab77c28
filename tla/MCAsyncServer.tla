--------------------------- MODULE MCAsyncServer ---------------------------
(* AsyncServer with up to two acceptors, so that one may be overwritten and *)
(* a queued resume may find the deque empty.                                *)
EXTENDS AsyncServer

\* Two messages can meet the first connection at different points of recv().
FirstTalks == <<2, 0>>
OneMessage == <<1>>
=============================================================================
