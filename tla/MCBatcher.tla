----------------------------- MODULE MCBatcher -----------------------------
(***************************************************************************)
(* The batcher on small instances. BatchMaxSize 2 with more events than    *)
(* that makes a slot hold several chunks and the channel fill up.          *)
(***************************************************************************)
EXTENDS Batcher
=============================================================================
