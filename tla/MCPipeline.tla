----------------------------- MODULE MCPipeline -----------------------------
(***************************************************************************)
(* Pipeline for TLC: three buffers, so that the channel can hold a mixture *)
(* of batches and gaps while the reader fills one buffer and the writer    *)
(* empties another.                                                        *)
(***************************************************************************)
EXTENDS Pipeline

=============================================================================
