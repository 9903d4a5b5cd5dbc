----------------------------- MODULE MCAsyncIo -----------------------------
(* An instance of AsyncIo for TLC.                                         *)
EXTENDS AsyncIo

CONSTANTS a, b, c, p1, p2

\* A piece of one byte and one that makes the buffer grow.
MCPieces == {<<a>>, <<b, c>>}
=============================================================================
