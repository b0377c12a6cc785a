-------------------------- MODULE MCControlClient --------------------------
(* Model-checking instance of ControlClient: Tor answers with one line,    *)
(* with a block of data, with an error or with a 4xx line.                 *)
EXTENDS ControlClient

MCReplyShapes == { <<"final">>, <<"plus", "data", "dot", "final">>, <<"err">>, <<"four">> }
=============================================================================
