------------------------------ MODULE MCFraming ------------------------------
(***************************************************************************)
(* Framing with payloads that are empty, short, and look like a header.    *)
(***************************************************************************)
EXTENDS Framing

MCPayloads == {<<>>, <<7>>, <<3, 0>>, <<2, 0, 9>>}

=============================================================================
