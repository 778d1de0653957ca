------------------------------ MODULE MCPktLine ------------------------------
(***************************************************************************)
(* Bodies of two-digit lengths in base four, put together from packets,    *)
(* broken packets and payload, so that lines, flush and payload meet at    *)
(* every offset.                                                           *)
(***************************************************************************)
EXTENDS PktLine, FiniteSets

\* A command, lines that are none, and a length no digits follow.
MCLine == {<<0, 3, Parts>>, <<1, 0, 0, Parts>>, <<0, 3, 1>>, <<0, 2>>, <<Other>>, <<0>>}
\* The flush, a special packet, more promised than there is, or nothing.
MCEnd == {<<0, 0>>, <<0, 1>>, <<1, 2, Parts>>, <<>>}
\* Payload that reads like another line, another flush, or like nothing.
MCPack == {<<0, 3, Parts>>, <<0, 0>>, <<Other, 0>>, <<>>}

MCBodies ==
    {start \o FlattenSeq(lines) \o end \o pack :
        start \in {<<>>, <<Magic>>}, lines \in UNION {[1 .. n -> MCLine] : n \in 0 .. 2},
        end \in MCEnd, pack \in MCPack}
=============================================================================
