------------------------- MODULE MCSectionChunking -------------------------
(***************************************************************************)
(* Every body of up to ten characters: words, wrapped lines, paragraphs    *)
(* and runs of blanks among them.                                          *)
(***************************************************************************)
EXTENDS SectionChunking

MCInner == UNION {[1 .. n -> Kinds] : n \in 0 .. 8}
MCBodies == {b \in {<<"ink">>} \cup {<<"ink">> \o inner \o <<"ink">> : inner \in MCInner} :
               NormalForm(b)}
=============================================================================
