------------------------------ MODULE MCRamFs ------------------------------
(* Two names, files of up to two bytes, a table of three entries.           *)
EXTENDS RamFs

CONSTANTS a, b, x, y, sh, ed, null

MCNames     == {a, b}
MCBytes     == {x, y}
MCContents  == {<<>>, <<x>>, <<y, x>>}
MCEditors   == {ed}
=============================================================================
