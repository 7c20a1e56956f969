---- MODULE MCNameMirror ----
(* A short name, one that must be cut inside a character, and one too long  *)
(* for the mirror to remember; byte 9 continues a character.                *)
EXTENDS NameMirror
MCNames == {<<1>>, <<1, 2, 2, 9>>, <<2, 1, 1, 1, 1, 1>>}
MCFactoryName == <<2, 1, 1>>
MCContinuation == {9}
====
