--------------------------- MODULE MCFileBackend ---------------------------
(* Two items of one content, one of them a named file, and a picture. *)
EXTENDS FileBackend, TLC

CONSTANTS text, named, shot, x, y, txt, png, n

Datas == [i \in Item |-> IF i = shot THEN y ELSE x]
Exts  == [i \in Item |-> IF i = shot THEN png ELSE txt]
Names == [i \in Item |-> IF i = named THEN n ELSE NoName]

Interchangeable == Permutations(Task)
=============================================================================
