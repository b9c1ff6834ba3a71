--------------------------- MODULE MCFlexoServe ---------------------------
(* Small instances of FlexoServe for TLC.                                  *)
EXTENDS FlexoServe, TLC

CONSTANTS p1, p2, c1, c2, none

\* Two objects of one and two bytes.
MCSize == (p1 :> 2) @@ (p2 :> 1)

\* One path with two concurrent clients.
MCSizeOne == (p1 :> 2)

\* The state without wire.  No guard and no other variable's update reads
\* wire (it records what the client has read on its connection), so a run
\* whose properties are about the other variables may identify states that
\* differ only in wire: the steps it explores are the same.
MCView == <<up, crash, job, fexists, flen, xattr, h, sock, resp>>
=============================================================================
