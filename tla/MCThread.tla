------------------------------ MODULE MCThread ------------------------------
(* Small instances of Thread.                                                *)
EXTENDS Thread

CONSTANTS A, B

\* A and B call each other, and A calls itself.
MutualSends == {<<A, B>>, <<B, A>>, <<A, A>>}
SomePosts == {<<A, A>>, <<B, B>>}
=============================================================================
