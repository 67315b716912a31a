---------------------------- MODULE MCCoalescer -----------------------------
EXTENDS Coalescer

\* Two texts that share a key (the tail is sorted) and one that has none.
MCText == {<<1, 2, 3>>, <<1, 3, 2>>, <<4, 5, 6, 7>>}
=============================================================================
