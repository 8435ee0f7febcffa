------------------------------ MODULE MCFixture ------------------------------
(* Model values for TLC: the engine on its default storage, which holds any
   book. *)
EXTENDS Fixture

AnyBook(book) == TRUE
=============================================================================
