----------------------- MODULE MCReferenceSupervisor -----------------------
(* The reference supervisor and its children's listeners, with two listeners. *)
EXTENDS InheritedListeners

MCFile == {"http", "admin", "control", "private", "foreign"}
MCListeners == <<"http", "admin">>
MCNames == <<<<"web">>, <<"ops">>>>

\* In order at their targets; in the wrong order with a target between them free; and
\* around a descriptor that S was started with, so high that the staging of a successor
\* can run out of descriptors.
MCLayouts == {[at |-> <<3, 4>>, private |-> {5}, foreign |-> {}],
              [at |-> <<5, 3>>, private |-> {6}, foreign |-> {}],
              [at |-> <<4, 6>>, private |-> {}, foreign |-> {5}]}
=============================================================================
