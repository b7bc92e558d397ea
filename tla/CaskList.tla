------------------------------ MODULE CaskList ------------------------------
(***************************************************************************)
(* The intrusive doubly linked list of libcask (list.c), seen as the       *)
(* sequence of the elements linked behind a head.  An element carries one  *)
(* link (task_t.run_link), so it can sit in one list at a time;            *)
(* list_delete takes the link out of whichever list holds it and is a      *)
(* no-op on a link that points at itself.                                  *)
(***************************************************************************)
EXTENDS Naturals, Sequences, SequencesExt

\* list_init: a head that points at itself.
list_init == <<>>

\* list_add_before(head, elm): the new element becomes the last one.
list_add_before(list, elm) == Append(list, elm)

\* list_delete(elm), for a list that may or may not hold elm.
list_delete(list, elm) == RemoveFirst(list, elm)

\* list_empty(head).
list_empty(list) == list = <<>>

\* list_next(head), of a list that is not empty.
list_next(list) == Head(list)

\* No element is linked twice: the ring behind the head is well formed.
WellLinked(list) == IsInjective(list)

=============================================================================
