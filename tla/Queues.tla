-------------------------------- MODULE Queues --------------------------------
(* Queues that a member may leave from anywhere: the tasks that hold or await an *)
(* asyncio.Lock, with the holder at the head; what is kept in the order of use.  *)
(* (SelectSeq would do as well; this form has no recursion.)                     *)
EXTENDS Naturals, Sequences, SequencesExt

\* The queue without the member at one of the places, if there is any.
WithoutOneAt(queue, places) ==
  IF places = {} THEN queue ELSE RemoveAt(queue, CHOOSE i \in places : TRUE)

\* The queue without x, which is in it at most once.
Left(queue, x) == WithoutOneAt(queue, {i \in DOMAIN queue : queue[i] = x})
===============================================================================
