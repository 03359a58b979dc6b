--------------------------- MODULE SelectedQueue ---------------------------
(***************************************************************************)
(* CSelectedQueue (selected_queue.cpp): the bounded queue between the      *)
(* select thread, which fills it, and the crawl threads, which take URLs   *)
(* from it and put back the ones that must wait.  Every operation holds    *)
(* the queue's mutex, so each is one atomic step.  The length is kept in a *)
(* counter beside the deque and the full test is an equality (line 34), so *)
(* the bound is only as good as the agreement of the two.                  *)
(***************************************************************************)
EXTENDS Integers, Sequences

CONSTANTS Items,    \* what may be queued (SSQItem)
          m_size    \* the capacity given to init

VARIABLES m_queue, m_count

vars == <<m_queue, m_count>>

Init == m_queue = <<>> /\ m_count = 0

\* Slip: full with one place left.
Full_Early == m_count + 1 >= m_size

Full == m_count = m_size

\* Slip: the full test lets one item too many in.
push_Over(qi) == /\ m_count <= m_size
                 /\ m_count' = m_count + 1
                 /\ m_queue' = Append(m_queue, qi)

\* push that returns true.
push(qi) == /\ ~Full
            /\ m_count' = m_count + 1
            /\ m_queue' = Append(m_queue, qi)

\* push that returns false: the caller decides what becomes of the item.
push_refused == Full /\ UNCHANGED vars

\* pop that returns true; the item handed out is Head(m_queue).
pop == /\ m_queue # <<>>
       /\ m_queue' = Tail(m_queue)
       /\ m_count' = m_count - 1

\* pop that returns false.
pop_empty == m_queue = <<>> /\ UNCHANGED vars

clear == m_queue' = <<>> /\ m_count' = 0

Next == \/ \E qi \in Items : push(qi)
        \/ push_refused
        \/ pop
        \/ pop_empty
        \/ clear

Spec == Init /\ [][Next]_vars

-----------------------------------------------------------------------------
TypeOK == m_queue \in Seq(Items) /\ m_count \in Nat

(* The counter is the length of the deque and never passes the capacity:   *)
(* the test m_count == m_size of push is then enough to bound the queue.   *)
QueueBounded == m_count = Len(m_queue) /\ Len(m_queue) <= m_size
=============================================================================
