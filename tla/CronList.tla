------------------------------ MODULE CronList ------------------------------
(***************************************************************************)
(* The linked list of comp/cron/jobs.cpp as a sequence of jobs ordered by  *)
(* next_execution.  The operators say what the two loops over the list do, *)
(* the removal loop with the condition the code really has.                *)
(***************************************************************************)
EXTENDS Integers, SequencesExt

\* A faulty variant: the comparison of the insertion the other way round.
InsertPlaceReversed(list, next_execution, job) ==
    LET earlier == {i \in DOMAIN list :
                      next_execution[job] > next_execution[list[i]]}
    IN  IF earlier = {} THEN Len(list) + 1
                        ELSE CHOOSE i \in earlier : \A k \in earlier : i <= k

\* The place where _cron_job_list_insert stops recursing: the first node that
\* runs strictly later than the new one, or the end of the list.
InsertPlace(list, next_execution, job) ==
    LET later == {i \in DOMAIN list :
                    next_execution[job] < next_execution[list[i]]}
    IN  IF later = {} THEN Len(list) + 1
                      ELSE CHOOSE i \in later : \A k \in later : i <= k

Inserted(list, next_execution, job) ==
    InsertAt(list, InsertPlace(list, next_execution, job), job)

\* The nodes whose id the do .. while(node->next) loop compares: the head
\* always, then every node that has a successor.
Compared(list) == {i \in DOMAIN list : i = 1 \/ i < Len(list)}

FoundAt(list, id, wanted) == {i \in Compared(list) : id[list[i]] = wanted}

\* The loop dereferences NULL on an empty list, and on a list of one node
\* whose id differs: it then evaluates node->next with node = NULL.
RemoveFaults(list, id, wanted) ==
    \/ list = <<>>
    \/ Len(list) = 1 /\ id[list[1]] # wanted

Removed(list, id, wanted) ==
    IF FoundAt(list, id, wanted) = {} THEN list
    ELSE RemoveAt(list, CHOOSE i \in FoundAt(list, id, wanted) :
                          \A k \in FoundAt(list, id, wanted) : i <= k)

\* What the scheduler relies on: the head runs no later than any other node,
\* and a job is linked once.
Ordered(list, next_execution) ==
    \A i, j \in DOMAIN list :
        i < j => next_execution[list[i]] <= next_execution[list[j]]

Distinct(list) == \A i, j \in DOMAIN list : list[i] = list[j] => i = j
=============================================================================
