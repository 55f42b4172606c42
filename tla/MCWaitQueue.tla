---------------------------- MODULE MCWaitQueue ------------------------------
(* A small instance of WaitQueue: two tasks that wait for ever, poll, or    *)
(* wait for one tick, and one queue, reset at most once.                    *)
EXTENDS WaitQueue

CONSTANTS t1, t2, q1
MCTasks == {t1, t2}
MCQueues == {q1}
MCTimeouts == {-1, 0, 1}
=============================================================================
