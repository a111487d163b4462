----------------------------- MODULE MCTaskQueue ------------------------------
(***************************************************************************)
(* Small queues for checking TaskQueue with TLC.                           *)
(***************************************************************************)
EXTENDS TaskQueue

World(queued, events) ==
  [queued |-> queued, may |-> [e \in Events |-> IF e \in events THEN 1 ELSE 0]]

\* Task 2 needs task 1 and changes the same files.
Chain == <<<<>>, <<1>>>>
OneClash == {{1, 2}}
\* One process and what may happen around it, then two processes.
Worlds2 ==
  {World({1, 2}, {"crash", "retry"}), World({1, 2}, {"crash", "cancel"}),
   World({1, 2}, {"cancel", "retry"}), World({1, 2}, {"crash", "unblock"}),
   World({1, 2}, {"strike", "unblock"}), World({1, 2}, {"pause", "unblock", "fail"}),
   World({1}, {"second"})}

Alone == <<<<>>>>
NoClash == {}
TwoProcesses == {World({1}, {"second"})}
Quietly == {World(Tasks, {})}

\* Task 3 needs both others.
Join == <<<<>>, <<>>, <<1, 2>>>>

================================================================================
