----------------------------- MODULE MCPaging ------------------------------
(* Instances of Paging: three or four rows, pages of two.                 *)
EXTENDS Paging

TwoEach == [q \in Queries |-> 2]
\* One task has no time stamps: query_task passes over it.
AllButOne == [q \in Queries |->
                IF q \in Eager THEN Tags \ {CHOOSE t \in Tags : TRUE} ELSE Tags]
=============================================================================
