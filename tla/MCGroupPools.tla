---------------------------- MODULE MCGroupPools ----------------------------
(* Instances of GroupPools for TLC.                                        *)
EXTENDS GroupPools, TLC

Symmetry == Permutations(Handlers) \cup Permutations(Members \ {Creator})

\* Which operations a behaviour calls together.
Custody == [from |-> "nothing", size |-> 0,
            calls |-> {"create", "invite", "join", "deposit", "withdraw"}]
Voting == [from |-> "deposit", size |-> 3, calls |-> {"request", "vote", "execute", "repay"}]
WindDown == [from |-> "deposit", size |-> 3, calls |-> {"deposit", "close"}]
LentOut == [from |-> "loan", size |-> 3, calls |-> {"repay", "close"}]
Overdue == [from |-> "loan", size |-> 4, calls |-> {"repay", "cron", "writeOff"}]
Extending == [from |-> "loan", size |-> 3, calls |-> {"extension", "execute", "repay", "cron"}]

AllWorkloads == {Custody, Voting, WindDown, LentOut, Overdue, Extending}
Repaying == {[from |-> "loan", size |-> 3, calls |-> {"repay"}]}
=============================================================================
