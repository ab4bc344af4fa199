---------------------------- MODULE MC_TeamAdmins ----------------------------
(* Small instances of TeamAdmins.  Members are numbers because LockAdmin     *)
(* follows ORDER BY id; requests are interchangeable.                        *)
EXTENDS TeamAdmins, TLC

ThreeMembers == 1..3
TwoMembers == 1..2
LastTwo == {2, 3}
Second == {2}
ProcSymmetry == Permutations(Procs)

\* The two menus of team.html change one field each.
OneField == {[role |-> r, status |-> Keep] : r \in Roles}
              \cup {[role |-> Keep, status |-> s] : s \in {"active", "disabled"}}
\* What takes an admin away and what brings one back.
DemoteOrDisable == {[role |-> "employee", status |-> Keep],
                    [role |-> "admin", status |-> Keep],
                    [role |-> Keep, status |-> "disabled"]}
=============================================================================
