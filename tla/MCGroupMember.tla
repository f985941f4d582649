---------------------------- MODULE MCGroupMember ----------------------------
(* Small instances of GroupMember for TLC.                                  *)
EXTENDS GroupMember

CONSTANTS m1, m2

TwoMembers == {m1, m2}
OneMember == {m1}

(* Two members that wait in poll() as long as it takes, and one alone that  *)
(* comes back from it early.                                                *)
BothSetups == {[blocking |-> TRUE, running |-> {m1, m2}],
               [blocking |-> FALSE, running |-> {m1}]}
AloneEitherWay == [blocking : BOOLEAN, running : {{m1}}]

(* One partition at first, two when the topic has grown.                    *)
MCPartitionsOf(version) == 0 .. version
=============================================================================
