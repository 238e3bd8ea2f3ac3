--------------------------- MODULE MCNotification ---------------------------
EXTENDS Notification, TLC
CONSTANTS ann, bob, n1, n2
OneOwner == (n1 :> ann) @@ (n2 :> ann)
OneNotice == n1 :> ann
N1 == {n1}
N2 == {n2}
NoNotice == {}
MCNotices == {n1, n2}
AnnOnly == {ann}
AnnAndBob == {ann, bob}
AnnAndNobody == {ann, Anonymous}
TaskSymmetry == Permutations(Tasks)
=============================================================================
