----------------------------- MODULE MCNodePool -----------------------------
EXTENDS NodePool

MCAdd(n) == [op |-> "add", count |-> n]
MCDelete == [op |-> "delete", count |-> 0]

MCSameAdds == {MCAdd(3)}
MCDeletes == {MCDelete}
MCMixed == {MCDelete, MCAdd(2), MCAdd(-1)}
=============================================================================
