----------------------------- MODULE MCClMock -------------------------------
(* ClMock for TLC: two validators, one whose real index lies in the        *)
(* automatic range, two concurrent queries, id lists that repeat a key,    *)
(* mix hits with misses and name a validator by its index, and bodies with *)
(* accepted and rejected items.                                            *)
EXTENDS ClMock, TLC

CONSTANTS p1, p2

MCPubkey == {p1, p2}
MCUpIndex == (p1 :> 3 @@ p2 :> 10)
MCStatus == {"active", "foreign"}
MCKnown == {"active"}

K(p) == [pk |-> p, by |-> "pubkey"]
N(p) == [pk |-> p, by |-> "index"]

MCAsks == { <<K(p1)>>, <<K(p2), K(p1)>>, <<K(p1), K(p1)>>, <<N(p2)>>, <<K(p1), N(p1)>> }
Post(p, s, ok) == [pk |-> p, status |-> s, formed |-> ok]
MCPosts == { <<Post(p1, "active", TRUE)>>,
             <<Post(p1, "foreign", TRUE), Post(p2, "active", TRUE)>>,
             <<Post(p2, "active", TRUE), Post(p1, "active", TRUE)>>,
             <<Post(p1, "active", FALSE)>> }

MCByKey == { <<K(p1)>>, <<K(p1), K(p2)>> }
=============================================================================
