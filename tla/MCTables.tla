------------------------------ MODULE MCTables ------------------------------
(* Instances of Identity and of Housekeeping for TLC. The two work on different *)
(* tables through the same generated models, so a run is about one of them.     *)
EXTENDS Identity, Housekeeping, TLC

CONSTANTS u1, u2, u3, p1, p2, e1, e2, w1, w2, a1, a2

Plain == [c \in Cols |-> IF c \in {"password", "realname"} THEN Blank ELSE Null]

ByPhone  == [Plain EXCEPT !.phone = p1, !.password = "hash", !.status = "active"]
ByApple  == [Plain EXCEPT !.apple_uid = a1, !.email = e1, !.password = Null]
ByWeChat == [Plain EXCEPT !.union_id = w1, !.password = Null,
                          !.realname = "nickname", !.avatar = "nickname"]

\* A user signed up by phone, with one signed up by Apple or by WeChat, destroyed or not.
TwoUsers ==
  {u1 :> ByPhone @@ u2 :> [row EXCEPT !.status = status] :
     row \in {ByApple, ByWeChat}, status \in {"active", "deleted"}}

Symmetry == Permutations(Servers)

NoRequests == Init /\ users = CHOOSE t \in Start : TRUE
NoJob      == HouseInit /\ job = CHOOSE j \in Jobs : TRUE

MCInit == Init /\ HouseInit
MCNext == \/ NoJob /\ Next /\ UNCHANGED houseVars
          \/ NoRequests /\ HouseNext /\ UNCHANGED vars
MCSpec == MCInit /\ [][MCNext]_<<vars, houseVars>>
=============================================================================
