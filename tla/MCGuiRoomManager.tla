-------------------------- MODULE MCGuiRoomManager --------------------------
(* Small instances of GuiRoomManager: the requests clients send.           *)
EXTENDS GuiRoomManager

(* A two-slot room that its owner's departure closes, and a room of more   *)
(* slots than a room may have that then gets a new owner.                  *)
MCCreateReq ==
    {[total_slots |-> n, privilege_grant |-> n # 2, stealth |-> FALSE, num_attr |-> 0] :
       n \in {2, 65}}

(* Two players looking for each other, with and without a condition.       *)
MCQuickReq == {[available_num |-> 2, eq |-> {1}, ne |-> {}],
               [available_num |-> 2, eq |-> {}, ne |-> {1}]}

MCSearchReq == {[attrs |-> {0}, slots |-> {2, 64}]}

(* The users are interchangeable, the fairness included, so that one of    *)
(* them stands for all.                                                    *)
CONSTANT AnyUser

(* A user whose connection ended, by a panic included, is eventually out   *)
(* of all rooms, provided that no notification of the cleanup waits for    *)
(* ever (Client::clean_user_state).                                        *)
CleanupLeavesRooms == CleanupLeaves(AnyUser)
=============================================================================
