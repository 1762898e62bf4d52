-------------------------- MODULE MCRoomLifecycle --------------------------
(***************************************************************************)
(* Instances of RoomLifecycle for TLC.                                     *)
(***************************************************************************)
EXTENDS RoomLifecycle, TLC

CONSTANTS r1, r2, host, ann, bob, cho, pam, noUser

(* One room whose threshold for men depends on the host's edits, three     *)
(* applicants who may change gender, one planner.                          *)
OneRoomHost == [r \in Rooms |-> host]

OneRoomReferrals == [u \in Users |-> NoUser]

OneRoomCapacities == {[male |-> 1, female |-> 1], [male |-> 3, female |-> 1]}

OneRoomProfiles == {[gender |-> "male", complete |-> TRUE],
                    [gender |-> "female", complete |-> TRUE],
                    [gender |-> "female", complete |-> FALSE]}

Applicants == Permutations({ann, bob, cho})
=============================================================================
