---------------------------- MODULE RollingTypes ----------------------------
(***************************************************************************)
(* The status values of app/models/_enums.py and the status sets by which  *)
(* the services of app/services guard their state changes, shared by every *)
(* module of the project.                                                  *)
(***************************************************************************)
EXTENDS Integers, FiniteSets

UserStatus == {"active", "blocked", "withdrawn"}

PlannerStatus == {"pending", "approved", "suspended"}

RoomStatus == {"draft", "published", "recruiting", "viable", "assigned",
               "confirmed", "in_progress", "completed", "cancelled"}

ApplicationStatus == {"submitted", "approved", "rejected", "waitlisted",
                      "payment_pending", "paid", "confirmed", "cancelled"}

Gender == {"male", "female", "other"}

CreditSource == {"viable_host_bonus", "referral_host", "referral_friend",
                 "manual_grant"}

-----------------------------------------------------------------------------
(* Room statuses from which an operation is accepted.  HostEditableViable, *)
(* HostPublishAgain, AssignableEarly and CancellableConfirmed are wrong    *)
(* variants, which the properties must tell from the code's sets.          *)

HostEditableViable == {"draft", "published", "recruiting", "viable"}

HOST_EDITABLE_STATES == {"draft", "published", "recruiting"}

HostPublishAgain == {"draft", "viable"}

HOST_PUBLISH_FROM == {"draft"}

APPLICATION_OPEN_STATUSES == {"published", "recruiting", "viable", "assigned"}

PROMOTABLE_FROM == {"published", "recruiting"}

AssignableEarly == {"published", "viable", "assigned"}

ASSIGNABLE_FROM == {"viable", "assigned"}

CONFIRMABLE_FROM == {"assigned"}

(* Application statuses from which an operation is accepted. *)

APPROVABLE_FROM == {"submitted", "waitlisted"}

REJECTABLE_FROM == {"submitted", "waitlisted", "approved", "payment_pending"}

WAITLISTABLE_FROM == {"submitted"}

PAYABLE_FROM == {"approved", "payment_pending", "paid"}

CancellableConfirmed == {"submitted", "waitlisted", "approved", "confirmed"}

CANCELLABLE_FROM == {"submitted", "waitlisted", "approved", "payment_pending"}

-----------------------------------------------------------------------------
(* ceil(c * 0.5), at least one: what one gender's confirmed count must     *)
(* reach for a room with capacity c for that gender to become viable.      *)
Threshold(c) == IF c = 0 THEN 1 ELSE (c + 1) \div 2

(* The statuses of a room that has been promoted to VIABLE at some point.  *)
Promoted == {"viable", "assigned", "confirmed", "in_progress", "completed"}
=============================================================================
