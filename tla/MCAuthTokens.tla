---------------------------- MODULE MCAuthTokens ----------------------------
(***************************************************************************)
(* Instances of AuthTokens for TLC.  Users, emails, tokens and slots are   *)
(* interchangeable.                                                        *)
(***************************************************************************)
EXTENDS AuthTokens, TLC

AuthSymmetry == Permutations(Users) \cup Permutations(Emails)
                    \cup Permutations(Tokens) \cup Permutations(Slots)

(* Registrations race until somebody signs in.  Then the search is spent   *)
(* on the tokens of one account: the others are registered, active and not *)
(* referred, and stay so.  Expiry of a token that is revoked already       *)
(* decides nothing and is left out.                                        *)
SigningIn == {u \in Users : \/ \E s \in Slots : task[s].user = u
                             \/ \E t \in Tokens : token[t].owner = u}

AllRegistered ==
    /\ \A s \in Slots : pc[s] # "register"
    /\ \A u \in Users : /\ Registered(u)
                        /\ account[u].referrer = NoUser
                        /\ u \in SigningIn \/ Active(u)

MCNext ==
    /\ AuthNext
    /\ Cardinality(SigningIn') <= 1
    /\ SigningIn' # {} => AllRegistered'
    /\ \A t \in Tokens :
          token[t].revoked => token'[t].expired = token[t].expired

MCSpec == AuthInit /\ [][MCNext]_authVars
=============================================================================
