------------------------- MODULE MCAuthentication -------------------------
(***************************************************************************)
(* Instances of Authentication for TLC: an admin and a user whom the admin *)
(* creates.                                                                *)
(***************************************************************************)
EXTENDS Authentication, TLC

Budget(l, r, o, f, t) ==
    [login |-> l, request |-> r, overlap |-> o, fail |-> f, tick |-> t]

\* Logins alone, which fail, expire and overlap; and logins beside
\* administration.
MCBudgets == {Budget(5, 0, 2, 0, 1), Budget(4, 0, 1, 1, 2),
              Budget(2, 3, 0, 1, 2), Budget(2, 2, 1, 0, 0)}

AuthSymmetry == Permutations(Sessions) \cup Permutations(Requests)
=============================================================================
