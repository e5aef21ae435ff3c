------------------------------ MODULE MCSignOn ------------------------------
(***************************************************************************)
(* A small instance of SignOn, and with it of Accounts, for TLC.           *)
(***************************************************************************)
EXTENDS SignOn, TLC

CONSTANTS u1, t1, t2, t3, t4, t5, q1, q2, k1, k2, l1, l2, c1, c2

GroupClaims == [u \in Users |-> [role |-> "none", groups |-> {"managers"}]]

Taking(tries, requests, calls, logins, callbacks) ==
    [tries |-> tries, requests |-> requests, calls |-> calls, logins |-> logins,
     callbacks |-> callbacks, overlap |-> FALSE, lost |-> FALSE]

\* Passwords tried one after the other and at once; a session under provisioning
\* calls; calls at once; sign-ins in two tabs; a sign-in that the directory meets;
\* a provider whose answer is lost.
PasswordsSessionsSignIns ==
    {Taking({t1, t2, t3, t4}, {}, {}, {}, {}),
     [Taking({t1, t2, t3}, {}, {}, {}, {}) EXCEPT !.overlap = TRUE],
     Taking({t5}, {q1, q2}, {k1, k2}, {}, {}),
     [Taking({}, {}, {k1, k2}, {}, {}) EXCEPT !.overlap = TRUE],
     Taking({}, {}, {}, {l1, l2}, {c1, c2}),
     Taking({}, {q1}, {k1}, {l1}, {c1}),
     [Taking({}, {}, {}, {l1}, {c1}) EXCEPT !.lost = TRUE]}

\* Tries that only these two settings have may change places.
SameTries == Permutations({t1, t2, t3})

=============================================================================
