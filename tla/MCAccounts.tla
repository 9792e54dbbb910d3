------------------------------ MODULE MCAccounts ------------------------------
(* Two acceptances of one invite, or signups with their address, beside    *)
(* one request that changes the invite or deletes the studio and one that  *)
(* does the same or adds the account directly.                             *)
EXTENDS Accounts

CONSTANTS r1, r2, r3, r4, i1, e1, e2, h1

MCRequests == {r1, r2, r3, r4}
MCInvites == {i1}
MCEmails == {e1, e2}
MCHandles == {h1}

Accept(i, token, email, asked) ==
  [kind |-> "accept", invite |-> i, token |-> token, email |-> email, handle |-> h1, asked |-> asked]
Signup(email) == [kind |-> "signup", email |-> email, handle |-> h1, asked |-> FALSE]
Add(email, capitals) == [kind |-> "add", email |-> email, handle |-> h1, capitals |-> capitals]
Revoke == [kind |-> "revoke", invite |-> i1]
Regenerate == [kind |-> "regenerate", invite |-> i1]
Remove == [kind |-> "remove"]

MCSends ==
  [r \in MCRequests |->
     CASE r = r1 -> {Accept(i1, 0, e1, FALSE), Signup(e1)}
       [] r = r2 -> {Accept(i1, 0, e2, FALSE), Accept(i1, 1, e2, TRUE), Signup(e1)}
       [] r = r3 -> {Revoke, Regenerate, Remove}
       [] r = r4 -> {Add(e1, TRUE), Regenerate, Remove}]
=============================================================================
