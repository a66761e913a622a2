------------------------------ MODULE MCAccess ------------------------------
(* Access on small instances.                                              *)
EXTENDS Access, TLC

CONSTANTS owner, guest, s1, s2, n1

\* An approval that the owner's and the guest's credentials both carry.
Approval(id, ops, secret) ==
  [id |-> id, ns |-> n1, audience |-> {owner, guest}, ops |-> ops,
   secret |-> secret, private |-> "omit", revoked |-> FALSE]

Cred(ns, ops, mgmt, sessions, shares) ==
  [ns |-> ns, ops |-> ops, mgmt |-> mgmt, secret |-> None, private |-> None,
   sessions |-> sessions, shares |-> shares, revoked |-> FALSE]

Redacted == [secret |-> "redact", private |-> "omit"]

File(sessionsOf, shares) ==
  (owner :> Cred({n1}, {"write"}, TRUE, sessionsOf[1], shares)) @@
  (guest :> Cred({}, {}, FALSE, sessionsOf[2], shares))

WorkersAlike == Permutations(Workers)

One == <<Approval(s1, {"read", "write", "export"}, None)>>
Two == Append(One, Approval(s2, {"read", "export"}, "allow"))

\* Between the versions the session passes from the owner to the guest.
PolicyFiles(shares) == <<File(<<Sessions, {}>>, shares),
                         File(<<{}, Sessions>>, shares)>>
OneShare == PolicyFiles(One)
TwoShares == PolicyFiles(Two)

NoRows == <<>>
KeptRows == <<[ns |-> n1, kind |-> "secret", by |-> None, session |-> None]>>
=============================================================================
