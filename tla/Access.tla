------------------------------- MODULE Access -------------------------------
(***************************************************************************)
(* The daemon's access policy (hotmem/policy.py) under concurrent          *)
(* requests.  A request is resolved to a credential of the policy object   *)
(* in force and keeps that credential while it waits, scans rows or        *)
(* exports; meanwhile managers revoke credentials and share approvals in   *)
(* place, and reload the policy file, which puts a new object in force.    *)
(***************************************************************************)
EXTENDS Integers, Sequences, FiniteSets

CONSTANTS
  Callers,     \* caller ids, each with one credential
  ShareIds,    \* approval ids
  Namespaces,
  Kinds,       \* of content: some of "plain", "secret", "private"
  Sessions,    \* session ids a write may name
  None,        \* no namespace header, session, request, thread or action
  Workers,     \* threads that serve memory requests
  Managers,    \* threads that serve revoke and reload
  Pins,        \* X-HotMem-Namespace headers that are sent
  Files,       \* the versions of the policy file
  Defaults,    \* what shared access comes to if nothing else is said
  Kept,        \* the rows at the start
  MaxRows,     \* bound: rows of the store
  MaxPolicies  \* bound: policy objects put in force

VARIABLES
  file,      \* version of the policy file
  policies,  \* policy objects; the last one is in force
  job,       \* the request each thread serves
  rows,      \* the store
  slot,      \* the thread that holds the write slot
  revoked    \* history variable: what answered revocations took away

vars == <<file, policies, job, rows, slot, revoked>>

Threads == Workers \cup Managers
Live == Len(policies)

-----------------------------------------------------------------------------
(* Credentials and what they allow.                                        *)

Row == [ns : Namespaces, kind : Kinds,
        by : Callers \cup {None}, session : Sessions \cup {None}]

Operations == {"read", "write", "export"}
Actions == {"allow", "redact", "omit", "fail"}

\* Approvals and credentials may say what becomes of secret and private rows.
ShareApproval ==
  [id : ShareIds, ns : Namespaces, audience : SUBSET Callers,
   ops : SUBSET Operations, secret : Actions \cup {None},
   private : (Actions \ {"redact"}) \cup {None}, revoked : BOOLEAN]

Credential ==
  [ns : SUBSET Namespaces, ops : SUBSET Operations, mgmt : BOOLEAN,
   secret : Actions \cup {None},
   private : (Actions \ {"redact"}) \cup {None},
   sessions : SUBSET Sessions, shares : Seq(ShareApproval),
   revoked : BOOLEAN]

ASSUME AccessAssumption ==
  /\ Kinds \subseteq {"plain", "secret", "private"}
  /\ Files \in Seq([Callers -> Credential]) /\ Files # <<>>
  /\ Kept \in Seq(Row)
  /\ {MaxRows, MaxPolicies} \subseteq Nat
  /\ Defaults \in [secret : Actions, private : Actions \ {"redact"}]
  /\ None \notin Callers \cup Sessions \cup Threads \cup Actions
  /\ Pins \subseteq Namespaces \cup {None}
  /\ Callers \cap ShareIds = {}    \* two parameters of a revocation
  /\ Workers \cap Managers = {}

Direct(cred, ns, op) == op \in cred.ops /\ ns \in cred.ns

\* allows_row, allows_namespace
Allows(share, caller, ns, op) ==
  /\ ~share.revoked
  /\ share.audience = {} \/ caller \in share.audience
  /\ op \in share.ops
  /\ ns = share.ns

Matching(cred, caller, ns, op) ==
  {i \in DOMAIN cred.shares : Allows(cred.shares[i], caller, ns, op)}

\* can_access_row, can_access_namespace
CanAccess(cred, caller, ns, op) ==
  Direct(cred, ns, op) \/ Matching(cred, caller, ns, op) # {}

Least(S) == CHOOSE n \in S : \A m \in S : n <= m

\* effective_disclosure_actions, apply_disclosure_to_row: what the first share
\* that matches says of a row that is secret or private, else what the
\* credential says, else a default: one for access that is only shared, and
\* "allow", also where the share has gone since the row was let through.
Disclosure(cred, caller, row, op) ==
  LET matching == Matching(cred, caller, row.ns, op)
      ofShare  == IF matching = {} THEN None
                  ELSE cred.shares[Least(matching)][row.kind]
      default  == IF matching # {} /\ ~Direct(cred, row.ns, op)
                  THEN Defaults[row.kind] ELSE "allow"
  IN  IF row.kind = "plain" THEN "allow"
      ELSE IF ofShare # None THEN ofShare
      ELSE IF cred[row.kind] # None THEN cred[row.kind] ELSE default

\* require_operation
MayDo(cred, op) ==
  IF op \in {"revoke", "reload"} THEN cred.mgmt
  ELSE \/ op \in cred.ops
       \/ \E i \in DOMAIN cred.shares :
            ~cred.shares[i].revoked /\ op \in cred.shares[i].ops

ClaimedByOthers(policy, caller) ==
  UNION {policy[c].sessions : c \in Callers \ {caller}}

MayName(policy, cred, caller, session) ==
  /\ cred.sessions = {} \/ session \in cred.sessions
  /\ session \notin ClaimedByOthers(policy, caller)

-----------------------------------------------------------------------------
(* Requests.                                                               *)

\* The credential a request holds: part of the object it was resolved with.
Held(t) == policies[job[t].policy][job[t].caller]

At(t, step) == job[t] # None /\ job[t].step = step

Reply(t) == job' = [job EXCEPT ![t] = None]

\* resolve_request and require_operation.  The handler runs later, in a
\* thread of its own.
Resolve(t, caller, op, pin, session) ==
  /\ job[t] = None
  /\ LET cred == policies[Live][caller]
     IN  /\ ~cred.revoked /\ MayDo(cred, op)
         /\ pin # None => CanAccess(cred, caller, pin, op)
         /\ session # None => MayName(policies[Live], cred, caller, session)
  /\ job' = [job EXCEPT ![t] =
               [op |-> op, caller |-> caller, policy |-> Live, pin |-> pin,
                session |-> session, step |-> op, next |-> 1, upto |-> 0,
                mayExport |-> FALSE, passed |-> {}, counted |-> {},
                out |-> {}, left |-> {}, shares |-> <<>>]]
  /\ UNCHANGED <<file, policies, rows, slot, revoked>>

\* A request that is refused, or fails; an export leaves nothing behind, a
\* reload the policy it found.
Fail(t) ==
  /\ job[t] # None /\ job[t].op # "revoke"
  /\ slot' = IF slot = t THEN None ELSE slot
  /\ Reply(t)
  /\ UNCHANGED <<file, policies, rows, revoked>>

-----------------------------------------------------------------------------
(* Reading and exporting.  Each row meets a filter, then the disclosure     *)
(* that decides how it is shown; both evaluate the credential held as it   *)
(* is at that moment, and a revocation may fall in between.                *)

Exporting(t) == job[t] # None /\ job[t].step \in {"count", "emit"}

\* can_access_row, of the next row
Permitted(t, op) ==
  LET ns == rows[job[t].next].ns
  IN  job[t].pin \in {None, ns} /\ CanAccess(Held(t), job[t].caller, ns, op)

\* The filter of an export asks for the right to export the next row, ...
AskExport(t) ==
  /\ Exporting(t) /\ job[t].next <= job[t].upto
  /\ job[t].passed = {} /\ ~job[t].mayExport
  /\ job' = IF Permitted(t, "export") THEN [job EXCEPT ![t].mayExport = TRUE]
                                      ELSE [job EXCEPT ![t].next = @ + 1]
  /\ UNCHANGED <<file, policies, rows, slot, revoked>>

\* ... and then, like that of a read, for the right to read it.
AskRead(t) ==
  /\ At(t, "scan") \/ (Exporting(t) /\ job[t].mayExport)
  /\ job[t].next <= job[t].upto
  /\ job' = [job EXCEPT ![t].next = @ + 1, ![t].mayExport = FALSE,
                        ![t].passed = IF Permitted(t, "read")
                                      THEN @ \cup {job[t].next} ELSE @]
  /\ UNCHANGED <<file, policies, rows, slot, revoked>>

\* A row that has passed the filter is disclosed: counted, with what becomes
\* of it, or shown unless it is omitted.  A read filters all its rows first,
\* an export goes row by row.  "fail" refuses the whole request.
Disclose(t) ==
  /\ Exporting(t) \/ (At(t, "scan") /\ job[t].next > job[t].upto)
  /\ job[t].passed # {}
  /\ LET n    == Least(job[t].passed)
         what == Disclosure(Held(t), job[t].caller, rows[n], job[t].op)
         item == [row |-> n, as |-> what]
     IN  /\ what # "fail"
         /\ job' = [job EXCEPT
              ![t].passed  = @ \ {n},
              ![t].counted = IF At(t, "count") THEN @ \cup {item} ELSE @,
              ![t].out     = IF At(t, "count") \/ what = "omit" THEN @
                             ELSE @ \cup {item}]
  /\ UNCHANGED <<file, policies, rows, slot, revoked>>

\* search, list_memories, list_files, hygiene and the like read rows of one
\* moment.
StartRead(t) ==
  /\ At(t, "read")
  /\ job' = [job EXCEPT ![t].step = "scan", ![t].upto = Len(rows)]
  /\ UNCHANGED <<file, policies, rows, slot, revoked>>

\* Every row of a pass has been dealt with.
PassEnds(t) == job[t].next > job[t].upto /\ job[t].passed = {}

Answer(t) ==
  /\ At(t, "scan") /\ PassEnds(t)
  /\ Reply(t)
  /\ UNCHANGED <<file, policies, rows, slot, revoked>>

\* Mutant: the rows are counted before the write slot is taken.
StartExport_Unlocked(t) ==
  /\ At(t, "export")
  /\ job' = [job EXCEPT ![t].step = "count", ![t].upto = Len(rows),
                        ![t].shares = Held(t).shares]
  /\ UNCHANGED <<file, policies, rows, slot, revoked>>

\* snapshot, under the write slot: one pass counts what will be exported...
\* (shares is a history field here: the approvals as the count found them.)
StartExport(t) ==
  /\ At(t, "export") /\ slot = None
  /\ slot' = t
  /\ job' = [job EXCEPT ![t].step = "count", ![t].upto = Len(rows),
                        ![t].shares = Held(t).shares]
  /\ UNCHANGED <<file, policies, rows, revoked>>

\* ... and another writes it (snapshot_write); out and counted become the
\* rows of the artifact and the scope and disclosure counts stored in it.
StartWriting(t) ==
  /\ At(t, "count") /\ PassEnds(t)
  /\ job' = [job EXCEPT ![t].step = "emit", ![t].next = 1,
                        ![t].upto = Len(rows)]
  /\ UNCHANGED <<file, policies, rows, slot, revoked>>

Publish(t) ==
  /\ At(t, "emit") /\ PassEnds(t)
  /\ slot' = None /\ Reply(t)
  /\ UNCHANGED <<file, policies, rows, revoked>>

-----------------------------------------------------------------------------
(* Writing.                                                                *)

\* effective_write_namespace: the pin, or a namespace of the credential.
MayWrite(t, ns) ==
  /\ ns \in IF job[t].pin = None THEN Held(t).ns ELSE {job[t].pin}
  /\ CanAccess(Held(t), job[t].caller, ns, "write")

\* Mutant: the session named in the body is believed.
Validate_Header(t, ns, session) ==
  /\ At(t, "write")
  /\ MayWrite(t, ns)
  /\ session # None /\ job[t].session \in {None, session}
  /\ job' = [job EXCEPT ![t].step = "commit", ![t].pin = ns,
                        ![t].session = session]
  /\ UNCHANGED <<file, policies, rows, slot, revoked>>

\* add, up to the write slot: the namespace, and the session of the header
\* or the body, are checked with the credential held and the claims of the
\* policy now in force.
Validate(t, ns, session) ==
  /\ At(t, "write")
  /\ MayWrite(t, ns)
  /\ session # None /\ job[t].session \in {None, session}
  /\ MayName(policies[Live], Held(t), job[t].caller, session)
  /\ job' = [job EXCEPT ![t].step = "commit", ![t].pin = ns,
                        ![t].session = session]
  /\ UNCHANGED <<file, policies, rows, slot, revoked>>

\* The transaction; see Runtime and EventStore.
Commit(t, kind) ==
  /\ At(t, "commit") /\ slot = None
  /\ Len(rows) < MaxRows                           \* bound
  /\ rows' = Append(rows, [ns |-> job[t].pin, kind |-> kind,
                           by |-> job[t].caller, session |-> job[t].session])
  /\ Reply(t)
  /\ UNCHANGED <<file, policies, slot, revoked>>

-----------------------------------------------------------------------------
(* Managing.                                                               *)

\* Mutant: the first credential with the approval is enough.
Holders_First(policy, name) ==
  LET holding == {c \in Callers : \E i \in DOMAIN policy[c].shares :
                                    policy[c].shares[i].id = name}
  IN  IF name \in Callers \/ holding = {} THEN Callers
      ELSE {CHOOSE c \in holding : TRUE}

\* The credentials a revocation goes through.
Holders(policy, name) == Callers

\* revoke_caller and revoke_share_approval act on the object in force now.
StartRevoke(t, name) ==
  /\ At(t, "revoke")
  /\ job' = [job EXCEPT ![t].step = "revoking", ![t].policy = Live,
                        ![t].pin = name,
                        ![t].left = Holders(policies[Live], name)]
  /\ UNCHANGED <<file, policies, rows, slot, revoked>>

Concerns(share, name) == name = share.id \/ name \in share.audience

Marked(shares, name) ==
  [i \in DOMAIN shares |->
     [shares[i] EXCEPT !.revoked = @ \/ Concerns(shares[i], name)]]

\* The approvals of one credential are read, ...
ReadShares(t, c) ==
  /\ At(t, "revoking") /\ c \in job[t].left
  /\ LET shares == policies[job[t].policy][c].shares
         marked == Marked(shares, job[t].pin)
     IN  /\ job' = [job EXCEPT
                      ![t].step = IF job[t].pin \in Callers /\ marked = shares
                                  THEN "revoking" ELSE "store",
                      ![t].caller = c, ![t].left = @ \ {c},
                      ![t].shares = marked]
         /\ policies' = [policies EXCEPT ![job[t].policy][c].revoked =
                           @ \/ c = job[t].pin]
  /\ UNCHANGED <<file, rows, slot, revoked>>

\* ... and replaced.
StoreShares(t) ==
  /\ At(t, "store")
  /\ policies' = [policies EXCEPT ![job[t].policy][job[t].caller].shares =
                    job[t].shares]
  /\ job' = [job EXCEPT ![t].step = "revoking", ![t].shares = <<>>]
  /\ UNCHANGED <<file, rows, slot, revoked>>

\* What a revocation takes away: the credential (0) and the approvals in
\* every credential that it concerns.
TakenAway(p, name) ==
  {<<p, c, 0>> : c \in Callers \cap {name}} \cup
  UNION {{<<p, c, i>> : i \in {i \in DOMAIN policies[p][c].shares :
                                Concerns(policies[p][c].shares[i], name)}}
           : c \in Callers}

AnswerRevoke(t) ==
  /\ At(t, "revoking") /\ job[t].left = {}
  /\ revoked' = revoked \cup TakenAway(job[t].policy, job[t].pin)
  /\ Reply(t)
  /\ UNCHANGED <<file, policies, rows, slot>>

\* The operator writes the next version of the file.
EditFile ==
  /\ file < Len(Files) /\ file' = file + 1
  /\ UNCHANGED <<policies, job, rows, slot, revoked>>

\* reload_policy reads the file, ...
LoadFile(t) ==
  /\ At(t, "reload")
  /\ job' = [job EXCEPT ![t].step = "install", ![t].next = file]
  /\ UNCHANGED <<file, policies, rows, slot, revoked>>

\* ... and puts what it read in force.
Install(t) ==
  /\ At(t, "install") /\ Live < MaxPolicies        \* bound
  /\ policies' = Append(policies, Files[job[t].next])
  /\ Reply(t)
  /\ UNCHANGED <<file, rows, slot, revoked>>

-----------------------------------------------------------------------------
Init ==
  /\ file = 1 /\ policies = <<Files[1]>>
  /\ job = [t \in Threads |-> None]
  /\ rows = Kept /\ slot = None
  /\ revoked = {}

Serve(t) ==
  \/ \E caller \in Callers, op \in {"read", "export"}, pin \in Pins :
       Resolve(t, caller, op, pin, None)
  \/ \E caller \in Callers, pin \in Pins, session \in Sessions \cup {None} :
       Resolve(t, caller, "write", pin, session)
  \/ AskExport(t) \/ AskRead(t) \/ Disclose(t)
  \/ StartRead(t) \/ Answer(t)
  \/ StartExport(t) \/ StartWriting(t) \/ Publish(t)
  \/ \E ns \in Namespaces, session \in Sessions : Validate(t, ns, session)
  \/ \E kind \in Kinds : Commit(t, kind)
  \/ Fail(t)

Manage(t) ==
  \/ \E caller \in Callers, op \in {"revoke", "reload"} :
       Resolve(t, caller, op, None, None)
  \/ \E name \in Callers \cup ShareIds : StartRevoke(t, name)
  \/ \E c \in Callers : ReadShares(t, c)
  \/ StoreShares(t) \/ AnswerRevoke(t)
  \/ LoadFile(t) \/ Install(t) \/ Fail(t)

Next ==
  \/ \E t \in Workers : Serve(t)
  \/ \E t \in Managers : Manage(t)
  \/ EditFile

Spec == Init /\ [][Next]_vars

-----------------------------------------------------------------------------
(* Properties.                                                             *)

\* A right to the namespace that no answered revocation has taken away.
Granted(t, ns, op) ==
  \/ Direct(Held(t), ns, op)
  \/ \E i \in DOMAIN Held(t).shares :
       /\ <<job[t].policy, job[t].caller, i>> \notin revoked
       /\ Allows([Held(t).shares[i] EXCEPT !.revoked = FALSE],
                 job[t].caller, ns, op)

Running(t) == t \in Workers /\ job[t] # None /\ job'[t] # None

\* Revocation is immediate where rights are asked for: once it is answered no
\* request of the caller begins, and the approval lets no further row through
\* a filter and opens no further namespace to any request, those that are
\* running included.  What has passed the filter may still go out.
RevocationImmediate ==
  [][\A t \in Threads :
       /\ job[t] = None /\ job'[t] # None
            => <<Live, job'[t].caller, 0>> \notin revoked
       /\ Running(t) =>
            /\ \A n \in job'[t].passed \ job[t].passed :
                 Granted(t, rows[n].ns, "read")
            /\ job'[t].mayExport /\ ~job[t].mayExport
                 => Granted(t, rows[job[t].next].ns, "export")
            /\ job[t].step = "write" /\ job'[t].step = "commit"
                 => Granted(t, job'[t].pin, "write")]_vars

\* What an export writes is in its counts, whatever is revoked meanwhile: no
\* row that was counted as out of scope is in the artifact; and unless an
\* approval the export relies on was revoked since the count began, the
\* artifact is what was counted, row for row and as it was counted.
CountsCoverExport ==
  \A t \in Workers : At(t, "emit") =>
    /\ {item.row : item \in job[t].out} \subseteq {item.row : item \in job[t].counted}
    /\ PassEnds(t) /\ Held(t).shares = job[t].shares
         => job[t].out = {item \in job[t].counted : item.as # "omit"}

\* A row names a session that, at some moment of the request that wrote it,
\* belonged to nobody but its writer.
OwnSessions ==
  [][\A t \in Workers :
       rows' # rows /\ job[t] # None /\ job'[t] = None =>
         \E p \in job[t].policy .. Live :
           job[t].session \notin ClaimedByOthers(policies[p],
                                                 job[t].caller)]_vars

\* What comments and docs say and the code does not do; see the README.

\* runtime.py: scope and disclosure counts describe the emitted snapshot.
ScopeDescribesArtifact ==
  \A t \in Workers : At(t, "emit") /\ PassEnds(t)
    => job[t].out = {item \in job[t].counted : item.as # "omit"}

\* Docs: revocation is immediate.  A row that has passed the filter goes out,
\* by then as the credential's own action or "allow" has it, not redacted as
\* the approval said.
RevokedShowsNothing ==
  [][\A t \in Workers : Running(t) =>
       \A item \in job'[t].out \ job[t].out :
         Granted(t, rows[item.row].ns, "read")]_vars
=============================================================================
