------------------------------- MODULE Users -------------------------------
(***************************************************************************)
(* Users, and the registration requests that become users.  A person signs *)
(* in as the active user their identity resolves to.  Others ask for an    *)
(* account, and an administrator approves or rejects.  No call locks       *)
(* anything: each reads and checks, and writes later, and only the unique  *)
(* indexes of the two tables stand between two of them.                    *)
(*                                                                         *)
(* E-mails and identity texts are as normalised (stripped, in lower case). *)
(* Usernames keep their case.  A subject stands for itself and its         *)
(* provider, which are set together.                                       *)
(***************************************************************************)
EXTENDS Integers, Sequences, FiniteSets

CONSTANTS
  Username, Email, Subject,
  InLowerCase,     \* usernames in lower case
  NoValue,         \* NULL
  Client,          \* the connections of the pool
  AdminRow,        \* bound: the rows administrators write, active or not
  MaxUser, MaxRequest   \* bounds: rows of the two tables

NoUser == 0

VARIABLES
  users, requests,
  job              \* what each connection has read and is about to write

vars == <<users, requests, job>>

Idle == [do |-> "nothing"]

User ==
  [username : Username, email : Email \cup {NoValue}, subject : Subject \cup {NoValue},
   active : BOOLEAN]

\* An identity as its token states it.
Identity == [email : Email, subject : Subject]

Request ==
  [username : Username, email : Email, subject : Subject,
   status : {"pending", "approved", "rejected"}, reason : BOOLEAN,
   reviewed : BOOLEAN, user : NoUser .. MaxUser]

ASSUME UsersAssumption ==
  /\ NoValue \notin Email \cup Subject
  /\ MaxUser \in Nat /\ MaxRequest \in Nat
  /\ AdminRow \subseteq User

Init == users = <<>> /\ requests = <<>> /\ job = [c \in Client |-> Idle]

-----------------------------------------------------------------------------
(* What the calls look up.                                                 *)

SameName(a, b) == InLowerCase[a] = InLowerCase[b]

First(ids) == CHOOSE u \in ids : \A v \in ids : u <= v

\* The active user with the subject of an identity or, without one, with its
\* e-mail.  (Who signs in from another hosted domain than that of the account is
\* refused: left out, since an account that is approved has none, and one that an
\* administrator sets does not change which account it is.)
SignsInAs(identity) ==
  LET active    == { u \in DOMAIN users : users[u].active }
      bySubject == { u \in active : users[u].subject = identity.subject }
      byEmail   == { u \in active : users[u].email = identity.email }
  IN  IF bySubject # {} THEN First(bySubject)
      ELSE IF byEmail # {} THEN First(byEmail) ELSE NoUser

PendingRequests == { r \in DOMAIN requests : requests[r].status = "pending" }

\* Unique indexes of users: the username as it is written, and e-mail and
\* subject when there is one.
EmailOnly(row, id) ==
  \A u \in DOMAIN users \ {id} :
    /\ users[u].username # row.username
    /\ row.email # NoValue => users[u].email # row.email

UserFits(row, id) ==
  \A u \in DOMAIN users \ {id} :
    /\ users[u].username # row.username
    /\ row.email # NoValue => users[u].email # row.email
    /\ row.subject # NoValue => users[u].subject # row.subject

\* Unique indexes of pending requests.
RequestFits(row) ==
  \A r \in PendingRequests :
    requests[r].email # row.email /\ ~SameName(requests[r].username, row.username)

-----------------------------------------------------------------------------
(* Reading and checking.                                                   *)

Reads(c, found) == job[c] = Idle /\ job' = [job EXCEPT ![c] = found] /\ UNCHANGED <<users, requests>>

CreateRegistrationRequest(c, identity, username) ==
  /\ SignsInAs(identity) = NoUser
  /\ \A r \in PendingRequests : requests[r].email # identity.email
  /\ \A u \in DOMAIN users : ~SameName(users[u].username, username)
  /\ \A r \in PendingRequests : ~SameName(requests[r].username, username)
  /\ Reads(c, [do |-> "register",
               row |-> [username |-> username, email |-> identity.email,
                        subject |-> identity.subject, status |-> "pending",
                        reason |-> FALSE, reviewed |-> FALSE, user |-> NoUser]])

\* The administrator may choose another username.
ApproveRegistrationRequest(c, r, username) ==
  /\ requests[r].status = "pending"
  /\ \A u \in DOMAIN users :
       /\ ~SameName(users[u].username, username)
       /\ users[u].email # requests[r].email
       /\ users[u].subject # requests[r].subject
  /\ Reads(c, [do |-> "approve", id |-> r,
               row |-> [username |-> username, email |-> requests[r].email,
                        subject |-> requests[r].subject, active |-> TRUE]])

RejectRegistrationRequest(c, r) ==
  /\ requests[r].status = "pending"
  /\ Reads(c, [do |-> "reject", id |-> r])

\* All columns are written back: those the caller gives, and the others as
\* read.  To give a column what was read is no different from not giving it;
\* givesActive tells the two apart for the flag.
UpdateUser(c, u, row, givesActive) ==
  Reads(c, [do |-> "update", id |-> u, givesActive |-> givesActive,
            row |-> IF givesActive THEN row ELSE [row EXCEPT !.active = users[u].active]])

-----------------------------------------------------------------------------
(* Writing and committing.                                                 *)

Done(c) == job' = [job EXCEPT ![c] = Idle]

WriteRequest(c) ==
  /\ job[c].do = "register"
  /\ RequestFits(job[c].row)
  /\ Len(requests) < MaxRequest
  /\ requests' = Append(requests, job[c].row)
  /\ Done(c) /\ UNCHANGED users

\* Fault: the reason of a rejection stays with the request.
ReasonStays(row, username, u) ==
  [row EXCEPT !.username = username, !.status = "approved", !.reviewed = TRUE, !.user = u]

Approved(row, username, u) ==
  [row EXCEPT !.username = username, !.status = "approved", !.reason = FALSE,
              !.reviewed = TRUE, !.user = u]

Rejected(row) ==
  [row EXCEPT !.status = "rejected", !.reason = TRUE, !.reviewed = TRUE, !.user = NoUser]

\* The user is created and the request marked, whatever became of it since.
WriteApproval(c) ==
  /\ job[c].do = "approve"
  /\ UserFits(job[c].row, NoUser)
  /\ Len(users) < MaxUser
  /\ users' = Append(users, job[c].row)
  /\ requests' = [requests EXCEPT ![job[c].id] =
                    Approved(@, job[c].row.username, Len(users) + 1)]
  /\ Done(c)

WriteRejection(c) ==
  /\ job[c].do = "reject"
  /\ requests' = [requests EXCEPT ![job[c].id] = Rejected(@)]
  /\ Done(c) /\ UNCHANGED users

WriteUser(c) ==
  /\ job[c].do = "update"
  /\ UserFits(job[c].row, job[c].id)
  /\ users' = [users EXCEPT ![job[c].id] = job[c].row]
  /\ Done(c) /\ UNCHANGED requests

\* A unique index refuses the row: the call fails and is rolled back.
Conflict(c) ==
  /\ \/ job[c].do = "register" /\ ~RequestFits(job[c].row)
     \/ job[c].do = "approve" /\ ~UserFits(job[c].row, NoUser)
     \/ job[c].do = "update" /\ ~UserFits(job[c].row, job[c].id)
  /\ Done(c) /\ UNCHANGED <<users, requests>>

\* Calls of one statement, which read nothing.
CreateUser(row) ==
  /\ Len(users) < MaxUser
  /\ UserFits(row, NoUser)
  /\ users' = Append(users, row)
  /\ UNCHANGED <<requests, job>>

DeactivateUser(u) ==
  /\ users' = [users EXCEPT ![u].active = FALSE]
  /\ UNCHANGED <<requests, job>>

Next ==
  \/ \E c \in Client, identity \in Identity, name \in Username :
       CreateRegistrationRequest(c, identity, name)
  \/ \E c \in Client, r \in DOMAIN requests, name \in Username :
       ApproveRegistrationRequest(c, r, name)
  \/ \E c \in Client, r \in DOMAIN requests : RejectRegistrationRequest(c, r)
  \/ \E c \in Client, u \in DOMAIN users, row \in AdminRow, givesActive \in BOOLEAN :
       UpdateUser(c, u, row, givesActive)
  \/ \E c \in Client :
       \/ WriteRequest(c)
       \/ WriteApproval(c)
       \/ WriteRejection(c)
       \/ WriteUser(c)
       \/ Conflict(c)
  \/ \E row \in AdminRow : CreateUser(row)
  \/ \E u \in DOMAIN users : DeactivateUser(u)

Spec == Init /\ [][Next]_vars

-----------------------------------------------------------------------------
(* Properties.                                                             *)

\* A request is reviewed when it is decided, has a reason when it is rejected,
\* and the user it became, like no other request, when it is approved.
Whole(r) ==
  /\ requests[r].reviewed <=> requests[r].status # "pending"
  /\ requests[r].reason <=> requests[r].status = "rejected"
  /\ IF requests[r].status = "approved"
     THEN /\ requests[r].user \in DOMAIN users
          /\ \A s \in DOMAIN requests \ {r} : requests[s].user # requests[r].user
     ELSE requests[r].user = NoUser

\* Types, and what every request says of its decision: a pending one nothing
\* yet, an approved one its user, a rejected one its reason.  However two
\* decisions of one request overlap, the row tells of one of them.
DecisionsAreWhole ==
  /\ users \in Seq(User) /\ requests \in Seq(Request)
  /\ \A r \in DOMAIN requests : Whole(r)

\* Who asked for an approved account signs in to that account and no other,
\* as long as it is active and nobody gave it another identity.
ApprovedSignsIn ==
  \A r \in DOMAIN requests :
    LET identity == [email |-> requests[r].email, subject |-> requests[r].subject]
        u        == requests[r].user
    IN  requests[r].status = "approved" /\ users[u].active
          /\ users[u].email = identity.email /\ users[u].subject = identity.subject
          => SignsInAs(identity) = u

\* "Only pending registration requests can be approved", and rejected.
DecisionIsFinal ==
  [][ \A r \in DOMAIN requests :
        requests[r].status # "pending" => requests'[r].status = requests[r].status ]_vars

\* A deactivated user is active again only when an edit says so.
DeactivationStays ==
  [][ \A u \in DOMAIN users :
        ~users[u].active /\ users'[u].active
        => \E c \in Client : job[c].do = "update" /\ job[c].givesActive ]_vars
=============================================================================
