--------------------------- MODULE RecordsProofs ---------------------------
(***************************************************************************)
(* Theorems about tables whose rows have unique keys and refer to other    *)
(* rows.                                                                   *)
(*                                                                         *)
(* Users, for any names, identities, number of connections and rows:       *)
(* however calls overlap, a request tells of one decision, and who was     *)
(* approved signs in to the approved account.                              *)
(*                                                                         *)
(* OrderImports, for any files, numbers and urls and however many jobs and *)
(* calls: no import, undo, redo, edit or deletion leaves a row without the *)
(* row it refers to or gives two rows one key, and a purchase order is     *)
(* imported once unless its header is released.                            *)
(***************************************************************************)
EXTENDS Users, OrderImports, QuantityLemmas, TLAPS

-----------------------------------------------------------------------------
(* Users.                                                                  *)

\* What a call in progress may have read.
UserJob ==
  { Idle }
  \cup [do : {"register"},
        row : { row \in Request : /\ row.status = "pending" /\ ~row.reason
                                  /\ ~row.reviewed /\ row.user = NoUser }]
  \cup [do : {"approve"}, id : Nat, row : User]
  \cup [do : {"reject"}, id : Nat]
  \cup [do : {"update"}, id : Nat, row : User, givesActive : BOOLEAN]

\* A row a call refers to is there, and stays: no call deletes one.
JobOK(c) ==
  /\ job[c] \in UserJob
  /\ job[c].do \in {"approve", "reject"} => job[c].id \in DOMAIN requests
  /\ job[c].do = "update" => job[c].id \in DOMAIN users

\* The unique index of users on subject.
SubjectsDiffer ==
  \A u, v \in DOMAIN users :
    u # v /\ users[u].subject # NoValue => users[u].subject # users[v].subject

IInv ==
  /\ DecisionsAreWhole
  /\ Len(users) <= MaxUser
  /\ SubjectsDiffer
  /\ DOMAIN job = Client
  /\ \A c \in Client : JobOK(c)

-----------------------------------------------------------------------------
\* A row appended to a table is its last one, and leaves the others alone.
LEMMA Appended ==
  ASSUME NEW S, NEW table \in Seq(S), NEW row \in S
  PROVE  /\ Append(table, row) \in Seq(S)
         /\ Len(Append(table, row)) = Len(table) + 1
         /\ Len(table) \in Nat /\ DOMAIN table = 1 .. Len(table)
         /\ DOMAIN Append(table, row) = 1 .. (Len(table) + 1)
         /\ \A i \in DOMAIN table : Append(table, row)[i] = table[i]
         /\ Append(table, row)[Len(table) + 1] = row
OBVIOUS

\* A row written back leaves the others alone.
LEMMA RowReplaced ==
  ASSUME NEW S, NEW table \in Seq(S), NEW i \in DOMAIN table, NEW row \in S
  PROVE  /\ [table EXCEPT ![i] = row] \in Seq(S)
         /\ Len([table EXCEPT ![i] = row]) = Len(table)
         /\ DOMAIN [table EXCEPT ![i] = row] = DOMAIN table
         /\ \A k \in DOMAIN table :
              [table EXCEPT ![i] = row][k] = IF k = i THEN row ELSE table[k]
OBVIOUS

\* There is nothing yet.
LEMMA InitInv == Init => IInv
BY UsersAssumption DEF Init, IInv, DecisionsAreWhole, SubjectsDiffer, JobOK, UserJob, Idle

\* A call that reads changes no table; what it read is there.
LEMMA ReadStep ==
  ASSUME IInv, NEW c \in Client, NEW found \in UserJob, Reads(c, found),
         found.do \in {"approve", "reject"} => found.id \in DOMAIN requests,
         found.do = "update" => found.id \in DOMAIN users
  PROVE  IInv'
<1>1. job' = [job EXCEPT ![c] = found] /\ users' = users /\ requests' = requests
  BY DEF Reads
<1>2. DOMAIN job' = Client
  BY <1>1 DEF IInv
<1>3. ASSUME NEW d \in Client PROVE JobOK(d)'
  <2>1. CASE d = c
    BY <1>1, <2>1 DEF IInv, JobOK
  <2>2. CASE d # c
    BY <1>1, <2>2 DEF IInv, JobOK
  <2>3. QED
    BY <2>1, <2>2
<1>4. DecisionsAreWhole' /\ SubjectsDiffer' /\ (Len(users) <= MaxUser)'
  BY <1>1 DEF IInv, DecisionsAreWhole, Whole, SubjectsDiffer
<1>5. QED
  BY <1>2, <1>3, <1>4 DEF IInv

\* A call that ends leaves the others as they are.
LEMMA OthersStay ==
  ASSUME IInv, NEW c \in Client, Done(c),
         DOMAIN requests \subseteq DOMAIN requests', DOMAIN users \subseteq DOMAIN users'
  PROVE  DOMAIN job' = Client /\ \A d \in Client : JobOK(d)'
<1>1. DOMAIN job' = Client
  BY DEF IInv, Done
<1>2. ASSUME NEW d \in Client PROVE JobOK(d)'
  <2>1. CASE d = c
    <3>1. job'[d] = Idle
      BY <2>1 DEF Done, IInv
    <3>2. QED
      BY <3>1 DEF JobOK, UserJob, Idle
  <2>2. CASE d # c
    <3>1. job'[d] = job[d]
      BY <2>2 DEF Done, IInv
    <3>2. QED
      BY <3>1 DEF IInv, JobOK
  <2>3. QED
    BY <2>1, <2>2
<1>3. QED
  BY <1>1, <1>2

\* What a decision in progress will write.
LEMMA JobTypes ==
  ASSUME IInv, NEW c \in Client
  PROVE  /\ job[c].do = "register" =>
              /\ job[c].row \in Request /\ job[c].row.status = "pending"
              /\ ~job[c].row.reason /\ ~job[c].row.reviewed /\ job[c].row.user = NoUser
         /\ job[c].do = "approve" => job[c].row \in User /\ job[c].id \in DOMAIN requests
         /\ job[c].do = "reject" => job[c].id \in DOMAIN requests
         /\ job[c].do = "update" => job[c].row \in User /\ job[c].id \in DOMAIN users
<1>1. JobOK(c)
  BY DEF IInv
<1>2. QED
  BY <1>1 DEF JobOK, UserJob, Idle

\* A user who is new or written back keeps subjects different, by the index.
LEMMA NewUserFits ==
  ASSUME IInv, NEW row \in User, UserFits(row, NoUser), users' = Append(users, row)
  PROVE  SubjectsDiffer'
<1>1. users \in Seq(User) /\ SubjectsDiffer
  BY DEF IInv, DecisionsAreWhole
<1>2. /\ Len(users) \in Nat /\ DOMAIN users = 1 .. Len(users)
      /\ DOMAIN users' = 1 .. (Len(users) + 1)
      /\ \A i \in DOMAIN users : users'[i] = users[i]
      /\ users'[Len(users) + 1] = row
  BY <1>1, Appended
<1>3. \A u \in DOMAIN users : row.subject # NoValue => users[u].subject # row.subject
  BY <1>2 DEF UserFits, NoUser
<1>4. QED
  BY <1>1, <1>2, <1>3 DEF SubjectsDiffer

\* A row that fits leaves the subjects unique.
LEMMA EditedUserFits ==
  ASSUME IInv, NEW row \in User, NEW u \in DOMAIN users, UserFits(row, u),
         users' = [users EXCEPT ![u] = row]
  PROVE  SubjectsDiffer'
<1>1. users \in Seq(User) /\ SubjectsDiffer
  BY DEF IInv, DecisionsAreWhole
<1>2. /\ DOMAIN users' = DOMAIN users
      /\ \A k \in DOMAIN users : users'[k] = IF k = u THEN row ELSE users[k]
  BY <1>1, RowReplaced
<1>3. \A k \in DOMAIN users \ {u} : row.subject # NoValue => users[k].subject # row.subject
  BY DEF UserFits
<1>4. QED
  BY <1>1, <1>2, <1>3 DEF SubjectsDiffer

\* With the requests as they were and no user less, decisions stay whole.
LEMMA UsersGrow ==
  ASSUME IInv, requests' = requests, users' \in Seq(User), DOMAIN users \subseteq DOMAIN users'
  PROVE  DecisionsAreWhole'
BY DEF IInv, DecisionsAreWhole, Whole

\* The request a person sends is written.
LEMMA WriteRequestStep ==
  ASSUME IInv, NEW c \in Client, WriteRequest(c)
  PROVE  IInv'
<1> DEFINE row == job[c].row
<1>1. /\ row \in Request /\ row.status = "pending"
      /\ ~row.reason /\ ~row.reviewed /\ row.user = NoUser
  BY JobTypes DEF WriteRequest
<1>2. requests \in Seq(Request) /\ requests' = Append(requests, row) /\ users' = users
  BY DEF WriteRequest, IInv, DecisionsAreWhole
<1> HIDE DEF row
<1>3. /\ requests' \in Seq(Request)
      /\ Len(requests) \in Nat /\ DOMAIN requests = 1 .. Len(requests)
      /\ DOMAIN requests' = 1 .. (Len(requests) + 1)
      /\ \A i \in DOMAIN requests : requests'[i] = requests[i]
      /\ requests'[Len(requests) + 1] = row
  BY <1>1, <1>2, Appended
<1>4. NoUser \notin DOMAIN users
  BY DEF IInv, DecisionsAreWhole, NoUser
<1>5. \A r \in DOMAIN requests : Whole(r)
  BY DEF IInv, DecisionsAreWhole
<1>6. ASSUME NEW r \in DOMAIN requests' PROVE Whole(r)'
  <2>1. CASE r \in DOMAIN requests
    <3>1. requests'[r] = requests[r] /\ Whole(r)
      BY <1>3, <1>5, <2>1
    <3>2. requests[r].status = "approved" =>
            \A s \in DOMAIN requests' \ {r} : requests'[s].user # requests[r].user
      BY <1>1, <1>3, <1>4, <3>1 DEF Whole
    <3>3. QED
      BY <1>2, <3>1, <3>2 DEF Whole
  <2>2. CASE r = Len(requests) + 1
    BY <1>1, <1>3, <2>2 DEF Whole
  <2>3. QED
    BY <1>3, <2>1, <2>2
<1>7. DecisionsAreWhole'
  BY <1>2, <1>3, <1>6 DEF DecisionsAreWhole, IInv
<1>8. DOMAIN job' = Client /\ \A d \in Client : JobOK(d)'
  BY <1>2, <1>3, OthersStay DEF WriteRequest
<1>9. QED
  BY <1>2, <1>7, <1>8 DEF IInv, SubjectsDiffer

\* A request that another call decided meanwhile is decided anew, as a whole.
LEMMA WriteApprovalStep ==
  ASSUME IInv, NEW c \in Client, WriteApproval(c)
  PROVE  IInv'
<1> DEFINE row == job[c].row  n == Len(users) + 1  k == job[c].id
           new == Approved(requests[k], row.username, n)
<1>1. row \in User /\ k \in DOMAIN requests
  BY JobTypes DEF WriteApproval
<1>2. /\ requests \in Seq(Request) /\ users \in Seq(User) /\ Len(users) < MaxUser
      /\ users' = Append(users, row) /\ UserFits(row, NoUser)
      /\ requests' = [requests EXCEPT ![k] = new]
  BY DEF WriteApproval, IInv, DecisionsAreWhole
<1>3. requests[k] \in Request
  BY <1>1, <1>2
<1>4. /\ users' \in Seq(User) /\ Len(users') = n
      /\ Len(users) \in Nat /\ DOMAIN users = 1 .. Len(users) /\ DOMAIN users' = 1 .. n
  <2> HIDE DEF row
  <2> QED BY <1>1, <1>2, Appended
<1>5. /\ new \in Request /\ new.status = "approved" /\ new.reviewed /\ ~new.reason
      /\ new.user = n
  <2>1. n \in NoUser .. MaxUser /\ row.username \in Username
    BY <1>1, <1>2, <1>4, UsersAssumption DEF NoUser, User
  <2>2. QED
    BY <1>3, <2>1 DEF Approved, Request
<1> HIDE DEF row, new
<1>6. /\ requests' \in Seq(Request) /\ DOMAIN requests' = DOMAIN requests
      /\ \A r \in DOMAIN requests : requests'[r] = IF r = k THEN new ELSE requests[r]
  BY <1>1, <1>2, <1>5, RowReplaced
<1>7. \A r \in DOMAIN requests : Whole(r) /\ requests[r] \in Request
  BY <1>2 DEF IInv, DecisionsAreWhole
<1>8. \A r \in DOMAIN requests : requests[r].user # n
  BY <1>4, <1>7 DEF Whole, Request, NoUser
<1>9. ASSUME NEW r \in DOMAIN requests' PROVE Whole(r)'
  <2>1. CASE r = k
    <3>1. requests'[r] = new /\ n \in DOMAIN users'
      BY <1>4, <1>6, <2>1
    <3>2. \A s \in DOMAIN requests' \ {r} : requests'[s].user # n
      BY <1>6, <1>8, <2>1
    <3>3. QED
      BY <1>5, <3>1, <3>2 DEF Whole
  <2>2. CASE r # k
    <3>1. requests'[r] = requests[r] /\ Whole(r) /\ requests[r].user # n
      BY <1>6, <1>7, <1>8, <2>2
    <3>2. requests[r].status = "approved" => requests[r].user \in DOMAIN users'
      <4>1. requests[r].status = "approved" => requests[r].user \in DOMAIN users
        BY <3>1 DEF Whole
      <4>2. \A u \in DOMAIN users : u \in DOMAIN users'
        BY <1>1, <1>4
      <4> QED BY <4>1, <4>2
    <3>3. requests[r].status = "approved" =>
            \A s \in DOMAIN requests' \ {r} : requests'[s].user # requests[r].user
      <4>1. requests[r].status = "approved" =>
              \A s \in DOMAIN requests \ {r} : requests[s].user # requests[r].user
        BY <3>1 DEF Whole
      <4> QED BY <1>5, <1>6, <3>1, <4>1
    <3>4. QED
      BY <3>1, <3>2, <3>3 DEF Whole
  <2>3. QED
    BY <2>1, <2>2
<1>10. DecisionsAreWhole'
  BY <1>4, <1>6, <1>9 DEF DecisionsAreWhole
<1>11. SubjectsDiffer'
  BY <1>1, <1>2, NewUserFits
<1>12. DOMAIN job' = Client /\ \A d \in Client : JobOK(d)'
  BY <1>4, <1>6, OthersStay DEF WriteApproval
<1>13. Len(users') <= MaxUser
  BY <1>2, <1>4, UsersAssumption
<1>14. QED
  BY <1>10, <1>11, <1>12, <1>13 DEF IInv

\* A rejection is written.
LEMMA WriteRejectionStep ==
  ASSUME IInv, NEW c \in Client, WriteRejection(c)
  PROVE  IInv'
<1> DEFINE k == job[c].id  new == Rejected(requests[k])
<1>1. k \in DOMAIN requests
  BY JobTypes DEF WriteRejection
<1>2. /\ requests \in Seq(Request) /\ users' = users
      /\ requests' = [requests EXCEPT ![k] = new]
  BY DEF WriteRejection, IInv, DecisionsAreWhole
<1>3. requests[k] \in Request
  BY <1>1, <1>2
<1>4. /\ new \in Request /\ new.status = "rejected" /\ new.reviewed /\ new.reason
      /\ new.user = NoUser
  <2>1. NoUser \in NoUser .. MaxUser
    BY UsersAssumption DEF NoUser
  <2>2. QED
    BY <1>3, <2>1 DEF Rejected, Request
<1> HIDE DEF new
<1>5. /\ requests' \in Seq(Request) /\ DOMAIN requests' = DOMAIN requests
      /\ \A r \in DOMAIN requests : requests'[r] = IF r = k THEN new ELSE requests[r]
  BY <1>1, <1>2, <1>4, RowReplaced
<1>6. NoUser \notin DOMAIN users
  BY DEF IInv, DecisionsAreWhole, NoUser
<1>7. \A r \in DOMAIN requests : Whole(r)
  BY DEF IInv, DecisionsAreWhole
<1>8. ASSUME NEW r \in DOMAIN requests' PROVE Whole(r)'
  <2>1. CASE r = k
    BY <1>4, <1>5, <2>1 DEF Whole
  <2>2. CASE r # k
    <3>1. requests'[r] = requests[r] /\ Whole(r)
      BY <1>5, <1>7, <2>2
    <3>2. requests[r].status = "approved" =>
            \A s \in DOMAIN requests' \ {r} : requests'[s].user # requests[r].user
      BY <1>4, <1>5, <1>6, <3>1 DEF Whole
    <3>3. QED
      BY <1>2, <3>1, <3>2 DEF Whole
  <2>3. QED
    BY <2>1, <2>2
<1>9. DecisionsAreWhole'
  BY <1>2, <1>5, <1>8 DEF DecisionsAreWhole, IInv
<1>10. DOMAIN job' = Client /\ \A d \in Client : JobOK(d)'
  BY <1>2, <1>5, OthersStay DEF WriteRejection
<1>11. QED
  BY <1>2, <1>9, <1>10 DEF IInv, SubjectsDiffer

\* What an administrator edits is written.
LEMMA WriteUserStep ==
  ASSUME IInv, NEW c \in Client, WriteUser(c)
  PROVE  IInv'
<1> DEFINE row == job[c].row  u == job[c].id
<1>1. row \in User /\ u \in DOMAIN users
  BY JobTypes DEF WriteUser
<1>2. /\ users \in Seq(User) /\ requests' = requests /\ UserFits(row, u)
      /\ users' = [users EXCEPT ![u] = row]
  BY DEF WriteUser, IInv, DecisionsAreWhole
<1> HIDE DEF row, u
<1>3. users' \in Seq(User) /\ Len(users') = Len(users) /\ DOMAIN users' = DOMAIN users
  BY <1>1, <1>2, RowReplaced
<1>4. DecisionsAreWhole'
  BY <1>2, <1>3, UsersGrow
<1>5. SubjectsDiffer'
  BY <1>1, <1>2, EditedUserFits
<1>6. DOMAIN job' = Client /\ \A d \in Client : JobOK(d)'
  BY <1>2, <1>3, OthersStay DEF WriteUser
<1>7. QED
  BY <1>3, <1>4, <1>5, <1>6 DEF IInv

\* Tables of calls that hold nothing read: the jobs stay as they are.
LEMMA JobsStay ==
  ASSUME IInv, job' = job, requests' = requests, DOMAIN users \subseteq DOMAIN users'
  PROVE  DOMAIN job' = Client /\ \A d \in Client : JobOK(d)'
BY DEF IInv, JobOK

\* An administrator writes a user.
LEMMA CreateUserStep ==
  ASSUME IInv, NEW row \in AdminRow, CreateUser(row)
  PROVE  IInv'
<1>1. /\ row \in User /\ users \in Seq(User) /\ Len(users) < MaxUser
      /\ users' = Append(users, row) /\ UserFits(row, NoUser)
      /\ requests' = requests /\ job' = job
  BY UsersAssumption DEF CreateUser, IInv, DecisionsAreWhole
<1>2. /\ users' \in Seq(User) /\ Len(users') = Len(users) + 1 /\ Len(users) \in Nat
      /\ DOMAIN users \subseteq DOMAIN users'
  BY <1>1, Appended
<1>3. DecisionsAreWhole'
  BY <1>1, <1>2, UsersGrow
<1>4. SubjectsDiffer'
  BY <1>1, NewUserFits
<1>5. DOMAIN job' = Client /\ \A d \in Client : JobOK(d)'
  BY <1>1, <1>2, JobsStay
<1>6. Len(users') <= MaxUser
  BY <1>1, <1>2, UsersAssumption
<1>7. QED
  BY <1>3, <1>4, <1>5, <1>6 DEF IInv

\* An administrator deactivates one.
LEMMA DeactivateUserStep ==
  ASSUME IInv, NEW u \in DOMAIN users, DeactivateUser(u)
  PROVE  IInv'
<1> DEFINE row == [users[u] EXCEPT !.active = FALSE]
<1>1. /\ users \in Seq(User) /\ users' = [users EXCEPT ![u] = row]
      /\ requests' = requests /\ job' = job
  BY DEF DeactivateUser, IInv, DecisionsAreWhole
<1>2. users[u] \in User
  BY <1>1
<1>3. row \in User /\ row.subject = users[u].subject
  BY <1>2 DEF User
<1> HIDE DEF row
<1>4. /\ users' \in Seq(User) /\ Len(users') = Len(users) /\ DOMAIN users' = DOMAIN users
      /\ \A k \in DOMAIN users : users'[k] = IF k = u THEN row ELSE users[k]
  BY <1>1, <1>3, RowReplaced
<1>5. DecisionsAreWhole'
  BY <1>1, <1>4, UsersGrow
<1>6. SubjectsDiffer'
  BY <1>3, <1>4 DEF IInv, SubjectsDiffer
<1>7. DOMAIN job' = Client /\ \A d \in Client : JobOK(d)'
  BY <1>1, <1>4, JobsStay
<1>8. QED
  BY <1>4, <1>5, <1>6, <1>7 DEF IInv

\* Every call keeps the invariant, the reading half and the writing half.
LEMMA InvStep == IInv /\ [Next]_vars => IInv'
<1> SUFFICES ASSUME IInv, [Next]_vars PROVE IInv'
  OBVIOUS
<1>1. requests \in Seq(Request) /\ users \in Seq(User)
  BY DEF IInv, DecisionsAreWhole
<1>2. DOMAIN requests \subseteq Nat /\ DOMAIN users \subseteq Nat
  BY <1>1
<1>3. \A r \in DOMAIN requests : requests[r] \in Request
  BY <1>1
<1>4. ASSUME NEW c \in Client, NEW identity \in Identity, NEW name \in Username,
             CreateRegistrationRequest(c, identity, name)
      PROVE  IInv'
  <2> DEFINE row == [username |-> name, email |-> identity.email,
                     subject |-> identity.subject, status |-> "pending",
                     reason |-> FALSE, reviewed |-> FALSE, user |-> NoUser]
             found == [do |-> "register", row |-> row]
  <2>1. NoUser \in NoUser .. MaxUser
    BY UsersAssumption DEF NoUser
  <2>2. row \in Request
    BY <2>1 DEF Request, Identity
  <2>3. found \in UserJob /\ found.do = "register"
    BY <2>2 DEF UserJob
  <2>4. Reads(c, found)
    BY <1>4 DEF CreateRegistrationRequest
  <2> HIDE DEF found
  <2>5. QED
    BY <2>3, <2>4, ReadStep
<1>5. ASSUME NEW c \in Client, NEW r \in DOMAIN requests, NEW name \in Username,
             ApproveRegistrationRequest(c, r, name)
      PROVE  IInv'
  <2> DEFINE row == [username |-> name, email |-> requests[r].email,
                     subject |-> requests[r].subject, active |-> TRUE]
             found == [do |-> "approve", id |-> r, row |-> row]
  <2>1. row \in User
    BY <1>3 DEF User, Request
  <2>2. found \in UserJob /\ found.do = "approve" /\ found.id = r
    BY <1>2, <2>1 DEF UserJob
  <2>3. Reads(c, found)
    BY <1>5 DEF ApproveRegistrationRequest
  <2> HIDE DEF found
  <2>4. QED
    BY <2>2, <2>3, ReadStep
<1>6. ASSUME NEW c \in Client, NEW r \in DOMAIN requests, RejectRegistrationRequest(c, r)
      PROVE  IInv'
  <2> DEFINE found == [do |-> "reject", id |-> r]
  <2>1. found \in UserJob /\ found.do = "reject" /\ found.id = r
    BY <1>2 DEF UserJob
  <2>2. Reads(c, found)
    BY <1>6 DEF RejectRegistrationRequest
  <2> HIDE DEF found
  <2>3. QED
    BY <2>1, <2>2, ReadStep
<1>7. ASSUME NEW c \in Client, NEW u \in DOMAIN users, NEW row \in AdminRow,
             NEW givesActive \in BOOLEAN, UpdateUser(c, u, row, givesActive)
      PROVE  IInv'
  <2> DEFINE written == IF givesActive THEN row ELSE [row EXCEPT !.active = users[u].active]
             found == [do |-> "update", id |-> u, givesActive |-> givesActive, row |-> written]
  <2>1. row \in User /\ users[u] \in User
    BY <1>1, UsersAssumption
  <2>2. written \in User
    BY <2>1 DEF User
  <2>3. found \in UserJob /\ found.do = "update" /\ found.id = u
    BY <1>2, <2>2 DEF UserJob
  <2>4. Reads(c, found)
    BY <1>7 DEF UpdateUser
  <2> HIDE DEF found
  <2>5. QED
    BY <2>3, <2>4, ReadStep
<1>8. ASSUME NEW c \in Client, Conflict(c) PROVE IInv'
  <2>1. users' = users /\ requests' = requests /\ Done(c)
    BY <1>8 DEF Conflict
  <2>2. DOMAIN job' = Client /\ \A d \in Client : JobOK(d)'
    BY <2>1, OthersStay
  <2>3. QED
    BY <2>1, <2>2 DEF IInv, DecisionsAreWhole, Whole, SubjectsDiffer
<1>9. CASE UNCHANGED vars
  BY <1>9 DEF vars, IInv, DecisionsAreWhole, Whole, SubjectsDiffer, JobOK
<1>10. QED
  BY <1>4, <1>5, <1>6, <1>7, <1>8, <1>9, WriteRequestStep, WriteApprovalStep,
     WriteRejectionStep, WriteUserStep, CreateUserStep, DeactivateUserStep DEF Next

-----------------------------------------------------------------------------
\* Calls that overlap keep the invariant.
LEMMA InvCorrect == Spec => []IInv
BY InitInv, InvStep, PTL DEF Spec

\* However many administrators decide one request at once, its row tells of one
\* decision, and no two approved requests became the same user.
THEOREM DecisionsCorrect == Spec => []DecisionsAreWhole
<1>1. IInv => DecisionsAreWhole
  BY DEF IInv
<1>2. QED
  BY <1>1, InvCorrect, PTL

\* The subject comes first in a sign-in, and no other user has it.
LEMMA SignIn == IInv => ApprovedSignsIn
<1> SUFFICES ASSUME IInv, NEW r \in DOMAIN requests, requests[r].status = "approved",
                    users[requests[r].user].active,
                    users[requests[r].user].subject = requests[r].subject
             PROVE  SignsInAs([email |-> requests[r].email, subject |-> requests[r].subject])
                      = requests[r].user
  BY DEF ApprovedSignsIn
<1> DEFINE u == requests[r].user
           bySubject == { v \in DOMAIN users :
                            users[v].active /\ users[v].subject = requests[r].subject }
<1>1. u \in DOMAIN users /\ requests[r] \in Request
  BY DEF IInv, DecisionsAreWhole, Whole
<1>2. requests[r].subject # NoValue
  BY <1>1, UsersAssumption DEF Request
<1>3. bySubject = {u}
  BY <1>1, <1>2 DEF IInv, SubjectsDiffer
<1>4. u \in Nat
  BY <1>1 DEF IInv, DecisionsAreWhole
<1>5. First({u}) = u
  BY <1>4 DEF First
<1>6. { v \in { w \in DOMAIN users : users[w].active } :
          users[v].subject = requests[r].subject } = bySubject
  OBVIOUS
<1>7. QED
  BY <1>3, <1>5, <1>6 DEF SignsInAs

\* get_user_by_identity: whoever was approved signs in to the account that was
\* approved, whatever was edited, created or deactivated at the same time.
THEOREM SignInCorrect == Spec => []ApprovedSignsIn
BY SignIn, InvCorrect, PTL

-----------------------------------------------------------------------------
(* Imports.                                                                *)

\* A row of any table.
Row == ItemRecord \cup AliasRecord \cup QuotationRecord \cup HeaderRecord \cup LineRecord

\* What an import did to a row.
Effect == [table : TableName, before : SUBSET Row, after : Row]

AliasFileRow == [type : {"alias"}, name : Name, canonical : Name, units : Nat]

\* What a request works on.
Works ==
  [items : SUBSET ItemRecord, aliases : SUBSET AliasRecord, quotations : SUBSET QuotationRecord,
   headers : SUBSET HeaderRecord, lines : SUBSET LineRecord, lastId : Nat,
   effects : Seq(Effect), deferred : Seq(AliasFileRow), seenQuotations : SUBSET QuotationNumber,
   seenNumbers : SUBSET Number, stopped : BOOLEAN]

-----------------------------------------------------------------------------
(* Sound tables.                                                           *)

ItemsSound(items, last) ==
  /\ items \subseteq ItemRecord
  /\ \A r \in items : r.id \in 1 .. last
  /\ \A r, s \in items : r.id = s.id \/ r.name = s.name => r = s

AliasesSound(items, aliases, last) ==
  /\ aliases \subseteq AliasRecord
  /\ \A r \in aliases : r.id \in 1 .. last /\ r.item \in Ids(items)
  /\ \A r, s \in aliases : r.id = s.id \/ r.name = s.name => r = s

QuotationsSound(quotations, last) ==
  /\ quotations \subseteq QuotationRecord
  /\ \A r \in quotations : r.id \in 1 .. last
  /\ \A r, s \in quotations : r.id = s.id \/ r.number = s.number => r = s

HeadersSound(headers, last) ==
  /\ headers \subseteq HeaderRecord
  /\ \A r \in headers : r.id \in 1 .. last
  /\ \A r, s \in headers : r.id = s.id \/ r.number = s.number => r = s
  /\ \A r, s \in headers : r.url # 0 /\ r.url = s.url => r = s

LinesSound(items, quotations, headers, lines, last) ==
  /\ lines \subseteq LineRecord
  /\ \A r \in lines : /\ r.id \in 1 .. last /\ r.item \in Ids(items)
                      /\ r.quotation \in Ids(quotations) /\ r.header \in Ids(headers)
  /\ \A r, s \in lines : r.id = s.id => r = s

Sound(db) ==
  /\ db.lastId \in Nat
  /\ ItemsSound(db.items, db.lastId)
  /\ AliasesSound(db.items, db.aliases, db.lastId)
  /\ QuotationsSound(db.quotations, db.lastId)
  /\ HeadersSound(db.headers, db.lastId)
  /\ LinesSound(db.items, db.quotations, db.headers, db.lines, db.lastId)

\* A header can be imported to only if it was released.
Guarded(headers, released) == \A r \in headers : r.locked \/ r.id \in released

\* Whatever an undo puts back was there under the same id and key and with the same
\* lock, and does not take a document url that another row may have by now.
EffectSound(e, last) ==
  /\ e \in Effect
  /\ e.after.id \in 1 .. last
  /\ e.table = "items" => e.after \in ItemRecord /\ e.before = {}
  /\ e.table = "aliases" =>
       /\ e.after \in AliasRecord /\ e.before \subseteq AliasRecord
       /\ \A b \in e.before : b.id = e.after.id /\ b.name = e.after.name
  /\ e.table = "quotations" =>
       /\ e.after \in QuotationRecord /\ e.before \subseteq QuotationRecord
       /\ \A b \in e.before : b.id = e.after.id /\ b.number = e.after.number
  /\ e.table = "headers" =>
       /\ e.after \in HeaderRecord /\ e.before \subseteq HeaderRecord
       /\ \A b \in e.before : /\ b.id = e.after.id /\ b.number = e.after.number
                              /\ b.url = 0 /\ b.locked = e.after.locked
  /\ e.table = "lines" => /\ e.after \in LineRecord /\ e.before = {}
                          /\ e.after.header \in 1 .. last
  /\ \A b, c \in e.before : b = c

EffectsSound(effects, last) ==
  \A n \in DOMAIN effects : EffectSound(effects[n], last)

-----------------------------------------------------------------------------
(* Rows that come, go and change.                                          *)

\* Ids are given in ascending order, so what is sound stays so as they grow.
LEMMA SoundLater ==
  ASSUME NEW last \in Nat, NEW later \in Nat, last <= later,
         NEW items, NEW aliases, NEW quotations, NEW headers, NEW lines
  PROVE  /\ ItemsSound(items, last) => ItemsSound(items, later)
         /\ AliasesSound(items, aliases, last) => AliasesSound(items, aliases, later)
         /\ QuotationsSound(quotations, last) => QuotationsSound(quotations, later)
         /\ HeadersSound(headers, last) => HeadersSound(headers, later)
         /\ LinesSound(items, quotations, headers, lines, last)
              => LinesSound(items, quotations, headers, lines, later)
<1>1. \A n : n \in 1 .. last => n \in 1 .. later
  OBVIOUS
<1>2. QED
  BY <1>1 DEF ItemsSound, AliasesSound, QuotationsSound, HeadersSound, LinesSound

\* Effects stay sound as ids are given.
LEMMA EffectsLater ==
  ASSUME NEW last \in Nat, NEW later \in Nat, last <= later,
         NEW effects, EffectsSound(effects, last)
  PROVE  EffectsSound(effects, later)
<1>1. \A n : n \in 1 .. last => n \in 1 .. later
  OBVIOUS
<1>2. ASSUME NEW e, EffectSound(e, last) PROVE EffectSound(e, later)
  BY <1>1, <1>2 DEF EffectSound
<1>3. QED
  BY <1>2 DEF EffectsSound

\* A row that changes keeps its id and key; a new row has a new id and a new key.
LEMMA ItemAdded ==
  ASSUME NEW last \in Nat, NEW items, ItemsSound(items, last), NEW row \in ItemRecord,
         row.id = last + 1, \A r \in items : r.name # row.name
  PROVE  ItemsSound(items \cup {row}, last + 1)
<1>1. \A r \in items : r.id \in 1 .. (last + 1) /\ r.id # row.id
  BY DEF ItemsSound
<1>2. row.id \in 1 .. (last + 1)
  OBVIOUS
<1>3. QED
  BY <1>1, <1>2 DEF ItemsSound

\* A new alias of an item that is there, under a name of its own, keeps the aliases sound.
LEMMA AliasAdded ==
  ASSUME NEW last \in Nat, NEW items, NEW aliases, AliasesSound(items, aliases, last),
         NEW row \in AliasRecord, row.id = last + 1, \A r \in aliases : r.name # row.name,
         row.item \in Ids(items)
  PROVE  AliasesSound(items, aliases \cup {row}, last + 1)
<1>1. \A r \in aliases : r.id \in 1 .. (last + 1) /\ r.id # row.id
  BY DEF AliasesSound
<1>2. row.id \in 1 .. (last + 1)
  OBVIOUS
<1>3. QED
  BY <1>1, <1>2 DEF AliasesSound

\* An alias written again under its id and name keeps the aliases sound.
LEMMA AliasChanged ==
  ASSUME NEW last \in Nat, NEW items, NEW aliases, AliasesSound(items, aliases, last),
         NEW row \in AliasRecord, NEW was \in aliases, row.id = was.id, row.name = was.name,
         row.item \in Ids(items)
  PROVE  AliasesSound(items, (aliases \ {was}) \cup {row}, last)
BY DEF AliasesSound

\* A new quotation of a number of its own keeps the quotations sound.
LEMMA QuotationAdded ==
  ASSUME NEW last \in Nat, NEW quotations, QuotationsSound(quotations, last),
         NEW row \in QuotationRecord, row.id = last + 1,
         \A r \in quotations : r.number # row.number
  PROVE  QuotationsSound(quotations \cup {row}, last + 1)
<1>1. \A r \in quotations : r.id \in 1 .. (last + 1) /\ r.id # row.id
  BY DEF QuotationsSound
<1>2. row.id \in 1 .. (last + 1)
  OBVIOUS
<1>3. QED
  BY <1>1, <1>2 DEF QuotationsSound

\* A quotation written again under its id and number keeps the quotations sound.
LEMMA QuotationChanged ==
  ASSUME NEW last \in Nat, NEW quotations, QuotationsSound(quotations, last),
         NEW row \in QuotationRecord, NEW was \in quotations,
         row.id = was.id, row.number = was.number
  PROVE  QuotationsSound((quotations \ {was}) \cup {row}, last)
BY DEF QuotationsSound

\* A new purchase order of a number of its own keeps the headers sound.
LEMMA HeaderAdded ==
  ASSUME NEW last \in Nat, NEW headers, HeadersSound(headers, last),
         NEW row \in HeaderRecord, row.id = last + 1,
         \A r \in headers : r.number # row.number /\ ~(row.url # 0 /\ r.url = row.url)
  PROVE  HeadersSound(headers \cup {row}, last + 1)
<1>1. \A r \in headers : r.id \in 1 .. (last + 1) /\ r.id # row.id
  BY DEF HeadersSound
<1>2. row.id \in 1 .. (last + 1)
  OBVIOUS
<1>3. QED
  BY <1>1, <1>2 DEF HeadersSound

\* A header may also get another number, and a document url that no other has.
LEMMA HeaderChanged ==
  ASSUME NEW last \in Nat, NEW headers, HeadersSound(headers, last),
         NEW row \in HeaderRecord, NEW was \in headers, row.id = was.id,
         \A r \in headers : r # was => /\ r.number # row.number
                                       /\ ~(row.url # 0 /\ r.url = row.url)
  PROVE  HeadersSound((headers \ {was}) \cup {row}, last)
BY DEF HeadersSound

\* A new line of a header, quotation and item that are there keeps the lines sound.
LEMMA LineAdded ==
  ASSUME NEW last \in Nat, NEW items, NEW quotations, NEW headers, NEW lines,
         LinesSound(items, quotations, headers, lines, last),
         NEW row \in LineRecord, row.id = last + 1, row.item \in Ids(items),
         row.quotation \in Ids(quotations), row.header \in Ids(headers)
  PROVE  LinesSound(items, quotations, headers, lines \cup {row}, last + 1)
<1>1. \A r \in lines : r.id \in 1 .. (last + 1) /\ r.id # row.id
  BY DEF LinesSound
<1>2. row.id \in 1 .. (last + 1)
  OBVIOUS
<1>3. QED
  BY <1>1, <1>2 DEF LinesSound

\* A line written again under its id keeps the lines sound.
LEMMA LineChanged ==
  ASSUME NEW last \in Nat, NEW items, NEW quotations, NEW headers, NEW lines,
         LinesSound(items, quotations, headers, lines, last),
         NEW row \in LineRecord, NEW was \in lines, row.id = was.id, row.item \in Ids(items),
         row.quotation \in Ids(quotations), row.header \in Ids(headers)
  PROVE  LinesSound(items, quotations, headers, (lines \ {was}) \cup {row}, last)
BY DEF LinesSound

\* Rows may go that no other row refers to.
LEMMA RowsGone ==
  ASSUME NEW last, NEW items, NEW aliases, NEW quotations, NEW headers, NEW lines,
         NEW i \in SUBSET items, NEW a \in SUBSET aliases, NEW q \in SUBSET quotations,
         NEW h \in SUBSET headers, NEW l \in SUBSET lines
  PROVE  /\ ItemsSound(items, last) => ItemsSound(i, last)
         /\ AliasesSound(items, aliases, last) /\ (\A r \in a : r.item \in Ids(i))
              => AliasesSound(i, a, last)
         /\ QuotationsSound(quotations, last) => QuotationsSound(q, last)
         /\ HeadersSound(headers, last) => HeadersSound(h, last)
         /\ /\ LinesSound(items, quotations, headers, lines, last)
            /\ \A r \in l : r.item \in Ids(i) /\ r.quotation \in Ids(q) /\ r.header \in Ids(h)
            => LinesSound(i, q, h, l, last)
<1>1. ItemsSound(items, last) => ItemsSound(i, last)
  BY DEF ItemsSound
<1>2. AliasesSound(items, aliases, last) /\ (\A r \in a : r.item \in Ids(i))
      => AliasesSound(i, a, last)
  BY DEF AliasesSound
<1>3. QuotationsSound(quotations, last) => QuotationsSound(q, last)
  BY DEF QuotationsSound
<1>4. HeadersSound(headers, last) => HeadersSound(h, last)
  BY DEF HeadersSound
<1>5. /\ LinesSound(items, quotations, headers, lines, last)
      /\ \A r \in l : r.item \in Ids(i) /\ r.quotation \in Ids(q) /\ r.header \in Ids(h)
      => LinesSound(i, q, h, l, last)
  BY DEF LinesSound
<1>6. QED
  BY <1>1, <1>2, <1>3, <1>4, <1>5

\* Lines and aliases see of other tables only the ids.
LEMMA SameIds ==
  ASSUME NEW last, NEW items, NEW aliases, NEW quotations, NEW headers, NEW lines,
         NEW i, NEW q, NEW h,
         Ids(items) \subseteq Ids(i), Ids(quotations) \subseteq Ids(q), Ids(headers) \subseteq Ids(h)
  PROVE  /\ AliasesSound(items, aliases, last) => AliasesSound(i, aliases, last)
         /\ LinesSound(items, quotations, headers, lines, last)
              => LinesSound(i, q, h, lines, last)
BY DEF AliasesSound, LinesSound

-----------------------------------------------------------------------------
(* What a request works on.                                                *)

WorkOf(i, a, q, h, l, last, effects, deferred, seenQ, seenN, stopped) ==
  [items |-> i, aliases |-> a, quotations |-> q, headers |-> h, lines |-> l, lastId |-> last,
   effects |-> effects, deferred |-> deferred, seenQuotations |-> seenQ,
   seenNumbers |-> seenN, stopped |-> stopped]

\* db is a work with these parts.
Has(db, i, a, q, h, l, last, effects, deferred, seenQ, seenN, stopped) ==
  /\ db \in Works
  /\ db.items = i /\ db.aliases = a /\ db.quotations = q /\ db.headers = h /\ db.lines = l
  /\ db.lastId = last /\ db.effects = effects /\ db.deferred = deferred
  /\ db.seenQuotations = seenQ /\ db.seenNumbers = seenN /\ db.stopped = stopped

\* The fields of what a request works on.
LEMMA WorksFields ==
  ASSUME NEW db \in Works
  PROVE  /\ db.items \in SUBSET ItemRecord /\ db.aliases \in SUBSET AliasRecord
         /\ db.quotations \in SUBSET QuotationRecord /\ db.headers \in SUBSET HeaderRecord
         /\ db.lines \in SUBSET LineRecord /\ db.lastId \in Nat
         /\ db.effects \in Seq(Effect) /\ db.deferred \in Seq(AliasFileRow)
         /\ db.seenQuotations \in SUBSET QuotationNumber /\ db.seenNumbers \in SUBSET Number
         /\ db.stopped \in BOOLEAN
BY DEF Works

\* The work of a request is the record of its parts.
LEMMA WorkFields ==
  ASSUME NEW db \in Works
  PROVE  db = WorkOf(db.items, db.aliases, db.quotations, db.headers, db.lines, db.lastId,
                     db.effects, db.deferred, db.seenQuotations, db.seenNumbers, db.stopped)
BY DEF Works, WorkOf

\* The record built of parts has those parts.
LEMMA WorkHas ==
  ASSUME NEW i \in SUBSET ItemRecord, NEW a \in SUBSET AliasRecord,
         NEW q \in SUBSET QuotationRecord, NEW h \in SUBSET HeaderRecord,
         NEW l \in SUBSET LineRecord, NEW last \in Nat, NEW effects \in Seq(Effect),
         NEW deferred \in Seq(AliasFileRow), NEW seenQ \in SUBSET QuotationNumber,
         NEW seenN \in SUBSET Number, NEW stopped \in BOOLEAN
  PROVE  Has(WorkOf(i, a, q, h, l, last, effects, deferred, seenQ, seenN, stopped),
             i, a, q, h, l, last, effects, deferred, seenQ, seenN, stopped)
<1>1. WorkOf(i, a, q, h, l, last, effects, deferred, seenQ, seenN, stopped) \in Works
  BY DEF WorkOf, Works
<1>2. LET db == WorkOf(i, a, q, h, l, last, effects, deferred, seenQ, seenN, stopped)
      IN  /\ db.items = i /\ db.aliases = a /\ db.quotations = q /\ db.headers = h
          /\ db.lines = l /\ db.lastId = last /\ db.effects = effects
          /\ db.deferred = deferred /\ db.seenQuotations = seenQ
          /\ db.seenNumbers = seenN /\ db.stopped = stopped
  BY DEF WorkOf
<1>3. QED
  BY <1>1, <1>2 DEF Has

\* The id after the last, if a row is new.
Given(db, before) == IF before = NoRow THEN db.lastId + 1 ELSE db.lastId

Noting(db, table, before, row) ==
  Append(db.effects, [table |-> table, before |-> before, after |-> row])

\* One part changes.
LEMMA ItemsSet ==
  ASSUME NEW db \in Works, NEW new \in SUBSET ItemRecord
  PROVE  Has([db EXCEPT !.items = new], new, db.aliases, db.quotations, db.headers, db.lines, db.lastId,
           db.effects, db.deferred, db.seenQuotations, db.seenNumbers, db.stopped)
<1> DEFINE with(x) ==
             WorkOf(x, db.aliases, db.quotations, db.headers, db.lines, db.lastId, db.effects,
                    db.deferred, db.seenQuotations, db.seenNumbers, db.stopped)
<1>1. db = with(db.items)
  BY WorkFields
<1>2. \A x, y : [with(x) EXCEPT !.items = y] = with(y)
  BY DEF WorkOf
<1>3. Has(with(new), new, db.aliases, db.quotations, db.headers, db.lines, db.lastId, db.effects,
    db.deferred, db.seenQuotations, db.seenNumbers, db.stopped)
  BY WorksFields, WorkHas
<1> HIDE DEF with
<1>4. [db EXCEPT !.items = new] = with(new)
  BY <1>1, <1>2
<1>5. QED
  BY <1>3, <1>4

\* Writing the aliases leaves the other parts of the work alone.
LEMMA AliasesSet ==
  ASSUME NEW db \in Works, NEW new \in SUBSET AliasRecord
  PROVE  Has([db EXCEPT !.aliases = new], db.items, new, db.quotations, db.headers, db.lines, db.lastId,
           db.effects, db.deferred, db.seenQuotations, db.seenNumbers, db.stopped)
<1> DEFINE with(x) ==
             WorkOf(db.items, x, db.quotations, db.headers, db.lines, db.lastId, db.effects,
                    db.deferred, db.seenQuotations, db.seenNumbers, db.stopped)
<1>1. db = with(db.aliases)
  BY WorkFields
<1>2. \A x, y : [with(x) EXCEPT !.aliases = y] = with(y)
  BY DEF WorkOf
<1>3. Has(with(new), db.items, new, db.quotations, db.headers, db.lines, db.lastId, db.effects,
    db.deferred, db.seenQuotations, db.seenNumbers, db.stopped)
  BY WorksFields, WorkHas
<1> HIDE DEF with
<1>4. [db EXCEPT !.aliases = new] = with(new)
  BY <1>1, <1>2
<1>5. QED
  BY <1>3, <1>4

\* Writing the quotations leaves the other parts of the work alone.
LEMMA QuotationsSet ==
  ASSUME NEW db \in Works, NEW new \in SUBSET QuotationRecord
  PROVE  Has([db EXCEPT !.quotations = new], db.items, db.aliases, new, db.headers, db.lines, db.lastId,
           db.effects, db.deferred, db.seenQuotations, db.seenNumbers, db.stopped)
<1> DEFINE with(x) ==
             WorkOf(db.items, db.aliases, x, db.headers, db.lines, db.lastId, db.effects,
                    db.deferred, db.seenQuotations, db.seenNumbers, db.stopped)
<1>1. db = with(db.quotations)
  BY WorkFields
<1>2. \A x, y : [with(x) EXCEPT !.quotations = y] = with(y)
  BY DEF WorkOf
<1>3. Has(with(new), db.items, db.aliases, new, db.headers, db.lines, db.lastId, db.effects,
    db.deferred, db.seenQuotations, db.seenNumbers, db.stopped)
  BY WorksFields, WorkHas
<1> HIDE DEF with
<1>4. [db EXCEPT !.quotations = new] = with(new)
  BY <1>1, <1>2
<1>5. QED
  BY <1>3, <1>4

\* Writing the headers leaves the other parts of the work alone.
LEMMA HeadersSet ==
  ASSUME NEW db \in Works, NEW new \in SUBSET HeaderRecord
  PROVE  Has([db EXCEPT !.headers = new], db.items, db.aliases, db.quotations, new, db.lines, db.lastId,
           db.effects, db.deferred, db.seenQuotations, db.seenNumbers, db.stopped)
<1> DEFINE with(x) ==
             WorkOf(db.items, db.aliases, db.quotations, x, db.lines, db.lastId, db.effects,
                    db.deferred, db.seenQuotations, db.seenNumbers, db.stopped)
<1>1. db = with(db.headers)
  BY WorkFields
<1>2. \A x, y : [with(x) EXCEPT !.headers = y] = with(y)
  BY DEF WorkOf
<1>3. Has(with(new), db.items, db.aliases, db.quotations, new, db.lines, db.lastId, db.effects,
    db.deferred, db.seenQuotations, db.seenNumbers, db.stopped)
  BY WorksFields, WorkHas
<1> HIDE DEF with
<1>4. [db EXCEPT !.headers = new] = with(new)
  BY <1>1, <1>2
<1>5. QED
  BY <1>3, <1>4

\* Writing the lines leaves the other parts of the work alone.
LEMMA LinesSet ==
  ASSUME NEW db \in Works, NEW new \in SUBSET LineRecord
  PROVE  Has([db EXCEPT !.lines = new], db.items, db.aliases, db.quotations, db.headers, new, db.lastId,
           db.effects, db.deferred, db.seenQuotations, db.seenNumbers, db.stopped)
<1> DEFINE with(x) ==
             WorkOf(db.items, db.aliases, db.quotations, db.headers, x, db.lastId, db.effects,
                    db.deferred, db.seenQuotations, db.seenNumbers, db.stopped)
<1>1. db = with(db.lines)
  BY WorkFields
<1>2. \A x, y : [with(x) EXCEPT !.lines = y] = with(y)
  BY DEF WorkOf
<1>3. Has(with(new), db.items, db.aliases, db.quotations, db.headers, new, db.lastId, db.effects,
    db.deferred, db.seenQuotations, db.seenNumbers, db.stopped)
  BY WorksFields, WorkHas
<1> HIDE DEF with
<1>4. [db EXCEPT !.lines = new] = with(new)
  BY <1>1, <1>2
<1>5. QED
  BY <1>3, <1>4

\* Deferring an alias leaves the other parts of the work alone.
LEMMA DeferredSet ==
  ASSUME NEW db \in Works, NEW new \in Seq(AliasFileRow)
  PROVE  Has([db EXCEPT !.deferred = new], db.items, db.aliases, db.quotations, db.headers, db.lines,
           db.lastId, db.effects, new, db.seenQuotations, db.seenNumbers, db.stopped)
<1> DEFINE with(x) ==
             WorkOf(db.items, db.aliases, db.quotations, db.headers, db.lines, db.lastId,
                    db.effects, x, db.seenQuotations, db.seenNumbers, db.stopped)
<1>1. db = with(db.deferred)
  BY WorkFields
<1>2. \A x, y : [with(x) EXCEPT !.deferred = y] = with(y)
  BY DEF WorkOf
<1>3. Has(with(new), db.items, db.aliases, db.quotations, db.headers, db.lines, db.lastId,
    db.effects, new, db.seenQuotations, db.seenNumbers, db.stopped)
  BY WorksFields, WorkHas
<1> HIDE DEF with
<1>4. [db EXCEPT !.deferred = new] = with(new)
  BY <1>1, <1>2
<1>5. QED
  BY <1>3, <1>4

\* Noting the quotations met leaves the other parts of the work alone.
LEMMA QuotationsSeen ==
  ASSUME NEW db \in Works, NEW new \in SUBSET QuotationNumber
  PROVE  Has([db EXCEPT !.seenQuotations = new], db.items, db.aliases, db.quotations, db.headers,
           db.lines, db.lastId, db.effects, db.deferred, new, db.seenNumbers, db.stopped)
<1> DEFINE with(x) ==
             WorkOf(db.items, db.aliases, db.quotations, db.headers, db.lines, db.lastId,
                    db.effects, db.deferred, x, db.seenNumbers, db.stopped)
<1>1. db = with(db.seenQuotations)
  BY WorkFields
<1>2. \A x, y : [with(x) EXCEPT !.seenQuotations = y] = with(y)
  BY DEF WorkOf
<1>3. Has(with(new), db.items, db.aliases, db.quotations, db.headers, db.lines, db.lastId,
    db.effects, db.deferred, new, db.seenNumbers, db.stopped)
  BY WorksFields, WorkHas
<1> HIDE DEF with
<1>4. [db EXCEPT !.seenQuotations = new] = with(new)
  BY <1>1, <1>2
<1>5. QED
  BY <1>3, <1>4

\* Noting the order numbers met leaves the other parts of the work alone.
LEMMA NumbersSeen ==
  ASSUME NEW db \in Works, NEW new \in SUBSET Number
  PROVE  Has([db EXCEPT !.seenNumbers = new], db.items, db.aliases, db.quotations, db.headers, db.lines,
           db.lastId, db.effects, db.deferred, db.seenQuotations, new, db.stopped)
<1> DEFINE with(x) ==
             WorkOf(db.items, db.aliases, db.quotations, db.headers, db.lines, db.lastId,
                    db.effects, db.deferred, db.seenQuotations, x, db.stopped)
<1>1. db = with(db.seenNumbers)
  BY WorkFields
<1>2. \A x, y : [with(x) EXCEPT !.seenNumbers = y] = with(y)
  BY DEF WorkOf
<1>3. Has(with(new), db.items, db.aliases, db.quotations, db.headers, db.lines, db.lastId,
    db.effects, db.deferred, db.seenQuotations, new, db.stopped)
  BY WorksFields, WorkHas
<1> HIDE DEF with
<1>4. [db EXCEPT !.seenNumbers = new] = with(new)
  BY <1>1, <1>2
<1>5. QED
  BY <1>3, <1>4

\* Stopping a request leaves the other parts of the work alone.
LEMMA StoppedSet ==
  ASSUME NEW db \in Works, NEW new \in BOOLEAN
  PROVE  Has([db EXCEPT !.stopped = new], db.items, db.aliases, db.quotations, db.headers, db.lines,
           db.lastId, db.effects, db.deferred, db.seenQuotations, db.seenNumbers, new)
<1> DEFINE with(x) ==
             WorkOf(db.items, db.aliases, db.quotations, db.headers, db.lines, db.lastId,
                    db.effects, db.deferred, db.seenQuotations, db.seenNumbers, x)
<1>1. db = with(db.stopped)
  BY WorkFields
<1>2. \A x, y : [with(x) EXCEPT !.stopped = y] = with(y)
  BY DEF WorkOf
<1>3. Has(with(new), db.items, db.aliases, db.quotations, db.headers, db.lines, db.lastId,
    db.effects, db.deferred, db.seenQuotations, db.seenNumbers, new)
  BY WorksFields, WorkHas
<1> HIDE DEF with
<1>4. [db EXCEPT !.stopped = new] = with(new)
  BY <1>1, <1>2
<1>5. QED
  BY <1>3, <1>4

\* What a recorded change does to its table, and to no other.
LEMMA ItemsRecorded ==
  ASSUME NEW db \in Works, NEW before \in SUBSET ItemRecord, NEW row \in ItemRecord
  PROVE  Has(Recorded(db, "items", before, row), (db.items \ before) \cup {row}, db.aliases,
           db.quotations, db.headers, db.lines, Given(db, before), Noting(db, "items", before, row),
           db.deferred, db.seenQuotations, db.seenNumbers, db.stopped)
<1> DEFINE with(x, y, z) ==
             WorkOf(x, db.aliases, db.quotations, db.headers, db.lines, y, z, db.deferred,
                    db.seenQuotations, db.seenNumbers, db.stopped)
           new == (db.items \ before) \cup {row}
           last == Given(db, before)
           noted == Noting(db, "items", before, row)
<1>1. db = with(db.items, db.lastId, db.effects)
  BY WorkFields
<1>2. \A x, y, z, w : [with(x, y, z) EXCEPT !["items"] = w] = with(w, y, z)
  BY DEF WorkOf
<1>3. \A x, y, z, w : [with(x, y, z) EXCEPT !.lastId = w] = with(x, w, z)
  BY DEF WorkOf
<1>4. \A x, y, z, w : [with(x, y, z) EXCEPT !.effects = w] = with(x, y, w)
  BY DEF WorkOf
<1>5. \A x, y, z : with(x, y, z).effects = z /\ with(x, y, z).lastId = y
  BY DEF WorkOf
<1>6. Has(with(new, last, noted), new, db.aliases, db.quotations, db.headers, db.lines, last, noted,
    db.deferred, db.seenQuotations, db.seenNumbers, db.stopped)
  <2>1. last \in Nat /\ new \in SUBSET ItemRecord
    BY WorksFields DEF Given
  <2>2. noted \in Seq(Effect)
    <3>1. [table |-> "items", before |-> before, after |-> row] \in Effect
      BY DEF Effect, TableName, Row
    <3> QED BY <3>1, WorksFields DEF Noting
  <2> HIDE DEF last, new, noted
  <2> QED BY <2>1, <2>2, WorksFields, WorkHas
<1> HIDE DEF with, new, noted, last
<1>7. [db EXCEPT !["items"] = new] = with(new, db.lastId, db.effects)
  BY <1>1, <1>2
<1>8. [with(new, db.lastId, db.effects) EXCEPT !.lastId = last] = with(new, last, db.effects)
  BY <1>3
<1>9. [with(new, last, db.effects) EXCEPT !.effects = noted] = with(new, last, noted)
  BY <1>4
<1>10. Stored(db, "items", before, row) = [[db EXCEPT !["items"] = new] EXCEPT !.lastId = last]
  BY <1>5, <1>7 DEF Stored, Given, new, last
<1>11. Stored(db, "items", before, row) = with(new, last, db.effects)
  BY <1>7, <1>8, <1>10
<1>12. Recorded(db, "items", before, row) = with(new, last, noted)
  <2>1. Stored(db, "items", before, row).effects = db.effects
    BY <1>5, <1>11
  <2>2. Recorded(db, "items", before, row) = [with(new, last, db.effects) EXCEPT !.effects = noted]
    BY <1>11, <2>1 DEF Recorded, Noting, noted
  <2> QED BY <1>9, <2>2
<1>13. QED
  BY <1>6, <1>12 DEF new, last, noted

\* Recording an alias writes the aliases, the last id and the effects.
LEMMA AliasesRecorded ==
  ASSUME NEW db \in Works, NEW before \in SUBSET AliasRecord, NEW row \in AliasRecord
  PROVE  Has(Recorded(db, "aliases", before, row), db.items, (db.aliases \ before) \cup {row},
           db.quotations, db.headers, db.lines, Given(db, before), Noting(db, "aliases", before, row),
           db.deferred, db.seenQuotations, db.seenNumbers, db.stopped)
<1> DEFINE with(x, y, z) ==
             WorkOf(db.items, x, db.quotations, db.headers, db.lines, y, z, db.deferred,
                    db.seenQuotations, db.seenNumbers, db.stopped)
           new == (db.aliases \ before) \cup {row}
           last == Given(db, before)
           noted == Noting(db, "aliases", before, row)
<1>1. db = with(db.aliases, db.lastId, db.effects)
  BY WorkFields
<1>2. \A x, y, z, w : [with(x, y, z) EXCEPT !["aliases"] = w] = with(w, y, z)
  BY DEF WorkOf
<1>3. \A x, y, z, w : [with(x, y, z) EXCEPT !.lastId = w] = with(x, w, z)
  BY DEF WorkOf
<1>4. \A x, y, z, w : [with(x, y, z) EXCEPT !.effects = w] = with(x, y, w)
  BY DEF WorkOf
<1>5. \A x, y, z : with(x, y, z).effects = z /\ with(x, y, z).lastId = y
  BY DEF WorkOf
<1>6. Has(with(new, last, noted), db.items, new, db.quotations, db.headers, db.lines, last, noted,
    db.deferred, db.seenQuotations, db.seenNumbers, db.stopped)
  <2>1. last \in Nat /\ new \in SUBSET AliasRecord
    BY WorksFields DEF Given
  <2>2. noted \in Seq(Effect)
    <3>1. [table |-> "aliases", before |-> before, after |-> row] \in Effect
      BY DEF Effect, TableName, Row
    <3> QED BY <3>1, WorksFields DEF Noting
  <2> HIDE DEF last, new, noted
  <2> QED BY <2>1, <2>2, WorksFields, WorkHas
<1> HIDE DEF with, new, noted, last
<1>7. [db EXCEPT !["aliases"] = new] = with(new, db.lastId, db.effects)
  BY <1>1, <1>2
<1>8. [with(new, db.lastId, db.effects) EXCEPT !.lastId = last] = with(new, last, db.effects)
  BY <1>3
<1>9. [with(new, last, db.effects) EXCEPT !.effects = noted] = with(new, last, noted)
  BY <1>4
<1>10. Stored(db, "aliases", before, row) = [[db EXCEPT !["aliases"] = new] EXCEPT !.lastId = last]
  BY <1>5, <1>7 DEF Stored, Given, new, last
<1>11. Stored(db, "aliases", before, row) = with(new, last, db.effects)
  BY <1>7, <1>8, <1>10
<1>12. Recorded(db, "aliases", before, row) = with(new, last, noted)
  <2>1. Stored(db, "aliases", before, row).effects = db.effects
    BY <1>5, <1>11
  <2>2. Recorded(db, "aliases", before, row) = [with(new, last, db.effects) EXCEPT !.effects = noted]
    BY <1>11, <2>1 DEF Recorded, Noting, noted
  <2> QED BY <1>9, <2>2
<1>13. QED
  BY <1>6, <1>12 DEF new, last, noted

\* Recording a quotation writes the quotations, the last id and the effects.
LEMMA QuotationsRecorded ==
  ASSUME NEW db \in Works, NEW before \in SUBSET QuotationRecord, NEW row \in QuotationRecord
  PROVE  Has(Recorded(db, "quotations", before, row), db.items, db.aliases,
           (db.quotations \ before) \cup {row}, db.headers, db.lines, Given(db, before),
           Noting(db, "quotations", before, row), db.deferred, db.seenQuotations, db.seenNumbers,
           db.stopped)
<1> DEFINE with(x, y, z) ==
             WorkOf(db.items, db.aliases, x, db.headers, db.lines, y, z, db.deferred,
                    db.seenQuotations, db.seenNumbers, db.stopped)
           new == (db.quotations \ before) \cup {row}
           last == Given(db, before)
           noted == Noting(db, "quotations", before, row)
<1>1. db = with(db.quotations, db.lastId, db.effects)
  BY WorkFields
<1>2. \A x, y, z, w : [with(x, y, z) EXCEPT !["quotations"] = w] = with(w, y, z)
  BY DEF WorkOf
<1>3. \A x, y, z, w : [with(x, y, z) EXCEPT !.lastId = w] = with(x, w, z)
  BY DEF WorkOf
<1>4. \A x, y, z, w : [with(x, y, z) EXCEPT !.effects = w] = with(x, y, w)
  BY DEF WorkOf
<1>5. \A x, y, z : with(x, y, z).effects = z /\ with(x, y, z).lastId = y
  BY DEF WorkOf
<1>6. Has(with(new, last, noted), db.items, db.aliases, new, db.headers, db.lines, last, noted,
    db.deferred, db.seenQuotations, db.seenNumbers, db.stopped)
  <2>1. last \in Nat /\ new \in SUBSET QuotationRecord
    BY WorksFields DEF Given
  <2>2. noted \in Seq(Effect)
    <3>1. [table |-> "quotations", before |-> before, after |-> row] \in Effect
      BY DEF Effect, TableName, Row
    <3> QED BY <3>1, WorksFields DEF Noting
  <2> HIDE DEF last, new, noted
  <2> QED BY <2>1, <2>2, WorksFields, WorkHas
<1> HIDE DEF with, new, noted, last
<1>7. [db EXCEPT !["quotations"] = new] = with(new, db.lastId, db.effects)
  BY <1>1, <1>2
<1>8. [with(new, db.lastId, db.effects) EXCEPT !.lastId = last] = with(new, last, db.effects)
  BY <1>3
<1>9. [with(new, last, db.effects) EXCEPT !.effects = noted] = with(new, last, noted)
  BY <1>4
<1>10. Stored(db, "quotations", before, row) = [[db EXCEPT !["quotations"] = new] EXCEPT !.lastId = last]
  BY <1>5, <1>7 DEF Stored, Given, new, last
<1>11. Stored(db, "quotations", before, row) = with(new, last, db.effects)
  BY <1>7, <1>8, <1>10
<1>12. Recorded(db, "quotations", before, row) = with(new, last, noted)
  <2>1. Stored(db, "quotations", before, row).effects = db.effects
    BY <1>5, <1>11
  <2>2. Recorded(db, "quotations", before, row) = [with(new, last, db.effects) EXCEPT !.effects = noted]
    BY <1>11, <2>1 DEF Recorded, Noting, noted
  <2> QED BY <1>9, <2>2
<1>13. QED
  BY <1>6, <1>12 DEF new, last, noted

\* Recording a header writes the headers, the last id and the effects.
LEMMA HeadersRecorded ==
  ASSUME NEW db \in Works, NEW before \in SUBSET HeaderRecord, NEW row \in HeaderRecord
  PROVE  Has(Recorded(db, "headers", before, row), db.items, db.aliases, db.quotations,
           (db.headers \ before) \cup {row}, db.lines, Given(db, before),
           Noting(db, "headers", before, row), db.deferred, db.seenQuotations, db.seenNumbers,
           db.stopped)
<1> DEFINE with(x, y, z) ==
             WorkOf(db.items, db.aliases, db.quotations, x, db.lines, y, z, db.deferred,
                    db.seenQuotations, db.seenNumbers, db.stopped)
           new == (db.headers \ before) \cup {row}
           last == Given(db, before)
           noted == Noting(db, "headers", before, row)
<1>1. db = with(db.headers, db.lastId, db.effects)
  BY WorkFields
<1>2. \A x, y, z, w : [with(x, y, z) EXCEPT !["headers"] = w] = with(w, y, z)
  BY DEF WorkOf
<1>3. \A x, y, z, w : [with(x, y, z) EXCEPT !.lastId = w] = with(x, w, z)
  BY DEF WorkOf
<1>4. \A x, y, z, w : [with(x, y, z) EXCEPT !.effects = w] = with(x, y, w)
  BY DEF WorkOf
<1>5. \A x, y, z : with(x, y, z).effects = z /\ with(x, y, z).lastId = y
  BY DEF WorkOf
<1>6. Has(with(new, last, noted), db.items, db.aliases, db.quotations, new, db.lines, last, noted,
    db.deferred, db.seenQuotations, db.seenNumbers, db.stopped)
  <2>1. last \in Nat /\ new \in SUBSET HeaderRecord
    BY WorksFields DEF Given
  <2>2. noted \in Seq(Effect)
    <3>1. [table |-> "headers", before |-> before, after |-> row] \in Effect
      BY DEF Effect, TableName, Row
    <3> QED BY <3>1, WorksFields DEF Noting
  <2> HIDE DEF last, new, noted
  <2> QED BY <2>1, <2>2, WorksFields, WorkHas
<1> HIDE DEF with, new, noted, last
<1>7. [db EXCEPT !["headers"] = new] = with(new, db.lastId, db.effects)
  BY <1>1, <1>2
<1>8. [with(new, db.lastId, db.effects) EXCEPT !.lastId = last] = with(new, last, db.effects)
  BY <1>3
<1>9. [with(new, last, db.effects) EXCEPT !.effects = noted] = with(new, last, noted)
  BY <1>4
<1>10. Stored(db, "headers", before, row) = [[db EXCEPT !["headers"] = new] EXCEPT !.lastId = last]
  BY <1>5, <1>7 DEF Stored, Given, new, last
<1>11. Stored(db, "headers", before, row) = with(new, last, db.effects)
  BY <1>7, <1>8, <1>10
<1>12. Recorded(db, "headers", before, row) = with(new, last, noted)
  <2>1. Stored(db, "headers", before, row).effects = db.effects
    BY <1>5, <1>11
  <2>2. Recorded(db, "headers", before, row) = [with(new, last, db.effects) EXCEPT !.effects = noted]
    BY <1>11, <2>1 DEF Recorded, Noting, noted
  <2> QED BY <1>9, <2>2
<1>13. QED
  BY <1>6, <1>12 DEF new, last, noted

\* Recording a line writes the lines, the last id and the effects.
LEMMA LinesRecorded ==
  ASSUME NEW db \in Works, NEW before \in SUBSET LineRecord, NEW row \in LineRecord
  PROVE  Has(Recorded(db, "lines", before, row), db.items, db.aliases, db.quotations, db.headers,
           (db.lines \ before) \cup {row}, Given(db, before), Noting(db, "lines", before, row),
           db.deferred, db.seenQuotations, db.seenNumbers, db.stopped)
<1> DEFINE with(x, y, z) ==
             WorkOf(db.items, db.aliases, db.quotations, db.headers, x, y, z, db.deferred,
                    db.seenQuotations, db.seenNumbers, db.stopped)
           new == (db.lines \ before) \cup {row}
           last == Given(db, before)
           noted == Noting(db, "lines", before, row)
<1>1. db = with(db.lines, db.lastId, db.effects)
  BY WorkFields
<1>2. \A x, y, z, w : [with(x, y, z) EXCEPT !["lines"] = w] = with(w, y, z)
  BY DEF WorkOf
<1>3. \A x, y, z, w : [with(x, y, z) EXCEPT !.lastId = w] = with(x, w, z)
  BY DEF WorkOf
<1>4. \A x, y, z, w : [with(x, y, z) EXCEPT !.effects = w] = with(x, y, w)
  BY DEF WorkOf
<1>5. \A x, y, z : with(x, y, z).effects = z /\ with(x, y, z).lastId = y
  BY DEF WorkOf
<1>6. Has(with(new, last, noted), db.items, db.aliases, db.quotations, db.headers, new, last, noted,
    db.deferred, db.seenQuotations, db.seenNumbers, db.stopped)
  <2>1. last \in Nat /\ new \in SUBSET LineRecord
    BY WorksFields DEF Given
  <2>2. noted \in Seq(Effect)
    <3>1. [table |-> "lines", before |-> before, after |-> row] \in Effect
      BY DEF Effect, TableName, Row
    <3> QED BY <3>1, WorksFields DEF Noting
  <2> HIDE DEF last, new, noted
  <2> QED BY <2>1, <2>2, WorksFields, WorkHas
<1> HIDE DEF with, new, noted, last
<1>7. [db EXCEPT !["lines"] = new] = with(new, db.lastId, db.effects)
  BY <1>1, <1>2
<1>8. [with(new, db.lastId, db.effects) EXCEPT !.lastId = last] = with(new, last, db.effects)
  BY <1>3
<1>9. [with(new, last, db.effects) EXCEPT !.effects = noted] = with(new, last, noted)
  BY <1>4
<1>10. Stored(db, "lines", before, row) = [[db EXCEPT !["lines"] = new] EXCEPT !.lastId = last]
  BY <1>5, <1>7 DEF Stored, Given, new, last
<1>11. Stored(db, "lines", before, row) = with(new, last, db.effects)
  BY <1>7, <1>8, <1>10
<1>12. Recorded(db, "lines", before, row) = with(new, last, noted)
  <2>1. Stored(db, "lines", before, row).effects = db.effects
    BY <1>5, <1>11
  <2>2. Recorded(db, "lines", before, row) = [with(new, last, db.effects) EXCEPT !.effects = noted]
    BY <1>11, <2>1 DEF Recorded, Noting, noted
  <2> QED BY <1>9, <2>2
<1>13. QED
  BY <1>6, <1>12 DEF new, last, noted

-----------------------------------------------------------------------------
(* What a request has done so far.                                         *)

\* A header of an id keeps its number, but those that are renumbered.
SameNumbers(headers, was, last, renumbered) ==
  \A h \in headers :
    \/ h.id > last
    \/ h.id \in renumbered
    \/ \E g \in was : g.id = h.id /\ g.number = h.number

\* A request puts lines on headers that are new, or free for it.
LinesFresh(effects, last, free) ==
  \A n \in DOMAIN effects :
    effects[n].table = "lines" =>
      effects[n].after.header > last \/ effects[n].after.header \in free

\* Of the effects on one row, the first is the nth.
FirstOf(effects, n) ==
  \A m \in DOMAIN effects :
    m < n => ~(effects[m].table = effects[n].table /\ effects[m].after.id = effects[n].after.id)

TouchedBy(effects, table, id) ==
  \E n \in DOMAIN effects : effects[n].table = table /\ effects[n].after.id = id

\* The rows of one id: one row or none.
RowsOf(db, table, id) == WithId(db[table], id)

SameButForLocks(db, was, table, id) ==
  ButForLocks(RowsOf(db, table, id), table) = ButForLocks(RowsOf(was, table, id), table)

\* The first effect on a row tells what the row was.
FirstsTell(effects, was) ==
  \A n \in DOMAIN effects :
    FirstOf(effects, n) =>
      ButForLocks(effects[n].before, effects[n].table)
        = ButForLocks(RowsOf(was, effects[n].table, effects[n].after.id), effects[n].table)

\* Other rows are what they were, and only some tables have effects.
Tells(db, was, may) ==
  /\ FirstsTell(db.effects, was)
  /\ \A table \in TableName : \A id :
       ~TouchedBy(db.effects, table, id) => SameButForLocks(db, was, table, id)
  /\ \A n \in DOMAIN db.effects : db.effects[n].table \in may

CatalogTables == {"items", "aliases"}

OrderTables == {"aliases", "quotations", "headers", "lines"}

TablesOf(kind) == IF kind = "items" THEN CatalogTables ELSE OrderTables

\* One row of one table is replaced, and the effect notes it.
Recording(db, new, e) ==
  /\ e.table \in TableName
  /\ e.before = RowsOf(db, e.table, e.after.id)
  /\ new[e.table] = (db[e.table] \ e.before) \cup {e.after}
  /\ \A table \in TableName : table # e.table => new[table] = db[table]
  /\ new.effects = Append(db.effects, e)

\* last is the last id before the request, which began with the tables as they are and
\* changes the tables it may.
Fit(db, last, released, free, may) ==
  /\ db \in Works
  /\ Sound(db)
  /\ last <= db.lastId
  /\ Guarded(db.headers, released)
  /\ EffectsSound(db.effects, db.lastId)
  /\ LinesFresh(db.effects, last, free)
  /\ Tells(db, tables, may)
  /\ SameNumbers(db.headers, tables.headers, last, {})

\* One more effect on the tables.
LEMMA TellsMore ==
  ASSUME NEW db, NEW was, NEW may, Tells(db, was, may), db.effects \in Seq(Effect),
         NEW new, NEW e, Recording(db, new, e), e.table \in may
  PROVE  Tells(new, was, may)
<1> DEFINE old  == db.effects
           more == new.effects
           N    == Len(old) + 1
<1>1. /\ DOMAIN more = DOMAIN old \cup {N} /\ \A n \in DOMAIN old : more[n] = old[n]
      /\ more[N] = e /\ \A n \in DOMAIN old : n \in Nat /\ n < N
  <2>1. more = Append(old, e)
    BY DEF Recording
  <2> QED BY <2>1
<1> HIDE DEF old, more, N
<1>2. \A table, id : TouchedBy(more, table, id) <=>
                        TouchedBy(old, table, id) \/ (e.table = table /\ e.after.id = id)
  BY <1>1 DEF TouchedBy
<1>3. ASSUME NEW n \in DOMAIN more, FirstOf(more, n)
      PROVE  ButForLocks(more[n].before, more[n].table)
               = ButForLocks(RowsOf(was, more[n].table, more[n].after.id), more[n].table)
  <2>1. CASE n \in DOMAIN old
    <3>1. FirstOf(old, n)
      BY <1>1, <1>3, <2>1 DEF FirstOf
    <3> QED BY <1>1, <2>1, <3>1 DEF Tells, FirstsTell, old
  <2>2. CASE n = N
    <3>1. ~TouchedBy(old, e.table, e.after.id)
      BY <1>1, <1>3, <2>2 DEF FirstOf, TouchedBy
    <3>2. SameButForLocks(db, was, e.table, e.after.id)
      BY <3>1 DEF Tells, Recording, old
    <3> QED BY <1>1, <2>2, <3>2 DEF SameButForLocks, Recording
  <2> QED BY <1>1, <2>1, <2>2
<1>4. ASSUME NEW table \in TableName, NEW id, ~TouchedBy(more, table, id)
      PROVE  SameButForLocks(new, was, table, id)
  <2>1. SameButForLocks(db, was, table, id)
    BY <1>2, <1>4 DEF Tells, old
  <2>2. RowsOf(new, table, id) = RowsOf(db, table, id)
    <3>1. CASE table # e.table
      BY <3>1 DEF Recording, RowsOf
    <3>2. CASE table = e.table
      <4>1. e.after.id # id /\ \A r \in e.before : r.id = e.after.id
        BY <1>2, <1>4, <3>2 DEF Recording, RowsOf, WithId
      <4>2. new[table] = (db[table] \ e.before) \cup {e.after}
        BY <3>2 DEF Recording
      <4> QED BY <4>1, <4>2 DEF RowsOf, WithId
    <3> QED BY <3>1, <3>2
  <2> QED BY <2>1, <2>2 DEF SameButForLocks
<1>5. \A n \in DOMAIN more : more[n].table \in may
  BY <1>1 DEF Tells, old
<1> QED
  BY <1>3, <1>4, <1>5 DEF Tells, FirstsTell, more

\* Nothing has been done yet, but that headers were unlocked.
LEMMA NothingTells ==
  ASSUME NEW db, NEW was, NEW may, db.effects = <<>>,
         \A table \in TableName : \A id : SameButForLocks(db, was, table, id)
  PROVE  Tells(db, was, may)
<1>1. DOMAIN db.effects = {}
  OBVIOUS
<1> QED
  BY <1>1 DEF Tells, FirstsTell

\* What is not a table or an effect may change.
LEMMA SameTells ==
  ASSUME NEW db, NEW was, NEW may, Tells(db, was, may), NEW new,
         new.items = db.items, new.aliases = db.aliases, new.quotations = db.quotations,
         new.headers = db.headers, new.lines = db.lines, new.effects = db.effects
  PROVE  Tells(new, was, may)
<1>1. ASSUME NEW table \in TableName PROVE new[table] = db[table]
  BY DEF TableName
<1> QED
  BY <1>1 DEF Tells, SameButForLocks, RowsOf

\* One more effect.
LEMMA EffectAdded ==
  ASSUME NEW effects \in Seq(Effect), NEW e, NEW last, NEW later, NEW free,
         EffectsSound(effects, later), EffectSound(e, later),
         LinesFresh(effects, last, free),
         e.table = "lines" => e.after.header > last \/ e.after.header \in free
  PROVE  /\ EffectsSound(Append(effects, e), later)
         /\ LinesFresh(Append(effects, e), last, free)
<1>1. /\ DOMAIN Append(effects, e) = DOMAIN effects \cup {Len(effects) + 1}
      /\ \A n \in DOMAIN effects : Append(effects, e)[n] = effects[n]
      /\ Append(effects, e)[Len(effects) + 1] = e
  OBVIOUS
<1>2. EffectsSound(Append(effects, e), later)
  <2> SUFFICES ASSUME NEW n \in DOMAIN Append(effects, e)
               PROVE  EffectSound(Append(effects, e)[n], later)
    BY DEF EffectsSound
  <2>1. CASE n \in DOMAIN effects
    BY <1>1, <2>1 DEF EffectsSound
  <2>2. CASE n = Len(effects) + 1
    BY <1>1, <2>2
  <2> QED BY <1>1, <2>1, <2>2
<1>3. LinesFresh(Append(effects, e), last, free)
  <2> SUFFICES ASSUME NEW n \in DOMAIN Append(effects, e),
                      Append(effects, e)[n].table = "lines"
               PROVE  \/ Append(effects, e)[n].after.header > last
                      \/ Append(effects, e)[n].after.header \in free
    BY DEF LinesFresh
  <2>1. CASE n \in DOMAIN effects
    BY <1>1, <2>1 DEF LinesFresh
  <2>2. CASE n = Len(effects) + 1
    BY <1>1, <2>2
  <2> QED BY <1>1, <2>1, <2>2
<1>4. QED
  BY <1>2, <1>3

\* The parts of what is fit.
LEMMA FitParts ==
  ASSUME NEW db, NEW last \in Nat, NEW released, NEW free, NEW may, Fit(db, last, released, free, may)
  PROVE  /\ db \in Works /\ db.lastId \in Nat /\ last <= db.lastId
         /\ db.effects \in Seq(Effect)
         /\ ItemsSound(db.items, db.lastId) /\ AliasesSound(db.items, db.aliases, db.lastId)
         /\ QuotationsSound(db.quotations, db.lastId) /\ HeadersSound(db.headers, db.lastId)
         /\ LinesSound(db.items, db.quotations, db.headers, db.lines, db.lastId)
         /\ Guarded(db.headers, released) /\ EffectsSound(db.effects, db.lastId)
         /\ LinesFresh(db.effects, last, free)
         /\ SameNumbers(db.headers, tables.headers, last, {})
BY WorksFields DEF Fit, Sound

\* A recorded change, part by part: what is left of the table it changes is
\* sound, and the others see of it the ids they saw.
LEMMA StillFit ==
  ASSUME NEW db, NEW last \in Nat, NEW released, NEW free, NEW may, Fit(db, last, released, free, may),
         NEW new \in Works, db.lastId <= new.lastId,
         ItemsSound(new.items, new.lastId), AliasesSound(new.items, new.aliases, new.lastId),
         QuotationsSound(new.quotations, new.lastId), HeadersSound(new.headers, new.lastId),
         LinesSound(new.items, new.quotations, new.headers, new.lines, new.lastId),
         Guarded(new.headers, released), NEW e, Recording(db, new, e), e.table \in may,
         EffectSound(e, new.lastId),
         e.table = "lines" => e.after.header > last \/ e.after.header \in free,
         e.table = "headers" => e.before # {} \/ e.after.id > last
  PROVE  Fit(new, last, released, free, may)
<1>1. db.lastId \in Nat /\ new.lastId \in Nat /\ db.effects \in Seq(Effect) /\ last <= db.lastId
  BY FitParts, WorksFields
<1>2. EffectsSound(db.effects, db.lastId) /\ LinesFresh(db.effects, last, free)
  BY FitParts
<1>3. EffectsSound(db.effects, new.lastId)
  BY <1>1, <1>2, EffectsLater
<1>4. EffectsSound(new.effects, new.lastId) /\ LinesFresh(new.effects, last, free)
  <2>1. new.effects = Append(db.effects, e)
    BY DEF Recording
  <2> QED BY <1>1, <1>2, <1>3, <2>1, EffectAdded
<1>5. Sound(new)
  BY <1>1 DEF Sound
<1>6. Tells(new, tables, may)
  <2>1. Tells(db, tables, may)
    BY DEF Fit
  <2> QED BY <1>1, <2>1, TellsMore
<1>7. SameNumbers(new.headers, tables.headers, last, {})
  <2>1. SameNumbers(db.headers, tables.headers, last, {})
    BY FitParts
  <2>2. CASE e.table # "headers"
    BY <2>1, <2>2 DEF Recording, TableName
  <2>3. CASE e.table = "headers"
    <3>1. new.headers = (db.headers \ e.before) \cup {e.after} /\ e.before \subseteq db.headers
      BY <2>3 DEF Recording, RowsOf, WithId
    <3>2. \A b \in e.before : b.id = e.after.id /\ b.number = e.after.number
      BY <2>3 DEF EffectSound
    <3>3. \/ e.after.id > last
          \/ \E g \in tables.headers : g.id = e.after.id /\ g.number = e.after.number
      BY <2>1, <2>3, <3>1, <3>2 DEF SameNumbers
    <3> QED BY <2>1, <3>1, <3>3 DEF SameNumbers
  <2> QED BY <2>2, <2>3
<1>8. QED
  BY <1>1, <1>4, <1>5, <1>6, <1>7 DEF Fit

\* An item is created.
LEMMA ItemFits ==
  ASSUME NEW db, NEW last \in Nat, NEW released, NEW free, NEW may, Fit(db, last, released, free, may),
         NEW name \in Name, Named(db.items, name) = NoRow, MaxNote \in Nat, "items" \in may
  PROVE  Fit(Recorded(db, "items", NoRow, NewItem(db, name)), last, released, free, may)
<1> DEFINE row == NewItem(db, name)
           new == Recorded(db, "items", NoRow, row)
           e   == [table |-> "items", before |-> NoRow, after |-> row]
<1>1. db \in Works /\ db.lastId \in Nat
  BY FitParts
<1>2. /\ row \in ItemRecord /\ row.id = db.lastId + 1 /\ row.name = name
      /\ NoRow \in SUBSET ItemRecord
  BY <1>1 DEF NewItem, ItemRecord, NoRow
<1>3. \A r \in db.items : r.name # row.name
  BY <1>2 DEF Named, NoRow
<1> HIDE DEF row
<1>4. Has(new, (db.items \ NoRow) \cup {row}, db.aliases, db.quotations, db.headers, db.lines,
          Given(db, NoRow), Noting(db, "items", NoRow, row), db.deferred, db.seenQuotations,
          db.seenNumbers, db.stopped)
  BY <1>1, <1>2, ItemsRecorded
<1> HIDE DEF new
<1>5. /\ new \in Works /\ new.items = db.items \cup {row} /\ new.aliases = db.aliases
      /\ new.quotations = db.quotations /\ new.headers = db.headers /\ new.lines = db.lines
      /\ new.lastId = db.lastId + 1 /\ new.effects = Append(db.effects, e)
  BY <1>4 DEF Has, Given, Noting, NoRow
<1>6. ItemsSound(new.items, new.lastId)
  BY <1>1, <1>2, <1>3, <1>5, FitParts, ItemAdded
<1>7. Ids(db.items) \subseteq Ids(new.items)
  BY <1>5 DEF Ids
<1>8. db.lastId <= new.lastId /\ new.lastId \in Nat
  BY <1>1, <1>5
<1>9. /\ AliasesSound(db.items, new.aliases, new.lastId)
      /\ QuotationsSound(new.quotations, new.lastId) /\ HeadersSound(new.headers, new.lastId)
      /\ LinesSound(db.items, new.quotations, new.headers, new.lines, new.lastId)
  BY <1>1, <1>5, <1>8, FitParts, SoundLater
<1>10. /\ AliasesSound(new.items, new.aliases, new.lastId)
       /\ LinesSound(new.items, new.quotations, new.headers, new.lines, new.lastId)
  BY <1>7, <1>9, SameIds
<1>11. e \in Effect /\ e.table = "items" /\ e.before = NoRow /\ e.after = row
  BY <1>2 DEF Effect, TableName, Row, NoRow
<1>12. EffectSound(e, new.lastId)
  <2>1. row.id \in 1 .. new.lastId
    BY <1>1, <1>2, <1>5
  <2> HIDE DEF e
  <2> QED BY <1>2, <1>11, <2>1 DEF EffectSound, NoRow
<1>13. Guarded(new.headers, released)
  BY <1>5, FitParts
<1> HIDE DEF e
<1>14. Recording(db, new, e)
  <2>1. RowsOf(db, "items", row.id) = NoRow
    <3>1. \A r \in db.items : r.id # row.id
      BY <1>1, <1>2, FitParts DEF ItemsSound
    <3> QED BY <3>1 DEF RowsOf, WithId, NoRow
  <2> QED BY <1>5, <1>11, <2>1 DEF Recording, TableName, NoRow
<1>15. Fit(new, last, released, free, may)
  BY <1>5, <1>6, <1>8, <1>9, <1>10, <1>11, <1>12, <1>13, <1>14, StillFit
<1>16. QED
  BY <1>15 DEF new, row

\* The alias row, if there was one, is replaced under its id and name.
AliasUpsert(db, name, item, before, row) ==
  /\ row \in AliasRecord /\ before \in SUBSET AliasRecord
  /\ row.name = name /\ row.item = item /\ before = RowsOf(db, "aliases", row.id)
  /\ AliasesSound(db.items, (db.aliases \ before) \cup {row}, Given(db, before))
  /\ row.id \in 1 .. Given(db, before)
  /\ \A b \in before : b.id = row.id /\ b.name = row.name
  /\ \A b, c \in before : b = c
  /\ Given(db, before) \in Nat /\ db.lastId <= Given(db, before)

\* A name has at most one alias; the row an upsert leaves replaces it.
LEMMA AliasUpserted ==
  ASSUME NEW db, db.lastId \in Nat, AliasesSound(db.items, db.aliases, db.lastId),
         NEW name \in Name, NEW item \in Ids(db.items), item \in Nat, NEW units \in Nat,
         NEW before, before = Named(db.aliases, name),
         NEW row, row = AliasRow(db, name, item, units)
  PROVE  AliasUpsert(db, name, item, before, row)
<1>1. /\ row = [id |-> IF before = NoRow THEN db.lastId + 1 ELSE TheRow(before).id,
                name |-> name, item |-> item, units |-> units]
      /\ row.name = name /\ row.item = item
      /\ row.id = IF before = NoRow THEN db.lastId + 1 ELSE TheRow(before).id
  BY DEF AliasRow
<1>2. /\ before \in SUBSET db.aliases /\ before \in SUBSET AliasRecord
      /\ \A b \in before : b.name = name
      /\ \A b \in db.aliases : b.name = name => b \in before
  BY DEF Named, AliasesSound
<1>3. \A b, c \in before : b = c
  BY <1>2 DEF AliasesSound
<1>4. CASE before = NoRow
  <2>1. row.id = db.lastId + 1 /\ Given(db, before) = db.lastId + 1 /\ row.id \in Nat
    BY <1>1, <1>4 DEF Given
  <2>2. row \in AliasRecord
    BY <1>1, <2>1 DEF AliasRecord
  <2>3. (db.aliases \ before) \cup {row} = db.aliases \cup {row}
    BY <1>4 DEF NoRow
  <2>4. \A b \in db.aliases : b.name # row.name
    BY <1>1, <1>2, <1>4 DEF NoRow
  <2>5. AliasesSound(db.items, db.aliases \cup {row}, db.lastId + 1)
    BY <1>1, <2>1, <2>2, <2>4, AliasAdded
  <2>6. row.id \in 1 .. Given(db, before) /\ db.lastId <= Given(db, before)
    BY <2>1
  <2>7. before = RowsOf(db, "aliases", row.id)
    <3>1. \A r \in db.aliases : r.id # row.id
      BY <2>1 DEF AliasesSound
    <3> QED BY <1>4, <3>1 DEF RowsOf, WithId, NoRow
  <2> QED BY <1>1, <1>2, <1>3, <1>4, <2>1, <2>2, <2>3, <2>5, <2>6, <2>7 DEF NoRow, AliasUpsert
<1>5. CASE before # NoRow
  <2> DEFINE was == TheRow(before)
  <2>1. was \in before
    BY <1>5 DEF TheRow, NoRow
  <2>2. before = {was}
    BY <1>3, <2>1
  <2> HIDE DEF was
  <2>3. was \in db.aliases /\ was.id \in 1 .. db.lastId /\ was.name = name
    BY <1>2, <2>1 DEF AliasesSound
  <2>4. row.id = was.id /\ Given(db, before) = db.lastId
    BY <1>1, <1>5 DEF Given, was
  <2>5. row \in AliasRecord
    BY <1>1, <2>3, <2>4 DEF AliasRecord
  <2>6. AliasesSound(db.items, (db.aliases \ {was}) \cup {row}, db.lastId)
    BY <1>1, <2>3, <2>4, <2>5, AliasChanged
  <2>7. before = RowsOf(db, "aliases", row.id)
    <3>1. \A r \in db.aliases : r.id = row.id <=> r = was
      BY <2>3, <2>4 DEF AliasesSound
    <3>2. \A r : r \in RowsOf(db, "aliases", row.id) <=> r \in db.aliases /\ r.id = row.id
      BY DEF RowsOf, WithId
    <3> QED BY <2>2, <2>3, <3>1, <3>2
  <2>8. AliasesSound(db.items, (db.aliases \ before) \cup {row}, Given(db, before))
    BY <2>2, <2>4, <2>6
  <2>9. /\ \A b \in before : b.id = row.id /\ b.name = row.name
        /\ row.id \in 1 .. Given(db, before)
        /\ Given(db, before) \in Nat /\ db.lastId <= Given(db, before)
    BY <1>1, <2>2, <2>3, <2>4
  <2>10. row.name = name /\ row.item = item
    BY <1>1
  <2> QED BY <1>2, <1>3, <2>5, <2>7, <2>8, <2>9, <2>10 DEF AliasUpsert
<1>6. QED
  BY <1>4, <1>5

\* An alias of an item that is there is stored.
LEMMA AliasFits ==
  ASSUME NEW db, NEW last \in Nat, NEW released, NEW free, NEW may, Fit(db, last, released, free, may),
         NEW name \in Name, NEW item \in Ids(db.items), NEW units \in Nat, "aliases" \in may
  PROVE  Fit(Recorded(db, "aliases", Named(db.aliases, name),
                      AliasRow(db, name, item, units)), last, released, free, may)
<1> DEFINE before == Named(db.aliases, name)
           row == AliasRow(db, name, item, units)
           new == Recorded(db, "aliases", before, row)
           e   == [table |-> "aliases", before |-> before, after |-> row]
<1>1. db \in Works /\ db.lastId \in Nat /\ AliasesSound(db.items, db.aliases, db.lastId)
  BY FitParts
<1>2. item \in Nat
  <2>1. ItemsSound(db.items, db.lastId)
    BY FitParts
  <2>2. PICK i \in db.items : i.id = item
    BY DEF Ids
  <2> QED BY <1>1, <2>1, <2>2 DEF ItemsSound
<1>0. before = Named(db.aliases, name) /\ row = AliasRow(db, name, item, units)
  OBVIOUS
<1> HIDE DEF row, before
<1>3. /\ row \in AliasRecord /\ before \in SUBSET AliasRecord
      /\ row.name = name /\ row.item = item /\ before = RowsOf(db, "aliases", row.id)
      /\ AliasesSound(db.items, (db.aliases \ before) \cup {row}, Given(db, before))
      /\ row.id \in 1 .. Given(db, before)
      /\ \A b \in before : b.id = row.id /\ b.name = row.name
      /\ \A b, c \in before : b = c
      /\ Given(db, before) \in Nat /\ db.lastId <= Given(db, before)
  <2>1. AliasUpsert(db, name, item, before, row)
    BY <1>0, <1>1, <1>2, AliasUpserted
  <2> QED BY <2>1 DEF AliasUpsert
<1>4. Has(new, db.items, (db.aliases \ before) \cup {row}, db.quotations, db.headers, db.lines,
          Given(db, before), Noting(db, "aliases", before, row), db.deferred,
          db.seenQuotations, db.seenNumbers, db.stopped)
  BY <1>1, <1>3, AliasesRecorded
<1> HIDE DEF new
<1>5. /\ new \in Works /\ new.items = db.items
      /\ new.aliases = (db.aliases \ before) \cup {row}
      /\ new.quotations = db.quotations /\ new.headers = db.headers /\ new.lines = db.lines
      /\ new.lastId = Given(db, before) /\ new.effects = Append(db.effects, e)
  BY <1>4 DEF Has, Noting
<1>6. AliasesSound(new.items, new.aliases, new.lastId)
  BY <1>3, <1>5
<1>8. db.lastId <= new.lastId /\ new.lastId \in Nat
  BY <1>3, <1>5
<1>9. /\ ItemsSound(new.items, new.lastId)
      /\ QuotationsSound(new.quotations, new.lastId) /\ HeadersSound(new.headers, new.lastId)
      /\ LinesSound(new.items, new.quotations, new.headers, new.lines, new.lastId)
  BY <1>1, <1>5, <1>8, FitParts, SoundLater
<1>11. e \in Effect /\ e.table = "aliases" /\ e.before = before /\ e.after = row
  BY <1>3 DEF Effect, TableName, Row
<1> HIDE DEF e
<1>12. EffectSound(e, new.lastId)
  BY <1>3, <1>5, <1>11 DEF EffectSound
<1>13. Guarded(new.headers, released)
  BY <1>5, FitParts
<1>14. Recording(db, new, e)
  BY <1>3, <1>5, <1>11 DEF Recording, TableName
<1>15. Fit(new, last, released, free, may)
  BY <1>5, <1>6, <1>8, <1>9, <1>11, <1>12, <1>13, <1>14, StillFit
<1>16. QED
  BY <1>15 DEF new, row, before

\* The quotation, if it was there, is replaced under its id and number.
QuotationPut(db, number, before, row) ==
  /\ row \in QuotationRecord /\ before \in SUBSET QuotationRecord
  /\ row.number = number /\ before = RowsOf(db, "quotations", row.id)
  /\ QuotationsSound((db.quotations \ before) \cup {row}, Given(db, before))
  /\ row.id \in 1 .. Given(db, before)
  /\ \A b \in before : b.id = row.id /\ b.number = row.number
  /\ \A b, c \in before : b = c
  /\ Given(db, before) \in Nat /\ db.lastId <= Given(db, before)
  /\ Ids(db.quotations) \subseteq Ids((db.quotations \ before) \cup {row})

\* The first row of a quotation in a file stores it.
LEMMA QuotationStored ==
  ASSUME NEW db, db.lastId \in Nat, QuotationsSound(db.quotations, db.lastId),
         NEW number \in QuotationNumber, NEW url \in Urls, MaxUrl \in Nat,
         NEW before, before = Numbered(db.quotations, number),
         NEW row, row = QuotationRow(db, number, url)
  PROVE  QuotationPut(db, number, before, row)
<1>2. /\ before \in SUBSET db.quotations /\ before \in SUBSET QuotationRecord
      /\ \A b \in before : b.number = number
      /\ \A b \in db.quotations : b.number = number => b \in before
  BY DEF Numbered, QuotationsSound
<1>3. \A b, c \in before : b = c
  BY <1>2 DEF QuotationsSound
<1>4. CASE before = NoRow
  <2>1. row = [id |-> db.lastId + 1, number |-> number, url |-> url]
    BY <1>4 DEF QuotationRow
  <2>2. /\ row.id = db.lastId + 1 /\ Given(db, before) = db.lastId + 1 /\ row.id \in Nat
        /\ row.number = number
    BY <1>4, <2>1 DEF Given
  <2>3. row \in QuotationRecord
    BY <2>1, <2>2 DEF QuotationRecord
  <2>4. (db.quotations \ before) \cup {row} = db.quotations \cup {row}
    BY <1>4 DEF NoRow
  <2>5. \A b \in db.quotations : b.number # row.number
    BY <1>2, <1>4, <2>2 DEF NoRow
  <2>6. QuotationsSound(db.quotations \cup {row}, db.lastId + 1)
    BY <2>2, <2>3, <2>5, QuotationAdded
  <2>7. row.id \in 1 .. Given(db, before) /\ db.lastId <= Given(db, before)
    BY <2>2
  <2>8. Ids(db.quotations) \subseteq Ids(db.quotations \cup {row})
    BY DEF Ids
  <2>9. before = RowsOf(db, "quotations", row.id)
    <3>1. \A r \in db.quotations : r.id # row.id
      BY <2>2 DEF QuotationsSound
    <3> QED BY <1>4, <3>1 DEF RowsOf, WithId, NoRow
  <2> QED
    BY <1>2, <1>3, <1>4, <2>2, <2>3, <2>4, <2>6, <2>7, <2>8, <2>9 DEF NoRow, QuotationPut
<1>5. CASE before # NoRow
  <2> DEFINE was == TheRow(before)
  <2>1. was \in before
    BY <1>5 DEF TheRow, NoRow
  <2>2. before = {was}
    BY <1>3, <2>1
  <2>3. row = IF url = 0 THEN was ELSE [was EXCEPT !.url = url]
    BY <1>5 DEF QuotationRow
  <2> HIDE DEF was
  <2>4. /\ was \in db.quotations /\ was.id \in 1 .. db.lastId /\ was.number = number
        /\ was \in QuotationRecord
    BY <1>2, <2>1 DEF QuotationsSound
  <2>5. row \in QuotationRecord /\ row.id = was.id /\ row.number = number
    BY <2>3, <2>4 DEF QuotationRecord
  <2>6. Given(db, before) = db.lastId
    BY <1>5 DEF Given
  <2>7. QuotationsSound((db.quotations \ {was}) \cup {row}, db.lastId)
    BY <2>4, <2>5, QuotationChanged
  <2>8. Ids(db.quotations) \subseteq Ids((db.quotations \ {was}) \cup {row})
    BY <2>5 DEF Ids
  <2>9. /\ QuotationsSound((db.quotations \ before) \cup {row}, Given(db, before))
        /\ Ids(db.quotations) \subseteq Ids((db.quotations \ before) \cup {row})
    BY <2>2, <2>6, <2>7, <2>8
  <2>10. /\ \A b \in before : b.id = row.id /\ b.number = row.number
         /\ row.id \in 1 .. Given(db, before)
         /\ Given(db, before) \in Nat /\ db.lastId <= Given(db, before)
    BY <2>2, <2>4, <2>5, <2>6
  <2>11. before = RowsOf(db, "quotations", row.id)
    <3>1. \A r \in db.quotations : r.id = row.id <=> r = was
      BY <2>4, <2>5 DEF QuotationsSound
    <3>2. \A r : r \in RowsOf(db, "quotations", row.id) <=> r \in db.quotations /\ r.id = row.id
      BY DEF RowsOf, WithId
    <3> QED BY <2>2, <2>4, <3>1, <3>2
  <2> QED BY <1>2, <1>3, <2>5, <2>9, <2>10, <2>11 DEF QuotationPut
<1>6. QED
  BY <1>4, <1>5

\* A quotation is stored once for each file.
LEMMA QuotationFits ==
  ASSUME NEW db, NEW last \in Nat, NEW released, NEW free, NEW may, Fit(db, last, released, free, may),
         NEW number \in QuotationNumber, NEW url \in Urls, MaxUrl \in Nat, "quotations" \in may
  PROVE  Fit(Recorded(db, "quotations", Numbered(db.quotations, number),
                      QuotationRow(db, number, url)), last, released, free, may)
<1> DEFINE before == Numbered(db.quotations, number)
           row == QuotationRow(db, number, url)
           new == Recorded(db, "quotations", before, row)
           e   == [table |-> "quotations", before |-> before, after |-> row]
<1>1. db \in Works /\ db.lastId \in Nat
  BY FitParts
<1>3. /\ row \in QuotationRecord /\ before \in SUBSET QuotationRecord
      /\ row.number = number /\ before = RowsOf(db, "quotations", row.id)
      /\ QuotationsSound((db.quotations \ before) \cup {row}, Given(db, before))
      /\ row.id \in 1 .. Given(db, before)
      /\ \A b \in before : b.id = row.id /\ b.number = row.number
      /\ \A b, c \in before : b = c
      /\ Given(db, before) \in Nat /\ db.lastId <= Given(db, before)
      /\ Ids(db.quotations) \subseteq Ids((db.quotations \ before) \cup {row})
  <2>1. QuotationPut(db, number, before, row)
    <3>1. QuotationsSound(db.quotations, db.lastId)
      BY FitParts
    <3>2. before = Numbered(db.quotations, number) /\ row = QuotationRow(db, number, url)
      OBVIOUS
    <3> HIDE DEF row, before
    <3> QED BY <1>1, <3>1, <3>2, QuotationStored
  <2> QED BY <2>1 DEF QuotationPut
<1> HIDE DEF row, before
<1>4. Has(new, db.items, db.aliases, (db.quotations \ before) \cup {row}, db.headers, db.lines,
          Given(db, before), Noting(db, "quotations", before, row), db.deferred,
          db.seenQuotations, db.seenNumbers, db.stopped)
  BY <1>1, <1>3, QuotationsRecorded
<1> HIDE DEF new
<1>5. /\ new \in Works /\ new.items = db.items /\ new.aliases = db.aliases
      /\ new.quotations = (db.quotations \ before) \cup {row}
      /\ new.headers = db.headers /\ new.lines = db.lines
      /\ new.lastId = Given(db, before) /\ new.effects = Append(db.effects, e)
  BY <1>4 DEF Has, Noting
<1>6. QuotationsSound(new.quotations, new.lastId)
  BY <1>3, <1>5
<1>7. db.lastId <= new.lastId /\ new.lastId \in Nat
  BY <1>3, <1>5
<1>8. /\ ItemsSound(new.items, new.lastId) /\ AliasesSound(new.items, new.aliases, new.lastId)
      /\ HeadersSound(new.headers, new.lastId)
      /\ LinesSound(new.items, db.quotations, new.headers, new.lines, new.lastId)
  BY <1>1, <1>5, <1>7, FitParts, SoundLater
<1>9. Ids(db.quotations) \subseteq Ids(new.quotations)
  BY <1>3, <1>5
<1>10. LinesSound(new.items, new.quotations, new.headers, new.lines, new.lastId)
  BY <1>8, <1>9, SameIds
<1>11. e \in Effect /\ e.table = "quotations" /\ e.before = before /\ e.after = row
  BY <1>3 DEF Effect, TableName, Row
<1> HIDE DEF e
<1>12. EffectSound(e, new.lastId)
  BY <1>3, <1>5, <1>11 DEF EffectSound
<1>13. Guarded(new.headers, released)
  BY <1>5, FitParts
<1>14. Recording(db, new, e)
  BY <1>3, <1>5, <1>11 DEF Recording, TableName
<1>15. Fit(new, last, released, free, may)
  BY <1>5, <1>6, <1>7, <1>8, <1>10, <1>11, <1>12, <1>13, <1>14, StillFit
<1>16. QED
  BY <1>15 DEF new, row, before

\* A header comes with its lock, or gets the document url it had not.
HeaderPut(db, number, before, row) ==
  /\ row \in HeaderRecord /\ before \in SUBSET HeaderRecord /\ before \in SUBSET db.headers
  /\ row.number = number /\ before = RowsOf(db, "headers", row.id)
  /\ HeadersSound((db.headers \ before) \cup {row}, Given(db, before))
  /\ row.id \in 1 .. Given(db, before)
  /\ \A b \in before : /\ b.id = row.id /\ b.number = row.number /\ b.locked = row.locked
                       /\ before # {row} => b.url = 0
  /\ \A b, c \in before : b = c
  /\ before = NoRow => row.locked /\ row.id = db.lastId + 1
  /\ Given(db, before) \in Nat /\ db.lastId <= Given(db, before)
  /\ Ids(db.headers) \subseteq Ids((db.headers \ before) \cup {row})

\* The header of a number and a url, as found, made, or given the url.
LEMMA HeaderFound ==
  ASSUME NEW db, db.lastId \in Nat, HeadersSound(db.headers, db.lastId),
         NEW number \in Number, NEW url \in Urls, MaxUrl \in Nat,
         NEW before, before = Numbered(db.headers, number),
         NEW options, options = GetOrCreatePurchaseOrder(db, number, url, 0), options # {},
         NEW row, row = TheRow(options)
  PROVE  HeaderPut(db, number, before, row)
<1>1. /\ before \in SUBSET db.headers /\ before \in SUBSET HeaderRecord
      /\ \A b \in before : b.number = number
      /\ \A b \in db.headers : b.number = number => b \in before
  BY DEF Numbered, HeadersSound
<1>2. \A b, c \in before : b = c
  BY <1>1 DEF HeadersSound
<1> DEFINE others == WithUrl(db, url) \ before
<1>3. others = NoRow => \A b \in db.headers : b \notin before => ~(url # 0 /\ b.url = url)
  BY DEF WithUrl, NoRow
<1>4. CASE before = NoRow
  <2>1. options = IF others = NoRow THEN { NewHeader(db, number, url) } ELSE {}
    BY <1>4 DEF GetOrCreatePurchaseOrder
  <2>2. others = NoRow /\ options = { NewHeader(db, number, url) }
    BY <2>1
  <2>3. row = [id |-> db.lastId + 1, number |-> number, url |-> url, locked |-> TRUE]
    BY <2>2 DEF TheRow, NewHeader
  <2>4. /\ row.id = db.lastId + 1 /\ Given(db, before) = db.lastId + 1 /\ row.id \in Nat
        /\ row.number = number /\ row.url = url /\ row.locked
    BY <1>4, <2>3 DEF Given
  <2>5. row \in HeaderRecord
    BY <2>3, <2>4 DEF HeaderRecord
  <2>6. (db.headers \ before) \cup {row} = db.headers \cup {row}
    BY <1>4 DEF NoRow
  <2>7. \A b \in db.headers : b.number # row.number /\ ~(row.url # 0 /\ b.url = row.url)
    BY <1>1, <1>3, <1>4, <2>2, <2>4 DEF NoRow
  <2>8. HeadersSound(db.headers \cup {row}, db.lastId + 1)
    BY <2>4, <2>5, <2>7, HeaderAdded
  <2>9. row.id \in 1 .. Given(db, before) /\ db.lastId <= Given(db, before)
    BY <2>4
  <2>10. Ids(db.headers) \subseteq Ids(db.headers \cup {row})
    BY DEF Ids
  <2>11. before = RowsOf(db, "headers", row.id)
    <3>1. \A r \in db.headers : r.id # row.id
      BY <2>4 DEF HeadersSound
    <3> QED BY <1>4, <3>1 DEF RowsOf, WithId, NoRow
  <2> QED
    BY <1>1, <1>2, <1>4, <2>4, <2>5, <2>6, <2>8, <2>9, <2>10, <2>11 DEF NoRow, HeaderPut
<1>5. CASE before # NoRow
  <2> DEFINE was == TheRow(before)
  <2>1. was \in before
    BY <1>5 DEF TheRow, NoRow
  <2>2. before = {was}
    BY <1>2, <2>1
  <2>3. others = NoRow
    BY <1>5 DEF GetOrCreatePurchaseOrder
  <2>4. options = IF was.url = 0 THEN { [was EXCEPT !.url = url] }
                ELSE IF url \in {0, was.url} THEN before ELSE {}
    BY <1>5, <2>3 DEF GetOrCreatePurchaseOrder
  <2> HIDE DEF was
  <2>5. /\ was \in db.headers /\ was.id \in 1 .. db.lastId /\ was.number = number
        /\ was \in HeaderRecord
    BY <1>1, <2>1 DEF HeadersSound
  <2>6. row = was \/ (was.url = 0 /\ row = [was EXCEPT !.url = url])
    BY <2>2, <2>4 DEF TheRow
  <2>7. /\ row \in HeaderRecord /\ row.id = was.id /\ row.number = number
        /\ row.locked = was.locked /\ (row = was \/ (was.url = 0 /\ row.url = url))
    BY <2>5, <2>6 DEF HeaderRecord
  <2>8. Given(db, before) = db.lastId
    BY <1>5 DEF Given
  <2>9. \A r \in db.headers : r # was => /\ r.number # row.number
                                         /\ ~(row.url # 0 /\ r.url = row.url)
    <3>1. \A r \in db.headers : r # was => r.number # row.number
      BY <2>5, <2>7 DEF HeadersSound
    <3>2. CASE row = was
      BY <2>5, <3>1, <3>2 DEF HeadersSound
    <3>3. CASE row.url = url
      BY <1>3, <2>2, <2>3, <3>1, <3>3
    <3> QED BY <2>7, <3>2, <3>3
  <2>10. HeadersSound((db.headers \ {was}) \cup {row}, db.lastId)
    BY <2>5, <2>7, <2>9, HeaderChanged
  <2>11. Ids(db.headers) \subseteq Ids((db.headers \ {was}) \cup {row})
    BY <2>7 DEF Ids
  <2>12. /\ HeadersSound((db.headers \ before) \cup {row}, Given(db, before))
         /\ Ids(db.headers) \subseteq Ids((db.headers \ before) \cup {row})
    BY <2>2, <2>8, <2>10, <2>11
  <2>13. /\ \A b \in before : /\ b.id = row.id /\ b.number = row.number
                              /\ b.locked = row.locked /\ (before # {row} => b.url = 0)
         /\ row.id \in 1 .. Given(db, before)
         /\ Given(db, before) \in Nat /\ db.lastId <= Given(db, before)
    BY <2>2, <2>5, <2>7, <2>8
  <2>14. before = RowsOf(db, "headers", row.id)
    <3>1. \A r \in db.headers : r.id = row.id <=> r = was
      BY <2>5, <2>7 DEF HeadersSound
    <3>2. \A r : r \in RowsOf(db, "headers", row.id) <=> r \in db.headers /\ r.id = row.id
      BY DEF RowsOf, WithId
    <3> QED BY <2>2, <2>5, <3>1, <3>2
  <2> QED BY <1>1, <1>2, <1>5, <2>7, <2>12, <2>13, <2>14 DEF HeaderPut
<1>6. QED
  BY <1>4, <1>5

\* A header that changes gets its document url.
LEMMA HeaderFits ==
  ASSUME NEW db, NEW last \in Nat, NEW released, NEW free, NEW may, Fit(db, last, released, free, may),
         NEW number, NEW before, NEW row, HeaderPut(db, number, before, row),
         before # {row}, "headers" \in may
  PROVE  Fit(Recorded(db, "headers", before, row), last, released, free, may)
<1> DEFINE new == Recorded(db, "headers", before, row)
           e   == [table |-> "headers", before |-> before, after |-> row]
<1>1. db \in Works /\ db.lastId \in Nat
  BY FitParts
<1>2. /\ row \in HeaderRecord /\ before \in SUBSET HeaderRecord
      /\ before \in SUBSET db.headers /\ before = RowsOf(db, "headers", row.id)
      /\ HeadersSound((db.headers \ before) \cup {row}, Given(db, before))
      /\ row.id \in 1 .. Given(db, before)
      /\ \A b \in before : /\ b.id = row.id /\ b.number = row.number /\ b.locked = row.locked
                           /\ b.url = 0
      /\ \A b, c \in before : b = c
      /\ before = NoRow => row.locked /\ row.id = db.lastId + 1
      /\ Given(db, before) \in Nat /\ db.lastId <= Given(db, before)
      /\ Ids(db.headers) \subseteq Ids((db.headers \ before) \cup {row})
  BY DEF HeaderPut
<1>4. Has(new, db.items, db.aliases, db.quotations, (db.headers \ before) \cup {row}, db.lines,
          Given(db, before), Noting(db, "headers", before, row), db.deferred,
          db.seenQuotations, db.seenNumbers, db.stopped)
  BY <1>1, <1>2, HeadersRecorded
<1> HIDE DEF new
<1>5. /\ new \in Works /\ new.items = db.items /\ new.aliases = db.aliases
      /\ new.headers = (db.headers \ before) \cup {row}
      /\ new.quotations = db.quotations /\ new.lines = db.lines
      /\ new.lastId = Given(db, before) /\ new.effects = Append(db.effects, e)
  BY <1>4 DEF Has, Noting
<1>6. HeadersSound(new.headers, new.lastId)
  BY <1>2, <1>5
<1>7. db.lastId <= new.lastId /\ new.lastId \in Nat
  BY <1>2, <1>5
<1>8. /\ ItemsSound(new.items, new.lastId) /\ AliasesSound(new.items, new.aliases, new.lastId)
      /\ QuotationsSound(new.quotations, new.lastId)
      /\ LinesSound(new.items, new.quotations, db.headers, new.lines, new.lastId)
  BY <1>1, <1>5, <1>7, FitParts, SoundLater
<1>9. Ids(db.headers) \subseteq Ids(new.headers)
  BY <1>2, <1>5
<1>10. LinesSound(new.items, new.quotations, new.headers, new.lines, new.lastId)
  BY <1>8, <1>9, SameIds
<1>11. e \in Effect /\ e.table = "headers" /\ e.before = before /\ e.after = row
  BY <1>2 DEF Effect, TableName, Row
<1> HIDE DEF e
<1>12. EffectSound(e, new.lastId)
  BY <1>2, <1>5, <1>11 DEF EffectSound
<1>13. Guarded(new.headers, released)
  <2>1. Guarded(db.headers, released)
    BY FitParts
  <2>2. row.locked \/ row.id \in released
    <3>1. CASE before = NoRow
      BY <1>2, <3>1
    <3>2. CASE before # NoRow
      BY <1>2, <2>1, <3>2 DEF Guarded, NoRow
    <3> QED BY <3>1, <3>2
  <2> QED BY <1>5, <2>1, <2>2 DEF Guarded
<1>14. Recording(db, new, e)
  BY <1>2, <1>5, <1>11 DEF Recording, TableName
<1>15. e.before # {} \/ e.after.id > last
  BY <1>1, <1>2, <1>11, FitParts DEF NoRow
<1>16. Fit(new, last, released, free, may)
  BY <1>5, <1>6, <1>7, <1>8, <1>10, <1>11, <1>12, <1>13, <1>14, <1>15, StillFit
<1>17. QED
  BY <1>16 DEF new

\* A line is put on a header that is new, or free for the request.
LEMMA LineFits ==
  ASSUME NEW db, NEW last \in Nat, NEW released, NEW free, NEW may, Fit(db, last, released, free, may),
         NEW row \in LineRecord, row.id = db.lastId + 1, row.item \in Ids(db.items),
         row.quotation \in Ids(db.quotations), row.header \in Ids(db.headers),
         row.header > last \/ row.header \in free, "lines" \in may
  PROVE  Fit(Recorded(db, "lines", NoRow, row), last, released, free, may)
<1> DEFINE new == Recorded(db, "lines", NoRow, row)
           e   == [table |-> "lines", before |-> NoRow, after |-> row]
<1>1. db \in Works /\ db.lastId \in Nat
  BY FitParts
<1>2. NoRow \in SUBSET LineRecord
  BY DEF NoRow
<1>4. Has(new, db.items, db.aliases, db.quotations, db.headers, (db.lines \ NoRow) \cup {row},
          Given(db, NoRow), Noting(db, "lines", NoRow, row), db.deferred,
          db.seenQuotations, db.seenNumbers, db.stopped)
  BY <1>1, <1>2, LinesRecorded
<1> HIDE DEF new
<1>5. /\ new \in Works /\ new.items = db.items /\ new.aliases = db.aliases
      /\ new.headers = db.headers /\ new.quotations = db.quotations
      /\ new.lines = db.lines \cup {row}
      /\ new.lastId = db.lastId + 1 /\ new.effects = Append(db.effects, e)
  BY <1>4 DEF Has, Noting, Given, NoRow
<1>6. LinesSound(new.items, new.quotations, new.headers, new.lines, new.lastId)
  <2>1. LinesSound(db.items, db.quotations, db.headers, db.lines, db.lastId)
    BY FitParts
  <2>2. LinesSound(db.items, db.quotations, db.headers, db.lines \cup {row}, db.lastId + 1)
    BY <1>1, <2>1, LineAdded
  <2> QED BY <1>5, <2>2
<1>7. db.lastId <= new.lastId /\ new.lastId \in Nat
  BY <1>1, <1>5
<1>8. /\ ItemsSound(new.items, new.lastId) /\ AliasesSound(new.items, new.aliases, new.lastId)
      /\ QuotationsSound(new.quotations, new.lastId) /\ HeadersSound(new.headers, new.lastId)
  BY <1>1, <1>5, <1>7, FitParts, SoundLater
<1>9. row.header \in 1 .. new.lastId /\ row.id \in 1 .. new.lastId
  BY <1>1, <1>5, <1>8 DEF Ids, HeadersSound
<1>11. e \in Effect /\ e.table = "lines" /\ e.before = NoRow /\ e.after = row
  BY <1>2 DEF Effect, TableName, Row, NoRow
<1> HIDE DEF e
<1>12. EffectSound(e, new.lastId)
  BY <1>9, <1>11 DEF EffectSound, NoRow
<1>13. Guarded(new.headers, released)
  BY <1>5, FitParts
<1>14. Recording(db, new, e)
  <2>1. RowsOf(db, "lines", row.id) = NoRow
    <3>1. \A r \in db.lines : r.id # row.id
      BY <1>1, FitParts DEF LinesSound
    <3> QED BY <3>1 DEF RowsOf, WithId, NoRow
  <2> QED BY <1>5, <1>11, <2>1 DEF Recording, TableName, NoRow
<1>15. Fit(new, last, released, free, may)
  BY <1>5, <1>6, <1>7, <1>8, <1>11, <1>12, <1>13, <1>14, StillFit
<1>16. QED
  BY <1>15 DEF new

\* What a request notes for itself leaves the tables alone.
LEMMA SameFit ==
  ASSUME NEW db, NEW last \in Nat, NEW released, NEW free, NEW may,
         Fit(db, last, released, free, may), NEW new \in Works,
         new.items = db.items, new.aliases = db.aliases, new.quotations = db.quotations,
         new.headers = db.headers, new.lines = db.lines, new.lastId = db.lastId,
         new.effects = db.effects
  PROVE  Fit(new, last, released, free, may)
BY SameTells DEF Fit, Sound

-----------------------------------------------------------------------------
(* Item files.                                                             *)

\* What each turn of a loop keeps, the loop keeps.
LEMMA LoopStays ==
  ASSUME NEW N \in Nat, NEW X, NEW f, f[0] \in X,
         \A n \in 1 .. N : f[n - 1] \in X => f[n] \in X
  PROVE  f[N] \in X
<1> DEFINE S == { n \in Nat : n <= N => f[n] \in X }
<1>1. 0 \in S
  OBVIOUS
<1>2. ASSUME NEW n \in Nat, n \in S PROVE n + 1 \in S
  <2>1. SUFFICES ASSUME n + 1 <= N PROVE f[n + 1] \in X
    OBVIOUS
  <2>2. n + 1 \in 1 .. N /\ (n + 1) - 1 = n /\ f[n] \in X
    BY <1>2, <2>1
  <2> QED BY <2>2
<1> HIDE DEF S
<1>3. N \in S
  BY <1>1, <1>2, AllNumbers
<1> QED
  BY <1>3 DEF S

\* A request that stops at an error leaves its work as it is.
LEMMA StoppedFits ==
  ASSUME NEW db, NEW last \in Nat, NEW released, NEW free, NEW may, Fit(db, last, released, free, may)
  PROVE  Fit(Stopped(db), last, released, free, may)
<1>1. db \in Works
  BY FitParts
<1>2. Has([db EXCEPT !.stopped = TRUE], db.items, db.aliases, db.quotations, db.headers,
          db.lines, db.lastId, db.effects, db.deferred, db.seenQuotations, db.seenNumbers, TRUE)
  BY <1>1, StoppedSet
<1> DEFINE new == [db EXCEPT !.stopped = TRUE]
<1> HIDE DEF new
<1>3. /\ new \in Works /\ new.items = db.items /\ new.aliases = db.aliases
      /\ new.quotations = db.quotations /\ new.headers = db.headers /\ new.lines = db.lines
      /\ new.lastId = db.lastId /\ new.effects = db.effects
  BY <1>2 DEF Has, new
<1>4. Fit(new, last, released, free, may)
  BY <1>3, SameFit
<1> QED
  BY <1>4 DEF Stopped, new

\* A row that fails is passed over, or ends its loop.
LEMMA SkippedFits ==
  ASSUME NEW db, NEW last \in Nat, NEW released, NEW free, NEW may, Fit(db, last, released, free, may), NEW file
  PROVE  Fit(Skipped(db, file), last, released, free, may)
BY StoppedFits DEF Skipped

\* A row of the first loop over an item file.
LEMMA FirstRowFits ==
  ASSUME NEW db, NEW last \in Nat, NEW released, NEW free, NEW may, Fit(db, last, released, free, may), NEW file,
         NEW row \in ItemFileRow, MaxNote \in Nat, "items" \in may
  PROVE  Fit(FirstRow(db, file, row), last, released, free, may)
<1>1. db \in Works /\ db.stopped \in BOOLEAN /\ db.deferred \in Seq(AliasFileRow)
  BY FitParts, WorksFields
<1>2. /\ row.type = "item" \/ row.type = "alias"
      /\ row.name \in Name
      /\ row.type = "alias" => row \in AliasFileRow
  BY DEF ItemFileRow, AliasFileRow
<1>3. CASE db.stopped
  BY <1>3 DEF FirstRow
<1>4. CASE ~db.stopped /\ row.type = "item"
  <2>1. FirstRow(db, file, row) = ItemRow(db, file, row)
    BY <1>4 DEF FirstRow
  <2>2. CASE Named(db.items, row.name) # NoRow
    BY <2>1, <2>2, SkippedFits DEF ItemRow
  <2>3. CASE Named(db.items, row.name) = NoRow
    <3>1. ItemRow(db, file, row) = Recorded(db, "items", NoRow, NewItem(db, row.name))
      BY <2>3 DEF ItemRow
    <3> QED BY <1>2, <2>1, <2>3, <3>1, ItemFits
  <2> QED BY <2>2, <2>3
<1>5. CASE ~db.stopped /\ row.type = "alias"
  <2> DEFINE more == Append(db.deferred, row)
             new  == [db EXCEPT !.deferred = more]
  <2>1. FirstRow(db, file, row) = IF AliasAccepted(db, file, row) THEN new
                                  ELSE Skipped(db, file)
    BY <1>5 DEF FirstRow
  <2>2. more \in Seq(AliasFileRow)
    BY <1>1, <1>2, <1>5
  <2> HIDE DEF more
  <2>3. Has(new, db.items, db.aliases, db.quotations, db.headers, db.lines, db.lastId,
            db.effects, more, db.seenQuotations, db.seenNumbers, db.stopped)
    BY <1>1, <2>2, DeferredSet
  <2> HIDE DEF new
  <2>4. /\ new \in Works /\ new.items = db.items /\ new.aliases = db.aliases
        /\ new.quotations = db.quotations /\ new.headers = db.headers /\ new.lines = db.lines
        /\ new.lastId = db.lastId /\ new.effects = db.effects
    BY <2>3 DEF Has
  <2>5. Fit(new, last, released, free, may)
    BY <2>4, SameFit
  <2> QED BY <2>1, <2>5, SkippedFits
<1>6. QED
  BY <1>1, <1>2, <1>3, <1>4, <1>5

\* The first loop over an item file.
LEMMA FirstPassFits ==
  ASSUME NEW t, NEW last \in Nat, NEW released, NEW free, NEW may, Fit(Emptied(t), last, released, free, may),
         NEW file, file.rows \in Seq(ItemFileRow), MaxNote \in Nat, "items" \in may
  PROVE  Fit(FirstPass(t, file), last, released, free, may)
<1> DEFINE X == { db \in Works : Fit(db, last, released, free, may) }
<1> DEFINE N == Len(file.rows)
           start == Emptied(t)
           step(db, n) == FirstRow(db, file, file.rows[n])
           G == [n \in 1 .. N |-> [db \in X |-> step(db, n)]]
           Is(f) == f = [n \in 0 .. N |-> IF n = 0 THEN start ELSE step(f[n - 1], n)]
<1>1. N \in Nat /\ start \in X
  BY DEF Fit
<1>2. ASSUME NEW n \in 1 .. N, NEW db \in X PROVE step(db, n) \in X
  <2>1. file.rows[n] \in ItemFileRow
    OBVIOUS
  <2>2. Fit(step(db, n), last, released, free, may)
    BY <1>2, <2>1, FirstRowFits
  <2> QED BY <2>2 DEF Fit
<1>3. FirstPass(t, file) = (CHOOSE f : Is(f))[N]
  BY Zenon DEF FirstPass
<1> HIDE DEF X, N, start, step
<1>4. StepsBack(N, X, G)
  BY <1>2 DEF StepsBack
<1>5. \A n \in 1 .. N : \A db \in X : G[n][db] = step(db, n)
  OBVIOUS
<1> HIDE DEF G
<1>6. PICK f : StatesOn(N, X, start, G, f)
  BY <1>1, <1>4, StatesForward
<1>7. /\ f \in [0 .. N -> X] /\ f[0] = start
      /\ \A n \in 1 .. N : f[n] = G[n][f[n - 1]]
  BY <1>6 DEF StatesOn
<1>8. ASSUME NEW n \in 0 .. N PROVE f[n] = IF n = 0 THEN start ELSE step(f[n - 1], n)
  <2>1. CASE n = 0
    BY <1>7, <2>1
  <2>2. CASE n # 0
    <3>1. n \in 1 .. N /\ n - 1 \in 0 .. N
      BY <1>1, <2>2
    <3> QED BY <1>5, <1>7, <2>2, <3>1
  <2> QED BY <2>1, <2>2
<1>9. Is(f)
  BY <1>7, <1>8
<1>10. \E g : Is(g)
  BY <1>9
<1> DEFINE g == CHOOSE h : Is(h)
<1>11. Is(g)
  BY <1>10
<1> HIDE DEF g
<1>12. g[0] = start /\ \A n \in 1 .. N : g[n] = step(g[n - 1], n)
  <2>1. \A n \in 0 .. N : g[n] = IF n = 0 THEN start ELSE step(g[n - 1], n)
    BY <1>11
  <2>2. 0 \in 0 .. N /\ \A n \in 1 .. N : n \in 0 .. N /\ n # 0
    BY <1>1
  <2> QED BY <2>1, <2>2
<1>13. g[0] \in X /\ \A n \in 1 .. N : g[n - 1] \in X => g[n] \in X
  BY <1>1, <1>2, <1>12
<1>14. g[N] \in X
  BY <1>1, <1>13, LoopStays
<1>15. FirstPass(t, file) \in X
  BY <1>3, <1>14 DEF g
<1> QED
  BY <1>15 DEF X

\* A row of the second loop.
LEMMA DeferredAliasFits ==
  ASSUME NEW db, NEW last \in Nat, NEW released, NEW free, NEW may, Fit(db, last, released, free, may), NEW file,
         NEW row \in AliasFileRow, "aliases" \in may
  PROVE  Fit(DeferredAlias(db, file, row), last, released, free, may)
<1>1. db \in Works /\ db.stopped \in BOOLEAN
  BY FitParts, WorksFields
<1>2. row.name \in Name /\ row.canonical \in Name /\ row.units \in Nat
  BY DEF AliasFileRow
<1> DEFINE canonical == Named(db.items, row.canonical)
           refused == canonical = NoRow \/ Named(db.items, row.name) # NoRow
<1>3. CASE db.stopped
  BY <1>3 DEF DeferredAlias
<1>4. CASE ~db.stopped /\ refused
  BY <1>4, SkippedFits DEF DeferredAlias
<1>5. CASE ~db.stopped /\ ~refused
  <2>1. DeferredAlias(db, file, row)
          = Recorded(db, "aliases", Named(db.aliases, row.name),
                     AliasRow(db, row.name, TheRow(canonical).id, row.units))
    BY <1>5 DEF DeferredAlias
  <2>2. TheRow(canonical) \in canonical
    BY <1>5 DEF TheRow, NoRow
  <2>3. TheRow(canonical).id \in Ids(db.items)
    BY <2>2 DEF Named, Ids
  <2> QED BY <1>2, <2>1, <2>3, AliasFits
<1>6. QED
  BY <1>1, <1>3, <1>4, <1>5

\* What importing an item file makes of sound tables.
LEMMA ItemsImportedFits ==
  ASSUME NEW t, NEW last \in Nat, NEW released, NEW free, NEW may, Fit(Emptied(t), last, released, free, may),
         NEW file, file.rows \in Seq(ItemFileRow), MaxNote \in Nat,
         "items" \in may, "aliases" \in may
  PROVE  Fit(ItemsImported(t, file), last, released, free, may)
<1> DEFINE first == FirstPass(t, file)
           X == { db \in Works : Fit(db, last, released, free, may) }
<1>a. first \in Works /\ Fit(first, last, released, free, may)
  BY FirstPassFits DEF Fit
<1> HIDE DEF first
<1>b. first.deferred \in Seq(AliasFileRow)
  BY <1>a, WorksFields
<1>c. /\ [first EXCEPT !.stopped = FALSE] \in Works
      /\ Fit([first EXCEPT !.stopped = FALSE], last, released, free, may)
  <2> DEFINE new == [first EXCEPT !.stopped = FALSE]
  <2>1. Has(new, first.items, first.aliases, first.quotations, first.headers, first.lines,
            first.lastId, first.effects, first.deferred, first.seenQuotations,
            first.seenNumbers, FALSE)
    BY <1>a, StoppedSet
  <2> HIDE DEF new
  <2>2. /\ new \in Works /\ new.items = first.items /\ new.aliases = first.aliases
        /\ new.quotations = first.quotations /\ new.headers = first.headers
        /\ new.lines = first.lines /\ new.lastId = first.lastId /\ new.effects = first.effects
    BY <2>1 DEF Has
  <2>3. Fit(new, last, released, free, may)
    BY <1>a, <2>2, SameFit
  <2> QED BY <2>2, <2>3 DEF new
<1> DEFINE N == Len(first.deferred)
           start == [first EXCEPT !.stopped = FALSE]
           step(db, n) == DeferredAlias(db, file, first.deferred[n])
           G == [n \in 1 .. N |-> [db \in X |-> step(db, n)]]
           Is(f) == f = [n \in 0 .. N |-> IF n = 0 THEN start ELSE step(f[n - 1], n)]
<1>1. N \in Nat /\ start \in X
  BY <1>b, <1>c
<1>2. ASSUME NEW n \in 1 .. N, NEW db \in X PROVE step(db, n) \in X
  <2>1. first.deferred[n] \in AliasFileRow
    BY <1>b
  <2>2. Fit(step(db, n), last, released, free, may)
    BY <1>2, <2>1, DeferredAliasFits
  <2> QED BY <2>2 DEF Fit
<1>3. ItemsImported(t, file) = (CHOOSE f : Is(f))[N]
  BY Zenon DEF ItemsImported, first
<1> HIDE DEF X, N, start, step
<1>4. StepsBack(N, X, G)
  BY <1>2 DEF StepsBack
<1>5. \A n \in 1 .. N : \A db \in X : G[n][db] = step(db, n)
  OBVIOUS
<1> HIDE DEF G
<1>6. PICK f : StatesOn(N, X, start, G, f)
  BY <1>1, <1>4, StatesForward
<1>7. /\ f \in [0 .. N -> X] /\ f[0] = start
      /\ \A n \in 1 .. N : f[n] = G[n][f[n - 1]]
  BY <1>6 DEF StatesOn
<1>8. ASSUME NEW n \in 0 .. N PROVE f[n] = IF n = 0 THEN start ELSE step(f[n - 1], n)
  <2>1. CASE n = 0
    BY <1>7, <2>1
  <2>2. CASE n # 0
    <3>1. n \in 1 .. N /\ n - 1 \in 0 .. N
      BY <1>1, <2>2
    <3> QED BY <1>5, <1>7, <2>2, <3>1
  <2> QED BY <2>1, <2>2
<1>9. Is(f)
  BY <1>7, <1>8
<1>10. \E g : Is(g)
  BY <1>9
<1> DEFINE g == CHOOSE h : Is(h)
<1>11. Is(g)
  BY <1>10
<1> HIDE DEF g
<1>12. g[0] = start /\ \A n \in 1 .. N : g[n] = step(g[n - 1], n)
  <2>1. \A n \in 0 .. N : g[n] = IF n = 0 THEN start ELSE step(g[n - 1], n)
    BY <1>11
  <2>2. 0 \in 0 .. N /\ \A n \in 1 .. N : n \in 0 .. N /\ n # 0
    BY <1>1
  <2> QED BY <2>1, <2>2
<1>13. g[0] \in X /\ \A n \in 1 .. N : g[n - 1] \in X => g[n] \in X
  BY <1>1, <1>2, <1>12
<1>14. g[N] \in X
  BY <1>1, <1>13, LoopStays
<1>15. ItemsImported(t, file) \in X
  BY <1>3, <1>14 DEF g
<1> QED
  BY <1>15 DEF X

-----------------------------------------------------------------------------
(* Order files.                                                            *)

\* An order file is imported: the items stay, what it has met is there, and a
\* header with one of its numbers is new, or free for it.
Importing(db, items, last, released, free, numbers) ==
  /\ Fit(db, last, released, free, OrderTables)
  /\ Ids(db.items) = items
  /\ \A r \in db.headers :
       r.number \in numbers => r.id > last \/ r.id \in free
  /\ \A n \in db.seenNumbers : Numbered(db.headers, n) # {}
  /\ \A n \in db.seenQuotations : Numbered(db.quotations, n) # {}

\* What is not a table may change.
LEMMA ImportingSame ==
  ASSUME NEW db, NEW items, NEW last \in Nat, NEW released, NEW free, NEW numbers,
         Importing(db, items, last, released, free, numbers),
         NEW new, Fit(new, last, released, free, OrderTables), new.items = db.items,
         new.headers = db.headers, new.quotations = db.quotations, new.seenNumbers = db.seenNumbers,
         new.seenQuotations = db.seenQuotations
  PROVE  Importing(new, items, last, released, free, numbers)
BY DEF Importing

\* An import that stops has broken nothing.
LEMMA ImportingStops ==
  ASSUME NEW db, NEW items, NEW last \in Nat, NEW released, NEW free, NEW numbers,
         Importing(db, items, last, released, free, numbers)
  PROVE  Importing(Stopped(db), items, last, released, free, numbers) /\ Stopped(db).stopped
<1>1. db \in Works /\ Fit(db, last, released, free, OrderTables)
  BY FitParts DEF Importing
<1>2. Has([db EXCEPT !.stopped = TRUE], db.items, db.aliases, db.quotations, db.headers,
          db.lines, db.lastId, db.effects, db.deferred, db.seenQuotations, db.seenNumbers, TRUE)
  BY <1>1, StoppedSet
<1>3. Fit(Stopped(db), last, released, free, OrderTables)
  BY <1>1, StoppedFits
<1> DEFINE new == Stopped(db)
<1>4. /\ new.items = db.items /\ new.headers = db.headers /\ new.quotations = db.quotations
      /\ new.seenNumbers = db.seenNumbers /\ new.seenQuotations = db.seenQuotations
      /\ new.stopped = TRUE
  BY <1>2 DEF Has, Stopped
<1> HIDE DEF new
<1>5. Importing(new, items, last, released, free, numbers)
  BY <1>3, <1>4, ImportingSame DEF new
<1> QED
  BY <1>4, <1>5 DEF new

\* The fields of a row of an order file.
LEMMA OrderFileRowFields ==
  ASSUME NEW row \in OrderFileRow
  PROVE  /\ row.name \in Name /\ row.quotation \in QuotationNumber /\ row.qurl \in Urls
         /\ row.number \in Number /\ row.url \in Urls /\ row.override \in Nat
         /\ row.units \in Nat /\ row.save \in Nat
BY DEF OrderFileRow

\* An alias a row saves is of an item that is there.
LEMMA AliasSavedKeeps ==
  ASSUME NEW db, NEW items, NEW last \in Nat, NEW released, NEW free, NEW numbers,
         Importing(db, items, last, released, free, numbers),
         NEW row \in OrderFileRow, row.save # 0 => row.override \in items
  PROVE  Importing(AliasSaved(db, row), items, last, released, free, numbers)
<1> DEFINE before == Named(db.aliases, row.name)
           alias  == AliasRow(db, row.name, row.override, row.save)
           new    == Recorded(db, "aliases", before, alias)
<1>1. db \in Works /\ Fit(db, last, released, free, OrderTables) /\ db.lastId \in Nat
  BY FitParts DEF Importing
<1>2. AliasSaved(db, row) = db \/ (row.save # 0 /\ AliasSaved(db, row) = new)
  BY DEF AliasSaved, RecordedIfChanged
<1>3. ASSUME row.save # 0 PROVE Importing(new, items, last, released, free, numbers)
  <2>1. row.override \in Ids(db.items) /\ row.name \in Name /\ row.save \in Nat
    BY <1>3, OrderFileRowFields DEF Importing
  <2>2. Fit(new, last, released, free, OrderTables)
    BY <1>1, <2>1, AliasFits DEF OrderTables
  <2>3. AliasUpsert(db, row.name, row.override, before, alias)
    <3>1. AliasesSound(db.items, db.aliases, db.lastId) /\ row.override \in Nat
      BY <1>1, FitParts, OrderFileRowFields
    <3>2. before = Named(db.aliases, row.name)
          /\ alias = AliasRow(db, row.name, row.override, row.save)
      OBVIOUS
    <3> HIDE DEF before, alias
    <3> QED BY <1>1, <2>1, <3>1, <3>2, AliasUpserted
  <2> HIDE DEF before, alias
  <2>4. alias \in AliasRecord /\ before \in SUBSET AliasRecord
    BY <2>3 DEF AliasUpsert
  <2>5. Has(new, db.items, (db.aliases \ before) \cup {alias}, db.quotations, db.headers,
            db.lines, Given(db, before), Noting(db, "aliases", before, alias), db.deferred,
            db.seenQuotations, db.seenNumbers, db.stopped)
    BY <1>1, <2>4, AliasesRecorded
  <2> HIDE DEF new
  <2>6. /\ new.items = db.items /\ new.headers = db.headers /\ new.quotations = db.quotations
        /\ new.seenNumbers = db.seenNumbers /\ new.seenQuotations = db.seenQuotations
    BY <2>5 DEF Has
  <2> QED BY <2>2, <2>6, ImportingSame
<1>4. QED
  BY <1>2, <1>3

\* All aliases of a file are saved.
LEMMA AliasesSavedKeeps ==
  ASSUME NEW t, NEW items, NEW last \in Nat, NEW released, NEW free, NEW numbers,
         Importing(t, items, last, released, free, numbers),
         NEW file, file.rows \in Seq(OrderFileRow),
         \A n \in DOMAIN file.rows : file.rows[n].save # 0 => file.rows[n].override \in items
  PROVE  Importing(AliasesSaved(t, file), items, last, released, free, numbers)
<1> DEFINE X == { db \in Works : Importing(db, items, last, released, free, numbers) }
<1> DEFINE N == Len(file.rows)
           start == t
           step(db, n) == IF SavedAgain(file, n) THEN db ELSE AliasSaved(db, file.rows[n])
           G == [n \in 1 .. N |-> [db \in X |-> step(db, n)]]
           Is(f) == f = [n \in 0 .. N |-> IF n = 0 THEN start ELSE step(f[n - 1], n)]
<1>1. N \in Nat /\ start \in X
  BY DEF Fit, Importing
<1>2. ASSUME NEW n \in 1 .. N, NEW db \in X PROVE step(db, n) \in X
  <2>1. file.rows[n] \in OrderFileRow /\ n \in DOMAIN file.rows
    OBVIOUS
  <2>2. Importing(AliasSaved(db, file.rows[n]), items, last, released, free, numbers)
    BY <1>2, <2>1, AliasSavedKeeps
  <2> QED BY <2>2 DEF Importing, Fit
<1>3. AliasesSaved(t, file) = (CHOOSE f : Is(f))[N]
  BY Zenon DEF AliasesSaved
<1> HIDE DEF X, N, start, step
<1>4. StepsBack(N, X, G)
  BY <1>2 DEF StepsBack
<1>5. \A n \in 1 .. N : \A db \in X : G[n][db] = step(db, n)
  OBVIOUS
<1> HIDE DEF G
<1>6. PICK f : StatesOn(N, X, start, G, f)
  BY <1>1, <1>4, StatesForward
<1>7. /\ f \in [0 .. N -> X] /\ f[0] = start
      /\ \A n \in 1 .. N : f[n] = G[n][f[n - 1]]
  BY <1>6 DEF StatesOn
<1>8. ASSUME NEW n \in 0 .. N PROVE f[n] = IF n = 0 THEN start ELSE step(f[n - 1], n)
  <2>1. CASE n = 0
    BY <1>7, <2>1
  <2>2. CASE n # 0
    <3>1. n \in 1 .. N /\ n - 1 \in 0 .. N
      BY <1>1, <2>2
    <3> QED BY <1>5, <1>7, <2>2, <3>1
  <2> QED BY <2>1, <2>2
<1>9. Is(f)
  BY <1>7, <1>8
<1>10. \E g : Is(g)
  BY <1>9
<1> DEFINE g == CHOOSE h : Is(h)
<1>11. Is(g)
  BY <1>10
<1> HIDE DEF g
<1>12. g[0] = start /\ \A n \in 1 .. N : g[n] = step(g[n - 1], n)
  <2>1. \A n \in 0 .. N : g[n] = IF n = 0 THEN start ELSE step(g[n - 1], n)
    BY <1>11
  <2>2. 0 \in 0 .. N /\ \A n \in 1 .. N : n \in 0 .. N /\ n # 0
    BY <1>1
  <2> QED BY <2>1, <2>2
<1>13. g[0] \in X /\ \A n \in 1 .. N : g[n - 1] \in X => g[n] \in X
  BY <1>1, <1>2, <1>12
<1>14. g[N] \in X
  BY <1>1, <1>13, LoopStays
<1>15. AliasesSaved(t, file) \in X
  BY <1>3, <1>14 DEF g
<1> QED
  BY <1>15 DEF X

\* The quotation of a row is there afterwards.
LEMMA QuotationImportedKeeps ==
  ASSUME NEW db, NEW items, NEW last \in Nat, NEW released, NEW free, NEW numbers,
         Importing(db, items, last, released, free, numbers),
         NEW row \in OrderFileRow, MaxUrl \in Nat,
         NEW new, new = QuotationImported(db, row)
  PROVE  /\ Importing(new, items, last, released, free, numbers)
         /\ row.quotation \in new.seenQuotations
<1> DEFINE number == row.quotation
           seen   == db.seenQuotations \cup {number}
           noted  == [db EXCEPT !.seenQuotations = seen]
           before == Numbered(db.quotations, number)
           stored == QuotationRow(db, number, row.qurl)
           made   == Recorded(noted, "quotations", before, stored)
<1>1. db \in Works /\ Fit(db, last, released, free, OrderTables) /\ db.lastId \in Nat
  BY FitParts DEF Importing
<1>2. CASE number \in db.seenQuotations
  BY <1>2 DEF QuotationImported
<1>3. CASE number \notin db.seenQuotations
  <2>1. new = IF before = {stored} THEN noted ELSE made
    BY <1>3 DEF QuotationImported, RecordedIfChanged
  <2>2. number \in QuotationNumber /\ row.qurl \in Urls
    BY OrderFileRowFields
  <2>3. seen \in SUBSET QuotationNumber
    BY <1>1, <2>2, WorksFields
  <2> HIDE DEF seen
  <2>4. Has(noted, db.items, db.aliases, db.quotations, db.headers, db.lines, db.lastId,
            db.effects, db.deferred, seen, db.seenNumbers, db.stopped)
    BY <1>1, <2>3, QuotationsSeen
  <2> HIDE DEF noted
  <2>5. /\ noted \in Works /\ noted.items = db.items /\ noted.aliases = db.aliases
        /\ noted.quotations = db.quotations /\ noted.headers = db.headers
        /\ noted.lines = db.lines /\ noted.lastId = db.lastId /\ noted.effects = db.effects
        /\ noted.seenQuotations = seen /\ noted.seenNumbers = db.seenNumbers
    BY <2>4 DEF Has
  <2>6. Fit(noted, last, released, free, OrderTables)
    BY <1>1, <2>5, SameFit
  <2>7. before = Numbered(noted.quotations, number)
        /\ stored = QuotationRow(noted, number, row.qurl)
    BY <2>5 DEF QuotationRow
  <2> HIDE DEF before, stored
  <2>8. Fit(made, last, released, free, OrderTables)
    BY <2>2, <2>6, <2>7, QuotationFits DEF OrderTables
  <2>9. noted.lastId \in Nat /\ QuotationsSound(noted.quotations, noted.lastId)
    BY <2>6, FitParts
  <2>10. /\ stored \in QuotationRecord /\ before \in SUBSET QuotationRecord
         /\ stored.number = number
    <3>1. QuotationPut(noted, number, before, stored)
      BY <2>2, <2>7, <2>9, QuotationStored
    <3> QED BY <3>1 DEF QuotationPut
  <2>11. Has(made, noted.items, noted.aliases, (noted.quotations \ before) \cup {stored},
             noted.headers, noted.lines, Given(noted, before),
             Noting(noted, "quotations", before, stored), noted.deferred,
             noted.seenQuotations, noted.seenNumbers, noted.stopped)
    BY <2>5, <2>10, QuotationsRecorded
  <2> HIDE DEF made
  <2>12. /\ made.items = db.items /\ made.headers = db.headers
         /\ made.quotations = (db.quotations \ before) \cup {stored}
         /\ made.seenQuotations = seen /\ made.seenNumbers = db.seenNumbers
    BY <2>5, <2>11 DEF Has
  <2>13. /\ Fit(new, last, released, free, OrderTables)
         /\ new.items = db.items /\ new.headers = db.headers
         /\ new.quotations = (db.quotations \ before) \cup {stored}
         /\ new.seenQuotations = seen /\ new.seenNumbers = db.seenNumbers
    <3>1. CASE before = {stored}
      <4>1. before \subseteq db.quotations
        BY DEF before, Numbered
      <4>2. db.quotations = (db.quotations \ before) \cup {stored}
        BY <3>1, <4>1
      <4> QED BY <2>1, <2>5, <2>6, <3>1, <4>2
    <3>2. CASE before # {stored}
      BY <2>1, <2>8, <2>12, <3>2
    <3> QED BY <3>1, <3>2
  <2>14. \A n \in seen : Numbered(new.quotations, n) # {}
    <3>1. \A b \in before : b.number = number
      BY DEF before, Numbered
    <3>2. ASSUME NEW n \in seen, n # number PROVE Numbered(new.quotations, n) # {}
      <4>1. Numbered(db.quotations, n) # {}
        BY <3>2 DEF seen, Importing
      <4>2. PICK r \in db.quotations : r.number = n
        BY <4>1 DEF Numbered
      <4>3. r \in new.quotations
        BY <2>13, <3>1, <3>2, <4>2
      <4> QED BY <4>2, <4>3 DEF Numbered
    <3>3. Numbered(new.quotations, number) # {}
      BY <2>10, <2>13 DEF Numbered
    <3> QED BY <3>2, <3>3
  <2>15. number \in seen
    BY DEF seen
  <2> HIDE DEF number
  <2> QED BY <2>13, <2>14, <2>15 DEF Importing, number
<1>4. QED
  BY <1>2, <1>3

\* The header of a row is new, or free for the request.
LEMMA HeaderImportedKeeps ==
  ASSUME NEW db, NEW items, NEW last \in Nat, NEW released, NEW free, NEW numbers,
         Importing(db, items, last, released, free, numbers),
         NEW row \in OrderFileRow, row.number \in numbers, MaxUrl \in Nat,
         NEW new, new = HeaderImported(db, row)
  PROVE  /\ Importing(new, items, last, released, free, numbers)
         /\ new.seenQuotations = db.seenQuotations
         /\ new.stopped \/ row.number \in new.seenNumbers
<1> DEFINE number  == row.number
           options == GetOrCreatePurchaseOrder(db, number, row.url, 0)
           seen    == db.seenNumbers \cup {number}
           noted   == [db EXCEPT !.seenNumbers = seen]
           before  == Numbered(db.headers, number)
           stored  == TheRow(options)
           made    == Recorded(noted, "headers", before, stored)
<1>1. db \in Works /\ Fit(db, last, released, free, OrderTables) /\ db.lastId \in Nat
  BY FitParts DEF Importing
<1>2. CASE number \in db.seenNumbers
  BY <1>2 DEF HeaderImported
<1>3. CASE number \notin db.seenNumbers /\ options = {}
  <2>1. new = Stopped(db)
    BY <1>3 DEF HeaderImported
  <2>2. Stopped(db).seenQuotations = db.seenQuotations
    BY <1>1 DEF Stopped, Works
  <2> QED BY <2>1, <2>2, ImportingStops
<1>4. CASE number \notin db.seenNumbers /\ options # {}
  <2>1. new = IF before = {stored} THEN noted ELSE made
    BY <1>4 DEF HeaderImported, RecordedIfChanged
  <2>2. number \in Number /\ row.url \in Urls
    BY OrderFileRowFields
  <2>3. seen \in SUBSET Number
    BY <1>1, <2>2, WorksFields
  <2>4. HeaderPut(db, number, before, stored)
    <3>1. HeadersSound(db.headers, db.lastId)
      BY <1>1, FitParts
    <3>2. /\ before = Numbered(db.headers, number)
          /\ options = GetOrCreatePurchaseOrder(db, number, row.url, 0)
          /\ stored = TheRow(options)
      OBVIOUS
    <3> HIDE DEF before, options, stored
    <3> QED BY <1>1, <1>4, <2>2, <3>1, <3>2, HeaderFound
  <2>5. /\ \A b \in before : b \in db.headers /\ b.number = number
        /\ before \subseteq db.headers
    BY DEF Numbered
  <2> HIDE DEF seen, before, stored
  <2>6. Has(noted, db.items, db.aliases, db.quotations, db.headers, db.lines, db.lastId,
            db.effects, db.deferred, db.seenQuotations, seen, db.stopped)
    BY <1>1, <2>3, NumbersSeen
  <2> HIDE DEF noted
  <2>7. /\ noted \in Works /\ noted.items = db.items /\ noted.aliases = db.aliases
        /\ noted.quotations = db.quotations /\ noted.headers = db.headers
        /\ noted.lines = db.lines /\ noted.lastId = db.lastId /\ noted.effects = db.effects
        /\ noted.seenQuotations = db.seenQuotations /\ noted.seenNumbers = seen
    BY <2>6 DEF Has
  <2>8. Fit(noted, last, released, free, OrderTables)
    BY <1>1, <2>7, SameFit
  <2>9. HeaderPut(noted, number, before, stored)
    BY <2>4, <2>7 DEF HeaderPut, Given, RowsOf
  <2>10. \A b \in before : b.id > last \/ b.id \in free
    BY <2>5 DEF Importing
  <2>11. before # {stored} => Fit(made, last, released, free, OrderTables)
    BY <2>8, <2>9, HeaderFits DEF OrderTables
  <2>12. /\ stored \in HeaderRecord /\ before \in SUBSET HeaderRecord
         /\ stored.number = number /\ \A b \in before : b.id = stored.id
         /\ before = NoRow => stored.id = db.lastId + 1
    BY <2>4 DEF HeaderPut
  <2>13. Has(made, noted.items, noted.aliases, noted.quotations,
             (noted.headers \ before) \cup {stored}, noted.lines, Given(noted, before),
             Noting(noted, "headers", before, stored), noted.deferred,
             noted.seenQuotations, noted.seenNumbers, noted.stopped)
    BY <2>7, <2>12, HeadersRecorded
  <2> HIDE DEF made
  <2>14. /\ made.items = db.items /\ made.quotations = db.quotations
         /\ made.headers = (db.headers \ before) \cup {stored}
         /\ made.seenQuotations = db.seenQuotations /\ made.seenNumbers = seen
    BY <2>7, <2>13 DEF Has
  <2>15. /\ Fit(new, last, released, free, OrderTables) /\ new.items = db.items
         /\ new.quotations = db.quotations
         /\ new.headers = (db.headers \ before) \cup {stored}
         /\ new.seenQuotations = db.seenQuotations /\ new.seenNumbers = seen
    <3>1. CASE before = {stored}
      <4>1. db.headers = (db.headers \ before) \cup {stored}
        BY <2>5, <3>1
      <4> QED BY <2>1, <2>7, <2>8, <3>1, <4>1
    <3>2. CASE before # {stored}
      BY <2>1, <2>11, <2>14, <3>2
    <3> QED BY <3>1, <3>2
  <2>16. \A n \in seen : Numbered(new.headers, n) # {}
    <3>1. ASSUME NEW n \in seen, n # number PROVE Numbered(new.headers, n) # {}
      <4>1. Numbered(db.headers, n) # {}
        BY <3>1 DEF seen, Importing
      <4>2. PICK r \in db.headers : r.number = n
        BY <4>1 DEF Numbered
      <4>3. r \in new.headers
        BY <2>5, <2>15, <3>1, <4>2
      <4> QED BY <4>2, <4>3 DEF Numbered
    <3>2. Numbered(new.headers, number) # {}
      BY <2>12, <2>15 DEF Numbered
    <3> QED BY <3>1, <3>2
  <2>17. stored.id > last \/ stored.id \in free
    <3>1. CASE before = NoRow
      BY <1>1, <2>12, <3>1, FitParts
    <3>2. CASE before # NoRow
      BY <2>10, <2>12, <3>2 DEF NoRow
    <3> QED BY <3>1, <3>2
  <2>18. number \in seen /\ db.seenNumbers \subseteq seen
    BY DEF seen
  <2> HIDE DEF number
  <2>19. ASSUME NEW r \in new.headers, r.number \in numbers
         PROVE  r.id > last \/ r.id \in free
    <3>1. CASE r = stored
      BY <2>17, <3>1
    <3>2. CASE r # stored
      <4>1. r \in db.headers
        BY <2>15, <3>2
      <4> QED BY <2>19, <4>1 DEF Importing
    <3> QED BY <3>1, <3>2
  <2> QED BY <2>15, <2>16, <2>18, <2>19 DEF Importing, number
<1>5. QED
  BY <1>2, <1>3, <1>4

\* What a row of the file stands for.
Matches(db, match) == match.item \in Ids(db.items) /\ match.units \in Nat

\* A line goes to its row's item, quotation and header.
LEMMA LineImportedKeeps ==
  ASSUME NEW db, NEW items, NEW last \in Nat, NEW released, NEW free, NEW numbers,
         Importing(db, items, last, released, free, numbers),
         NEW row, row.number \in numbers, row.number \in db.seenNumbers,
         row.quotation \in db.seenQuotations,
         NEW match, match.item \in items, match.units \in Nat
  PROVE  Importing(LineImported(db, row, match), items, last, released, free, numbers)
<1> DEFINE quotation == TheRow(Numbered(db.quotations, row.quotation))
           header    == TheRow(Numbered(db.headers, row.number))
           line == [id |-> db.lastId + 1, item |-> match.item, amount |-> match.units, eta |-> 0,
                    status |-> "Ordered", quotation |-> quotation.id, header |-> header.id]
           new  == Recorded(db, "lines", NoRow, line)
<1>1. db \in Works /\ Fit(db, last, released, free, OrderTables) /\ db.lastId \in Nat
  BY FitParts DEF Importing
<1>2. quotation \in db.quotations /\ header \in db.headers /\ header.number = row.number
  <2>1. Numbered(db.quotations, row.quotation) # {} /\ Numbered(db.headers, row.number) # {}
    BY DEF Importing
  <2> QED BY <2>1 DEF TheRow, Numbered
<1> HIDE DEF quotation, header
<1>3. header.id > last \/ header.id \in free
  BY <1>2 DEF Importing
<1>4. /\ quotation.id \in Ids(db.quotations) /\ header.id \in Ids(db.headers)
      /\ quotation.id \in Nat /\ header.id \in Nat /\ match.item \in Ids(db.items)
      /\ match.item \in Nat
  <2>1. quotation \in QuotationRecord /\ header \in HeaderRecord
    BY <1>1, <1>2, WorksFields
  <2>2. match.item \in Ids(db.items)
    BY DEF Importing
  <2>3. match.item \in Nat
    BY <1>1, <2>2, WorksFields DEF Ids, ItemRecord
  <2> QED BY <1>2, <2>1, <2>2, <2>3 DEF Ids, QuotationRecord, HeaderRecord
<1>5. /\ line \in LineRecord /\ line.id = db.lastId + 1 /\ line.item = match.item
      /\ line.quotation = quotation.id /\ line.header = header.id
  BY <1>1, <1>4 DEF LineRecord
<1>6. LineImported(db, row, match) = new
  BY DEF LineImported, quotation, header
<1> HIDE DEF line
<1>7. Fit(new, last, released, free, OrderTables)
  BY <1>1, <1>3, <1>4, <1>5, LineFits DEF OrderTables
<1>8. NoRow \in SUBSET LineRecord
  BY DEF NoRow
<1>9. Has(new, db.items, db.aliases, db.quotations, db.headers, (db.lines \ NoRow) \cup {line},
          Given(db, NoRow), Noting(db, "lines", NoRow, line), db.deferred,
          db.seenQuotations, db.seenNumbers, db.stopped)
  BY <1>1, <1>5, <1>8, LinesRecorded
<1> HIDE DEF new
<1>10. /\ new.items = db.items /\ new.headers = db.headers /\ new.quotations = db.quotations
       /\ new.seenNumbers = db.seenNumbers /\ new.seenQuotations = db.seenQuotations
  BY <1>9 DEF Has
<1>11. Importing(new, items, last, released, free, numbers)
  BY <1>7, <1>10, ImportingSame
<1>12. QED
  BY <1>6, <1>11

\* One row of an order file.
LEMMA RowImportedKeeps ==
  ASSUME NEW db, NEW items, NEW last \in Nat, NEW released, NEW free, NEW numbers,
         Importing(db, items, last, released, free, numbers),
         NEW row \in OrderFileRow, row.number \in numbers, MaxUrl \in Nat,
         NEW match, match.item \in items, match.units \in Nat
  PROVE  Importing(RowImported(db, row, match), items, last, released, free, numbers)
<1> DEFINE quoted == QuotationImported(db, row)
           headed == HeaderImported(quoted, row)
<1>1. /\ Importing(quoted, items, last, released, free, numbers)
      /\ row.quotation \in quoted.seenQuotations
  BY QuotationImportedKeeps
<1> HIDE DEF quoted
<1>2. /\ Importing(headed, items, last, released, free, numbers)
      /\ headed.seenQuotations = quoted.seenQuotations
      /\ headed.stopped \/ row.number \in headed.seenNumbers
  BY <1>1, HeaderImportedKeeps
<1> HIDE DEF headed
<1>3. ASSUME ~headed.stopped
      PROVE  Importing(LineImported(headed, row, match), items, last, released, free, numbers)
  BY <1>1, <1>2, <1>3, LineImportedKeeps
<1>4. RowImported(db, row, match)
        = CASE db.stopped -> db
            [] ~db.stopped /\ headed.stopped -> headed
            [] ~db.stopped /\ ~headed.stopped -> LineImported(headed, row, match)
  BY DEF RowImported, headed, quoted
<1>5. db.stopped \in BOOLEAN /\ headed.stopped \in BOOLEAN
  BY <1>2, WorksFields DEF Importing, Fit
<1>6. QED
  BY <1>2, <1>3, <1>4, <1>5

\* All rows of an order file.
LEMMA RowsImportedKeeps ==
  ASSUME NEW t, NEW items, NEW last \in Nat, NEW released, NEW free, NEW numbers,
         Importing(t, items, last, released, free, numbers), MaxUrl \in Nat,
         NEW import, NEW file, file = import.file, file.rows \in Seq(OrderFileRow),
         NumbersOf(file) \subseteq numbers, NEW matches, matches = import.matches,
         \A n \in DOMAIN file.rows : file.rows[n].save # 0 => file.rows[n].override \in items,
         \A n \in DOMAIN file.rows : matches[n].item \in items /\ matches[n].units \in Nat
  PROVE  Importing(RowsImported(t, import), items, last, released, free, numbers)
<1> DEFINE X == { db \in Works : Importing(db, items, last, released, free, numbers) }
           saved == AliasesSaved(t, file)
<1>a. Importing(saved, items, last, released, free, numbers)
  BY AliasesSavedKeeps
<1>b. \A n \in 1 .. Len(file.rows) : matches[n].item \in items /\ matches[n].units \in Nat
  OBVIOUS
<1> HIDE DEF saved
<1> DEFINE N == Len(file.rows)
           start == saved
           step(db, n) == RowImported(db, file.rows[n], matches[n])
           G == [n \in 1 .. N |-> [db \in X |-> step(db, n)]]
           Is(f) == f = [n \in 0 .. N |-> IF n = 0 THEN start ELSE step(f[n - 1], n)]
<1>1. N \in Nat /\ start \in X
  BY <1>a DEF Fit, Importing
<1>2. ASSUME NEW n \in 1 .. N, NEW db \in X PROVE step(db, n) \in X
  <2>1. /\ file.rows[n] \in OrderFileRow /\ n \in DOMAIN file.rows
        /\ matches[n].item \in items /\ matches[n].units \in Nat
    BY <1>b
  <2>2. file.rows[n].number \in numbers
    BY <2>1 DEF NumbersOf
  <2>3. Importing(db, items, last, released, free, numbers)
    OBVIOUS
  <2>4. Importing(RowImported(db, file.rows[n], matches[n]), items, last, released, free, numbers)
    BY <2>1, <2>2, <2>3, RowImportedKeeps
  <2> QED BY <2>4 DEF Importing, Fit
<1>3. RowsImported(t, import) = (CHOOSE f : Is(f))[N]
  BY Zenon DEF RowsImported, saved
<1> HIDE DEF X, N, start, step
<1>4. StepsBack(N, X, G)
  BY <1>2 DEF StepsBack
<1>5. \A n \in 1 .. N : \A db \in X : G[n][db] = step(db, n)
  OBVIOUS
<1> HIDE DEF G
<1>6. PICK f : StatesOn(N, X, start, G, f)
  BY <1>1, <1>4, StatesForward
<1>7. /\ f \in [0 .. N -> X] /\ f[0] = start
      /\ \A n \in 1 .. N : f[n] = G[n][f[n - 1]]
  BY <1>6 DEF StatesOn
<1>8. ASSUME NEW n \in 0 .. N PROVE f[n] = IF n = 0 THEN start ELSE step(f[n - 1], n)
  <2>1. CASE n = 0
    BY <1>7, <2>1
  <2>2. CASE n # 0
    <3>1. n \in 1 .. N /\ n - 1 \in 0 .. N
      BY <1>1, <2>2
    <3> QED BY <1>5, <1>7, <2>2, <3>1
  <2> QED BY <2>1, <2>2
<1>9. Is(f)
  BY <1>7, <1>8
<1>10. \E g : Is(g)
  BY <1>9
<1> DEFINE g == CHOOSE h : Is(h)
<1>11. Is(g)
  BY <1>10
<1> HIDE DEF g
<1>12. g[0] = start /\ \A n \in 1 .. N : g[n] = step(g[n - 1], n)
  <2>1. \A n \in 0 .. N : g[n] = IF n = 0 THEN start ELSE step(g[n - 1], n)
    BY <1>11
  <2>2. 0 \in 0 .. N /\ \A n \in 1 .. N : n \in 0 .. N /\ n # 0
    BY <1>1
  <2> QED BY <2>1, <2>2
<1>13. g[0] \in X /\ \A n \in 1 .. N : g[n - 1] \in X => g[n] \in X
  BY <1>1, <1>2, <1>12
<1>14. g[N] \in X
  BY <1>1, <1>13, LoopStays
<1>15. RowsImported(t, import) \in X
  BY <1>3, <1>14 DEF g
<1> QED
  BY <1>15 DEF X

\* The tables between two requests.
TableRecord ==
  [items : SUBSET ItemRecord, aliases : SUBSET AliasRecord, quotations : SUBSET QuotationRecord,
   headers : SUBSET HeaderRecord, lines : SUBSET LineRecord, lastId : Nat]

\* Two states of the tables differ in locks at most.
LikeBefore(t, was) == \A table \in TableName : \A id : SameButForLocks(t, was, table, id)

\* A request starts with the tables and nothing else.
LEMMA EmptiedParts ==
  ASSUME NEW t, Sound(t)
  PROVE  /\ Emptied(t) \in Works
         /\ Emptied(t).items = t.items /\ Emptied(t).aliases = t.aliases
         /\ Emptied(t).quotations = t.quotations /\ Emptied(t).headers = t.headers
         /\ Emptied(t).lines = t.lines /\ Emptied(t).lastId = t.lastId
         /\ Emptied(t).effects = <<>> /\ Emptied(t).stopped = FALSE
         /\ Emptied(t).seenQuotations = {} /\ Emptied(t).seenNumbers = {}
<1>1. /\ t.items \in SUBSET ItemRecord /\ t.aliases \in SUBSET AliasRecord
      /\ t.quotations \in SUBSET QuotationRecord /\ t.headers \in SUBSET HeaderRecord
      /\ t.lines \in SUBSET LineRecord /\ t.lastId \in Nat
  BY DEF Sound, ItemsSound, AliasesSound, QuotationsSound, HeadersSound, LinesSound
<1>2. <<>> \in Seq(Effect) /\ <<>> \in Seq(AliasFileRow)
  OBVIOUS
<1>3. {} \in SUBSET QuotationNumber /\ {} \in SUBSET Number /\ FALSE \in BOOLEAN
  OBVIOUS
<1>4. Emptied(t) = WorkOf(t.items, t.aliases, t.quotations, t.headers, t.lines, t.lastId,
                          <<>>, <<>>, {}, {}, FALSE)
  BY DEF Emptied, WorkOf
<1>5. Has(Emptied(t), t.items, t.aliases, t.quotations, t.headers, t.lines, t.lastId,
          <<>>, <<>>, {}, {}, FALSE)
  BY <1>1, <1>2, <1>3, <1>4, WorkHas
<1> DEFINE db == Emptied(t)
<1> HIDE DEF db
<1>6. /\ db \in Works /\ db.items = t.items /\ db.aliases = t.aliases
      /\ db.quotations = t.quotations /\ db.headers = t.headers
      /\ db.lines = t.lines /\ db.lastId = t.lastId
      /\ db.effects = <<>> /\ db.stopped = FALSE
      /\ db.seenQuotations = {} /\ db.seenNumbers = {}
  BY <1>5 DEF Has, db
<1>7. QED
  BY <1>6 DEF db

\* What a request starts with is fit, if at most it unlocked headers.
LEMMA EmptiedFits ==
  ASSUME NEW t, Sound(t), NEW released, NEW free, Guarded(t.headers, released), NEW may,
         LikeBefore(t, tables), SameNumbers(t.headers, tables.headers, t.lastId, {})
  PROVE  Fit(Emptied(t), t.lastId, released, free, may)
<1> DEFINE db == Emptied(t)
<1>1. /\ db \in Works /\ db.items = t.items /\ db.aliases = t.aliases
      /\ db.quotations = t.quotations /\ db.headers = t.headers
      /\ db.lines = t.lines /\ db.lastId = t.lastId /\ db.effects = <<>> /\ t.lastId \in Nat
  BY EmptiedParts DEF Sound
<1> HIDE DEF db
<1>2. DOMAIN db.effects = {}
  BY <1>1
<1>3. EffectsSound(db.effects, db.lastId) /\ LinesFresh(db.effects, t.lastId, free)
  BY <1>2 DEF EffectsSound, LinesFresh
<1>4. Sound(db) /\ t.lastId <= db.lastId /\ Guarded(db.headers, released)
  BY <1>1 DEF Sound
<1>5. Tells(db, tables, may)
  <2>1. \A table \in TableName : db[table] = t[table]
    BY <1>1 DEF TableName
  <2>2. \A table \in TableName : \A id : SameButForLocks(db, tables, table, id)
    BY <2>1 DEF LikeBefore, SameButForLocks, RowsOf
  <2> QED BY <1>1, <2>2, NothingTells
<1>6. SameNumbers(db.headers, tables.headers, t.lastId, {})
  BY <1>1
<1>7. Fit(db, t.lastId, released, free, may)
  BY <1>1, <1>3, <1>4, <1>5, <1>6 DEF Fit
<1>8. QED
  BY <1>7 DEF db

Opened(t, new, more) ==
  /\ new \in TableRecord /\ Sound(new) /\ Guarded(new.headers, more)
  /\ new.items = t.items /\ new.aliases = t.aliases /\ new.lastId = t.lastId
  /\ LikeBefore(new, t)
  /\ \A last : SameNumbers(new.headers, t.headers, last, {})

\* The headers that an import unlocks are released.
LEMMA UnlockedSound ==
  ASSUME NEW t \in TableRecord, Sound(t), NEW released, Guarded(t.headers, released),
         NEW rows, NEW more, released \subseteq more, \A r \in rows : r.id \in more,
         NEW new, new = Unlocked(t, rows)
  PROVE  Opened(t, new, more)
<1> DEFINE unlocked(row) == IF row \in rows THEN [row EXCEPT !.locked = FALSE] ELSE row
           headers == { unlocked(row) : row \in t.headers }
<1>1. new = [t EXCEPT !.headers = headers]
  BY DEF Unlocked
<1>2. ASSUME NEW row \in t.headers
      PROVE  /\ unlocked(row) \in HeaderRecord
             /\ unlocked(row).id = row.id /\ unlocked(row).number = row.number
             /\ unlocked(row).url = row.url
             /\ row \notin rows => unlocked(row) = row
  BY DEF Sound, HeadersSound, HeaderRecord
<1> HIDE DEF unlocked
<1>3. headers \in SUBSET HeaderRecord
  BY <1>2
<1>4. HeadersSound(headers, t.lastId)
  BY <1>2, <1>3 DEF Sound, HeadersSound
<1>5. Ids(t.headers) \subseteq Ids(headers)
  <2> SUFFICES ASSUME NEW row \in t.headers PROVE row.id \in Ids(headers)
    BY DEF Ids
  <2>1. unlocked(row) \in headers
    OBVIOUS
  <2> HIDE DEF headers
  <2> QED BY <1>2, <2>1 DEF Ids
<1>6. Guarded(headers, more)
  <2> SUFFICES ASSUME NEW row \in t.headers
               PROVE  unlocked(row).locked \/ unlocked(row).id \in more
    BY DEF Guarded
  <2>1. CASE row \in rows
    BY <1>2, <2>1
  <2>2. CASE row \notin rows
    BY <1>2, <2>2 DEF Guarded
  <2> QED BY <2>1, <2>2
<1>a. \A last : SameNumbers(headers, t.headers, last, {})
  BY <1>2 DEF SameNumbers
<1> HIDE DEF headers
<1>7. /\ new.items = t.items /\ new.aliases = t.aliases /\ new.quotations = t.quotations
      /\ new.headers = headers /\ new.lines = t.lines /\ new.lastId = t.lastId
      /\ new \in TableRecord
  BY <1>1, <1>3 DEF TableRecord
<1>8. LinesSound(t.items, t.quotations, headers, t.lines, t.lastId)
  BY <1>5, SameIds DEF Sound
<1>9. Sound(new)
  BY <1>4, <1>7, <1>8 DEF Sound
<1>10. LikeBefore(new, t)
  <2> SUFFICES ASSUME NEW table \in TableName, NEW id PROVE SameButForLocks(new, t, table, id)
    BY DEF LikeBefore
  <2>1. CASE table # "headers"
    <3>1. new[table] = t[table]
      BY <1>7, <2>1 DEF TableName
    <3> QED BY <3>1 DEF SameButForLocks, RowsOf
  <2>2. CASE table = "headers"
    <3> DEFINE open(row) == [row EXCEPT !.locked = FALSE]
    <3>1. RowsOf(new, table, id) = { unlocked(row) : row \in RowsOf(t, table, id) }
      <4>1. new[table] = headers /\ t[table] = t.headers
        BY <1>7, <2>2
      <4>2. headers = { unlocked(row) : row \in t.headers }
        BY DEF headers
      <4> QED BY <1>2, <4>1, <4>2 DEF RowsOf, WithId
    <3>2. \A row \in t.headers : open(unlocked(row)) = open(row)
      BY DEF unlocked, Sound, HeadersSound, HeaderRecord
    <3> HIDE DEF open
    <3>3. RowsOf(t, table, id) \subseteq t.headers
      BY <2>2 DEF RowsOf, WithId
    <3>4. /\ ButForLocks(RowsOf(new, table, id), table)
               = { open(row) : row \in RowsOf(new, table, id) }
          /\ ButForLocks(RowsOf(t, table, id), table)
               = { open(row) : row \in RowsOf(t, table, id) }
      BY <2>2 DEF ButForLocks, open
    <3>5. { open(row) : row \in RowsOf(new, table, id) }
            = { open(row) : row \in RowsOf(t, table, id) }
      BY <3>1, <3>2, <3>3
    <3> QED BY <3>4, <3>5 DEF SameButForLocks
  <2> QED BY <2>1, <2>2
<1>11. QED
  BY <1>a, <1>6, <1>7, <1>9, <1>10 DEF Opened

\* A row that an order file means resolves to an item that is there.
LEMMA ResolvedMatches ==
  ASSUME NEW t, Sound(t), NEW name, NEW match \in ResolveOrderItem(t, name)
  PROVE  match.item \in Ids(t.items) /\ match.units \in Nat
<1>1. CASE Named(t.items, name) # NoRow
  <2>1. PICK row \in Named(t.items, name) : match = [item |-> row.id, units |-> 1]
    BY <1>1 DEF ResolveOrderItem
  <2> QED BY <2>1 DEF Named, Ids
<1>2. CASE Named(t.items, name) = NoRow
  <2>1. PICK row \in Named(t.aliases, name) : match = [item |-> row.item, units |-> row.units]
    BY <1>2 DEF ResolveOrderItem
  <2>2. row \in t.aliases
    BY <2>1 DEF Named
  <2> QED BY <2>1, <2>2 DEF Sound, AliasesSound, AliasRecord
<1>3. QED
  BY <1>1, <1>2

\* Whatever a row is resolved to is an item that is there.
LEMMA OverriddenMatches ==
  ASSUME NEW t, Sound(t), NEW row \in OrderFileRow,
         row.override # 0 => WithId(t.items, row.override) # NoRow, Overridden(t, row) # {},
         NEW match, match = TheRow(Overridden(t, row))
  PROVE  match.item \in Ids(t.items) /\ match.units \in Nat
<1> DEFINE resolved == ResolveOrderItem(t, row.name)
<1>1. \A r \in resolved : r.item \in Ids(t.items) /\ r.units \in Nat
  BY ResolvedMatches
<1> HIDE DEF resolved
<1>2. CASE row.override = 0
  <2>1. Overridden(t, row) = resolved
    BY <1>2 DEF Overridden, resolved
  <2>2. match \in resolved
    BY <2>1 DEF TheRow
  <2> QED BY <1>1, <2>2
<1>3. CASE row.override # 0
  <2> DEFINE units == IF row.units # 0 THEN row.units
                      ELSE IF \E r \in resolved : r.item = row.override
                           THEN TheRow(resolved).units ELSE 1
  <2>1. Overridden(t, row) = { [item |-> row.override, units |-> units] }
    BY <1>3 DEF Overridden, resolved
  <2>2. units \in Nat
    <3>1. ASSUME NEW r \in resolved PROVE TheRow(resolved).units \in Nat
      <4>1. TheRow(resolved) \in resolved
        BY <3>1 DEF TheRow
      <4> QED BY <1>1, <4>1
    <3> QED BY <3>1, OrderFileRowFields
  <2> HIDE DEF units
  <2>3. match = [item |-> row.override, units |-> units]
    BY <2>1 DEF TheRow
  <2>4. row.override \in Ids(t.items)
    BY <1>3 DEF WithId, Ids, NoRow
  <2> QED BY <2>2, <2>3, <2>4
<1>4. QED
  BY <1>2, <1>3

\* What a row is resolved to depends on items and aliases alone.
LEMMA SameOverridden ==
  ASSUME NEW t, NEW u, u.items = t.items, u.aliases = t.aliases, NEW row
  PROVE  Overridden(u, row) = Overridden(t, row)
<1>1. ResolveOrderItem(u, row.name) = ResolveOrderItem(t, row.name)
  BY DEF ResolveOrderItem
<1>2. QED
  BY <1>1 DEF Overridden

\* An order file puts its lines on headers that are new, or free for it.
LEMMA OrdersImportedFits ==
  ASSUME NEW t \in TableRecord, t = tables, Sound(t), NEW released, NEW free,
         Guarded(t.headers, released), MaxUrl \in Nat,
         NEW import, NEW file, file = import.file, file.rows \in Seq(OrderFileRow),
         NEW matches, matches = import.matches, NEW items, items = Ids(t.items),
         \A n \in DOMAIN file.rows : file.rows[n].save # 0 => file.rows[n].override \in items,
         \A n \in DOMAIN file.rows : matches[n].item \in items /\ matches[n].units \in Nat,
         NEW more, released \subseteq more, \A r \in import.opens : r.id \in more,
         \A h \in t.headers : h.number \in NumbersOf(file) => h.id \in free
  PROVE  Fit(OrdersImported(t, import), t.lastId, more, free, OrderTables)
<1> DEFINE open  == Unlocked(t, import.opens)
           start == Emptied(open)
<1>1. t.lastId \in Nat
  BY DEF TableRecord
<1>2. /\ open \in TableRecord /\ Sound(open) /\ Guarded(open.headers, more)
      /\ LikeBefore(open, tables) /\ SameNumbers(open.headers, tables.headers, t.lastId, {})
      /\ open.items = t.items /\ open.lastId = t.lastId
  <2>1. open = Unlocked(t, import.opens)
    OBVIOUS
  <2> HIDE DEF open
  <2>2. Opened(t, open, more)
    BY <2>1, UnlockedSound
  <2> QED BY <2>2 DEF Opened
<1> HIDE DEF open
<1>3. /\ Fit(start, t.lastId, more, free, OrderTables)
      /\ start.items = t.items /\ start.headers = open.headers
      /\ start.seenQuotations = {} /\ start.seenNumbers = {}
  BY <1>2, EmptiedFits, EmptiedParts
<1> HIDE DEF start
<1>4. ASSUME NEW r \in start.headers, r.number \in NumbersOf(file)
      PROVE  r.id > t.lastId \/ r.id \in free
  BY <1>2, <1>3, <1>4 DEF SameNumbers
<1>5. Importing(start, items, t.lastId, more, free, NumbersOf(file))
  BY <1>3, <1>4 DEF Importing
<1>6. Importing(RowsImported(start, import), items, t.lastId, more, free, NumbersOf(file))
  BY <1>1, <1>5, RowsImportedKeeps
<1>7. OrdersImported(t, import) = RowsImported(start, import)
  BY DEF OrdersImported, start, open
<1> QED
  BY <1>6, <1>7 DEF Importing

-----------------------------------------------------------------------------
(* Undoing a job.                                                          *)

\* An undo gives no ids, and no header another number.
Reverting(db, last, released) ==
  /\ db \in Works /\ Sound(db) /\ Guarded(db.headers, released) /\ db.lastId = last
  /\ SameNumbers(db.headers, tables.headers, last, {})

\* One table is left sound, and with it what refers to it.
LEMMA StillReverting ==
  ASSUME NEW db, NEW last \in Nat, NEW released, Reverting(db, last, released),
         NEW new \in Works, new.lastId = db.lastId,
         ItemsSound(new.items, last), AliasesSound(new.items, new.aliases, last),
         QuotationsSound(new.quotations, last), HeadersSound(new.headers, last),
         LinesSound(new.items, new.quotations, new.headers, new.lines, last),
         Guarded(new.headers, released), SameNumbers(new.headers, tables.headers, last, {})
  PROVE  Reverting(new, last, released)
BY DEF Reverting, Sound

\* The parts of a sound undo.
LEMMA RevertingParts ==
  ASSUME NEW db, NEW last \in Nat, NEW released, Reverting(db, last, released)
  PROVE  /\ db \in Works /\ db.lastId = last
         /\ ItemsSound(db.items, last) /\ AliasesSound(db.items, db.aliases, last)
         /\ QuotationsSound(db.quotations, last) /\ HeadersSound(db.headers, last)
         /\ LinesSound(db.items, db.quotations, db.headers, db.lines, last)
         /\ Guarded(db.headers, released)
         /\ SameNumbers(db.headers, tables.headers, last, {})
         /\ db.items \in SUBSET ItemRecord /\ db.aliases \in SUBSET AliasRecord
         /\ db.quotations \in SUBSET QuotationRecord /\ db.headers \in SUBSET HeaderRecord
         /\ db.lines \in SUBSET LineRecord
BY WorksFields DEF Reverting, Sound

\* An undo that stops leaves its work sound.
LEMMA StopReverting ==
  ASSUME NEW db, NEW last \in Nat, NEW released, Reverting(db, last, released)
  PROVE  Reverting(Stopped(db), last, released)
<1>1. Has([db EXCEPT !.stopped = TRUE], db.items, db.aliases, db.quotations, db.headers,
          db.lines, db.lastId, db.effects, db.deferred, db.seenQuotations, db.seenNumbers, TRUE)
  BY RevertingParts, StoppedSet
<1>2. QED
  BY <1>1 DEF Has, Stopped, Reverting, Sound

\* A line that was imported goes.
LEMMA LineRevertedKeeps ==
  ASSUME NEW db, NEW last \in Nat, NEW released, Reverting(db, last, released),
         NEW e, EffectSound(e, last), e.table = "lines"
  PROVE  Reverting(LineReverted(db, e), last, released)
<1> DEFINE left == db.lines \ {e.after}
           new  == [db EXCEPT !.lines = left]
<1>1. left \in SUBSET db.lines /\ left \in SUBSET LineRecord /\ db \in Works
  BY RevertingParts
<1>2. LineReverted(db, e) = Stopped(db) \/ LineReverted(db, e) = new
  BY DEF LineReverted
<1> HIDE DEF left
<1>3. Has(new, db.items, db.aliases, db.quotations, db.headers, left, db.lastId, db.effects,
          db.deferred, db.seenQuotations, db.seenNumbers, db.stopped)
  BY <1>1, LinesSet
<1> HIDE DEF new
<1>4. /\ new \in Works /\ new.items = db.items /\ new.aliases = db.aliases
      /\ new.quotations = db.quotations /\ new.headers = db.headers /\ new.lines = left
      /\ new.lastId = db.lastId /\ new.effects = db.effects
  BY <1>3 DEF Has
<1>5. LinesSound(db.items, db.quotations, db.headers, left, last)
  BY <1>1, RevertingParts DEF LinesSound
<1>6. Reverting(new, last, released)
  BY <1>4, <1>5, RevertingParts, StillReverting
<1>7. QED
  BY <1>2, <1>6, StopReverting

\* An item goes when nothing refers to it.
LEMMA ItemRevertedKeeps ==
  ASSUME NEW db, NEW last \in Nat, NEW released, Reverting(db, last, released),
         NEW e, EffectSound(e, last), e.table = "items"
  PROVE  Reverting(ItemReverted(db, e), last, released)
<1> DEFINE left == db.items \ {e.after}
           new  == [db EXCEPT !.items = left]
<1>1. left \in SUBSET db.items /\ left \in SUBSET ItemRecord /\ db \in Works
  BY RevertingParts
<1>2. \/ ItemReverted(db, e) = Stopped(db)
      \/ ItemReverted(db, e) = new /\ e.after \in db.items /\ ~Referenced(db, e.after.id)
  BY DEF ItemReverted
<1>3. ASSUME e.after \in db.items, ~Referenced(db, e.after.id)
      PROVE  Reverting(new, last, released)
  <2>1. /\ \A row \in db.aliases : row.item \in Ids(left)
        /\ \A row \in db.lines : row.item \in Ids(left)
    <3>1. ASSUME NEW id \in Ids(db.items), id # e.after.id PROVE id \in Ids(left)
      BY <3>1 DEF Ids
    <3> HIDE DEF left
    <3>2. \A row \in db.aliases : row.item \in Ids(db.items)
      BY RevertingParts DEF AliasesSound
    <3>3. \A row \in db.lines : row.item \in Ids(db.items)
      BY RevertingParts DEF LinesSound
    <3> QED BY <1>3, <3>1, <3>2, <3>3 DEF Referenced
  <2> HIDE DEF left
  <2>2. Has(new, left, db.aliases, db.quotations, db.headers, db.lines, db.lastId, db.effects,
            db.deferred, db.seenQuotations, db.seenNumbers, db.stopped)
    BY <1>1, ItemsSet
  <2> HIDE DEF new
  <2>3. /\ new \in Works /\ new.items = left /\ new.aliases = db.aliases
        /\ new.quotations = db.quotations /\ new.headers = db.headers /\ new.lines = db.lines
        /\ new.lastId = db.lastId /\ new.effects = db.effects
    BY <2>2 DEF Has
  <2>4. ItemsSound(left, last)
    BY <1>1, RevertingParts DEF ItemsSound
  <2>5. AliasesSound(left, db.aliases, last)
    BY <2>1, RevertingParts DEF AliasesSound
  <2>6. LinesSound(left, db.quotations, db.headers, db.lines, last)
    BY <2>1, RevertingParts DEF LinesSound
  <2> QED BY <2>3, <2>4, <2>5, <2>6, RevertingParts, StillReverting
<1>4. QED
  BY <1>2, <1>3, StopReverting

\* An alias goes, or is again of the item it was of, if that may have it.
LEMMA AliasRevertedKeeps ==
  ASSUME NEW db, NEW last \in Nat, NEW released, Reverting(db, last, released),
         NEW e, EffectSound(e, last), e.table = "aliases"
  PROVE  Reverting(AliasReverted(db, e), last, released)
<1> DEFINE left == (db.aliases \ {e.after}) \cup e.before
           new  == [db EXCEPT !.aliases = left]
<1>1. /\ e.after \in AliasRecord /\ e.before \subseteq AliasRecord /\ e.after.id \in 1 .. last
      /\ \A b \in e.before : b.id = e.after.id /\ b.name = e.after.name
      /\ \A b, c \in e.before : b = c
  BY DEF EffectSound
<1>2. db \in Works /\ left \in SUBSET AliasRecord /\ AliasesSound(db.items, db.aliases, last)
  BY <1>1, RevertingParts
<1>3. \/ AliasReverted(db, e) = Stopped(db)
      \/ /\ AliasReverted(db, e) = new /\ e.after \in db.aliases
         /\ \A row \in e.before : MayAlias(db, row.name, row.item)
  BY DEF AliasReverted
<1>4. ASSUME e.after \in db.aliases, \A row \in e.before : MayAlias(db, row.name, row.item)
      PROVE  Reverting(new, last, released)
  <2>1. AliasesSound(db.items, left, last)
    <3>1. \A row \in e.before : row.item \in Ids(db.items)
      BY <1>4 DEF MayAlias, WithId, Ids, NoRow
    <3>2. CASE e.before = {}
      <4>1. left \in SUBSET db.aliases
        BY <3>2
      <4> HIDE DEF left
      <4> QED BY <1>2, <4>1 DEF AliasesSound
    <3>3. CASE e.before # {}
      <4>1. PICK b \in e.before : e.before = {b}
        BY <1>1, <3>3
      <4>2. AliasesSound(db.items, (db.aliases \ {e.after}) \cup {b}, last)
        BY <1>1, <1>2, <1>4, <3>1, AliasChanged
      <4> QED BY <4>1, <4>2
    <3> QED BY <3>2, <3>3
  <2> HIDE DEF left
  <2>2. Has(new, db.items, left, db.quotations, db.headers, db.lines, db.lastId, db.effects,
            db.deferred, db.seenQuotations, db.seenNumbers, db.stopped)
    BY <1>2, AliasesSet
  <2> HIDE DEF new
  <2>3. /\ new \in Works /\ new.items = db.items /\ new.aliases = left
        /\ new.quotations = db.quotations /\ new.headers = db.headers /\ new.lines = db.lines
        /\ new.lastId = db.lastId /\ new.effects = db.effects
    BY <2>2 DEF Has
  <2> QED BY <2>1, <2>3, RevertingParts, StillReverting
<1>5. QED
  BY <1>3, <1>4, StopReverting

\* A quotation without lines goes, or is as it was.
LEMMA QuotationRevertedKeeps ==
  ASSUME NEW db, NEW last \in Nat, NEW released, Reverting(db, last, released),
         NEW e, EffectSound(e, last), e.table = "quotations"
  PROVE  Reverting(HeadReverted(db, e, "quotation"), last, released)
<1> DEFINE left == (db.quotations \ {e.after}) \cup e.before
           new  == [db EXCEPT !.quotations = left]
<1>1. /\ e.after \in QuotationRecord /\ e.before \subseteq QuotationRecord
      /\ e.after.id \in 1 .. last
      /\ \A b \in e.before : b.id = e.after.id /\ b.number = e.after.number
      /\ \A b, c \in e.before : b = c
  BY DEF EffectSound
<1>2. db \in Works /\ left \in SUBSET QuotationRecord /\ QuotationsSound(db.quotations, last)
  BY <1>1, RevertingParts
<1>3. \/ HeadReverted(db, e, "quotation") = Stopped(db)
      \/ /\ HeadReverted(db, e, "quotation") = new /\ e.after \in db.quotations
         /\ \A line \in db.lines : line.quotation # e.after.id
  BY DEF HeadReverted, LinesOf
<1>4. ASSUME e.after \in db.quotations, \A line \in db.lines : line.quotation # e.after.id
      PROVE  Reverting(new, last, released)
  <2>1. QuotationsSound(left, last)
    <3>2. CASE e.before = {}
      <4>1. left \in SUBSET db.quotations
        BY <3>2
      <4> HIDE DEF left
      <4> QED BY <1>2, <4>1 DEF QuotationsSound
    <3>3. CASE e.before # {}
      <4>1. PICK b \in e.before : e.before = {b}
        BY <1>1, <3>3
      <4>2. QuotationsSound((db.quotations \ {e.after}) \cup {b}, last)
        BY <1>1, <1>2, <1>4, QuotationChanged
      <4> QED BY <4>1, <4>2
    <3> QED BY <3>2, <3>3
  <2>2. \A line \in db.lines : line.quotation \in Ids(left)
    <3>1. ASSUME NEW id \in Ids(db.quotations), id # e.after.id PROVE id \in Ids(left)
      BY <3>1 DEF Ids
    <3> HIDE DEF left
    <3>2. \A line \in db.lines : line.quotation \in Ids(db.quotations)
      BY RevertingParts DEF LinesSound
    <3> QED BY <1>4, <3>1, <3>2
  <2> HIDE DEF left
  <2>3. Has(new, db.items, db.aliases, left, db.headers, db.lines, db.lastId, db.effects,
            db.deferred, db.seenQuotations, db.seenNumbers, db.stopped)
    BY <1>2, QuotationsSet
  <2> HIDE DEF new
  <2>4. /\ new \in Works /\ new.items = db.items /\ new.aliases = db.aliases
        /\ new.quotations = left /\ new.headers = db.headers /\ new.lines = db.lines
        /\ new.lastId = db.lastId /\ new.effects = db.effects
    BY <2>3 DEF Has
  <2>5. LinesSound(db.items, left, db.headers, db.lines, last)
    BY <2>2, RevertingParts DEF LinesSound
  <2> QED BY <2>1, <2>4, <2>5, RevertingParts, StillReverting
<1>5. QED
  BY <1>3, <1>4, StopReverting

\* A header without lines goes, or has no url again, as before the import.
LEMMA HeaderRevertedKeeps ==
  ASSUME NEW db, NEW last \in Nat, NEW released, Reverting(db, last, released),
         NEW e, EffectSound(e, last), e.table = "headers"
  PROVE  Reverting(HeadReverted(db, e, "header"), last, released)
<1> DEFINE left == (db.headers \ {e.after}) \cup e.before
           new  == [db EXCEPT !.headers = left]
<1>1. /\ e.after \in HeaderRecord /\ e.before \subseteq HeaderRecord
      /\ e.after.id \in 1 .. last
      /\ \A b \in e.before : /\ b.id = e.after.id /\ b.number = e.after.number
                             /\ b.url = 0 /\ b.locked = e.after.locked
      /\ \A b, c \in e.before : b = c
  BY DEF EffectSound
<1>2. /\ db \in Works /\ left \in SUBSET HeaderRecord /\ HeadersSound(db.headers, last)
      /\ Guarded(db.headers, released)
  BY <1>1, RevertingParts
<1>3. \/ HeadReverted(db, e, "header") = Stopped(db)
      \/ /\ HeadReverted(db, e, "header") = new /\ e.after \in db.headers
         /\ \A line \in db.lines : line.header # e.after.id
  BY DEF HeadReverted, LinesOf
<1>4. ASSUME e.after \in db.headers, \A line \in db.lines : line.header # e.after.id
      PROVE  Reverting(new, last, released)
  <2>1. HeadersSound(left, last)
    <3>2. CASE e.before = {}
      <4>1. left \in SUBSET db.headers
        BY <3>2
      <4> HIDE DEF left
      <4> QED BY <1>2, <4>1 DEF HeadersSound
    <3>3. CASE e.before # {}
      <4>1. PICK b \in e.before : e.before = {b}
        BY <1>1, <3>3
      <4>2. \A r \in db.headers : r # e.after => r.number # b.number
        BY <1>1, <1>2, <1>4, <4>1 DEF HeadersSound
      <4>3. HeadersSound((db.headers \ {e.after}) \cup {b}, last)
        BY <1>1, <1>2, <1>4, <4>2, HeaderChanged
      <4> QED BY <4>1, <4>3
    <3> QED BY <3>2, <3>3
  <2>2. \A line \in db.lines : line.header \in Ids(left)
    <3>1. ASSUME NEW id \in Ids(db.headers), id # e.after.id PROVE id \in Ids(left)
      BY <3>1 DEF Ids
    <3> HIDE DEF left
    <3>2. \A line \in db.lines : line.header \in Ids(db.headers)
      BY RevertingParts DEF LinesSound
    <3> QED BY <1>4, <3>1, <3>2
  <2>3. Guarded(left, released)
    BY <1>1, <1>2, <1>4 DEF Guarded
  <2>a. SameNumbers(left, tables.headers, last, {})
    <3>1. SameNumbers(db.headers, tables.headers, last, {})
      BY RevertingParts
    <3> QED BY <1>1, <1>4, <3>1 DEF SameNumbers
  <2> HIDE DEF left
  <2>4. Has(new, db.items, db.aliases, db.quotations, left, db.lines, db.lastId, db.effects,
            db.deferred, db.seenQuotations, db.seenNumbers, db.stopped)
    BY <1>2, HeadersSet
  <2> HIDE DEF new
  <2>5. /\ new \in Works /\ new.items = db.items /\ new.aliases = db.aliases
        /\ new.quotations = db.quotations /\ new.headers = left /\ new.lines = db.lines
        /\ new.lastId = db.lastId /\ new.effects = db.effects
    BY <2>4 DEF Has
  <2>6. LinesSound(db.items, db.quotations, left, db.lines, last)
    BY <2>2, RevertingParts DEF LinesSound
  <2> QED BY <2>1, <2>3, <2>a, <2>5, <2>6, RevertingParts, StillReverting
<1>5. QED
  BY <1>3, <1>4, StopReverting

\* Undoing any effect of a job.
LEMMA RevertedKeeps ==
  ASSUME NEW db, NEW last \in Nat, NEW released, Reverting(db, last, released),
         NEW e, EffectSound(e, last)
  PROVE  Reverting(Reverted(db, e), last, released)
<1>1. e.table \in TableName
  BY DEF EffectSound, Effect
<1>2. CASE e.table = "lines"
  BY <1>2, LineRevertedKeeps DEF Reverted
<1>3. CASE e.table = "quotations"
  BY <1>3, QuotationRevertedKeeps DEF Reverted
<1>4. CASE e.table = "headers"
  BY <1>4, HeaderRevertedKeeps DEF Reverted
<1>5. CASE e.table = "aliases"
  BY <1>5, AliasRevertedKeeps DEF Reverted
<1>6. CASE e.table = "items"
  BY <1>6, ItemRevertedKeeps DEF Reverted
<1>7. QED
  BY <1>1, <1>2, <1>3, <1>4, <1>5, <1>6 DEF TableName

\* An effect is taken back in its table, or the undo stops.
PutBack(db, new, e) ==
  \/ new.stopped
  \/ /\ e.after \in db[e.table]
     /\ new[e.table] = (db[e.table] \ {e.after}) \cup e.before
     /\ \A table \in TableName : table # e.table => new[table] = db[table]

\* The tables by name.
LEMMA TablesByName ==
  ASSUME NEW db
  PROVE  /\ db["items"] = db.items /\ db["aliases"] = db.aliases
         /\ db["quotations"] = db.quotations /\ db["headers"] = db.headers
         /\ db["lines"] = db.lines
OBVIOUS

\* Lines and items that were imported are taken away,
LEMMA NewRowsPutBack ==
  ASSUME NEW db, NEW last \in Nat, NEW released, Reverting(db, last, released),
         NEW e, EffectSound(e, last), NEW new
  PROVE  /\ e.table = "lines" /\ new = LineReverted(db, e) => PutBack(db, new, e)
         /\ e.table = "items" /\ new = ItemReverted(db, e) => PutBack(db, new, e)
<1>1. db \in Works /\ (db.lines \ {e.after}) \in SUBSET LineRecord
      /\ (db.items \ {e.after}) \in SUBSET ItemRecord
  BY RevertingParts
<1>2. Stopped(db).stopped
  BY <1>1, StoppedSet DEF Has, Stopped
<1>3. ASSUME e.table = "lines", new = LineReverted(db, e) PROVE PutBack(db, new, e)
  <2> DEFINE left == db.lines \ {e.after}
  <2>1. \/ new = Stopped(db)
        \/ new = [db EXCEPT !.lines = left] /\ e.after \in db.lines
    BY <1>3 DEF LineReverted
  <2>2. left \in SUBSET LineRecord
    BY <1>1
  <2> HIDE DEF left
  <2>3. Has([db EXCEPT !.lines = left], db.items, db.aliases, db.quotations, db.headers, left,
            db.lastId, db.effects, db.deferred, db.seenQuotations, db.seenNumbers, db.stopped)
    BY <1>1, <2>2, LinesSet
  <2>4. CASE new = [db EXCEPT !.lines = left] /\ e.after \in db.lines
    <3>1. /\ new.items = db.items /\ new.aliases = db.aliases
          /\ new.quotations = db.quotations /\ new.headers = db.headers /\ new.lines = left
      BY <2>3, <2>4 DEF Has
    <3>2. e.before = {}
      BY <1>3 DEF EffectSound
    <3>3. new["lines"] = (db["lines"] \ {e.after}) \cup e.before
      BY <3>1, <3>2, TablesByName DEF left
    <3> QED BY <1>3, <2>4, <3>1, <3>3, TablesByName DEF PutBack, TableName
  <2> QED BY <1>2, <2>1, <2>4 DEF PutBack
<1>4. ASSUME e.table = "items", new = ItemReverted(db, e) PROVE PutBack(db, new, e)
  <2> DEFINE left == db.items \ {e.after}
  <2>1. \/ new = Stopped(db)
        \/ new = [db EXCEPT !.items = left] /\ e.after \in db.items
    BY <1>4 DEF ItemReverted
  <2>2. left \in SUBSET ItemRecord
    BY <1>1
  <2> HIDE DEF left
  <2>3. Has([db EXCEPT !.items = left], left, db.aliases, db.quotations, db.headers, db.lines,
            db.lastId, db.effects, db.deferred, db.seenQuotations, db.seenNumbers, db.stopped)
    BY <1>1, <2>2, ItemsSet
  <2>4. CASE new = [db EXCEPT !.items = left] /\ e.after \in db.items
    <3>1. /\ new.items = left /\ new.aliases = db.aliases
          /\ new.quotations = db.quotations /\ new.headers = db.headers /\ new.lines = db.lines
      BY <2>3, <2>4 DEF Has
    <3>2. e.before = {}
      BY <1>4 DEF EffectSound
    <3>3. new["items"] = (db["items"] \ {e.after}) \cup e.before
      BY <3>1, <3>2, TablesByName DEF left
    <3> QED BY <1>4, <2>4, <3>1, <3>3, TablesByName DEF PutBack, TableName
  <2> QED BY <1>2, <2>1, <2>4 DEF PutBack
<1>5. QED
  BY <1>3, <1>4

\* and the rows of other tables are what they were before.
LEMMA OldRowsPutBack ==
  ASSUME NEW db, NEW last \in Nat, NEW released, Reverting(db, last, released),
         NEW e, EffectSound(e, last), NEW new
  PROVE  /\ e.table = "aliases" /\ new = AliasReverted(db, e) => PutBack(db, new, e)
         /\ e.table = "quotations" /\ new = HeadReverted(db, e, "quotation")
              => PutBack(db, new, e)
         /\ e.table = "headers" /\ new = HeadReverted(db, e, "header") => PutBack(db, new, e)
<1>1. db \in Works
  BY RevertingParts
<1>2. Stopped(db).stopped
  BY <1>1, StoppedSet DEF Has, Stopped
<1>3. ASSUME e.table = "aliases", new = AliasReverted(db, e) PROVE PutBack(db, new, e)
  <2> DEFINE left == (db.aliases \ {e.after}) \cup e.before
  <2>1. \/ new = Stopped(db)
        \/ new = [db EXCEPT !.aliases = left] /\ e.after \in db.aliases
    BY <1>3 DEF AliasReverted
  <2>2. left \in SUBSET AliasRecord
    BY <1>3, RevertingParts DEF EffectSound
  <2> HIDE DEF left
  <2>3. Has([db EXCEPT !.aliases = left], db.items, left, db.quotations, db.headers, db.lines,
            db.lastId, db.effects, db.deferred, db.seenQuotations, db.seenNumbers, db.stopped)
    BY <1>1, <2>2, AliasesSet
  <2>4. CASE new = [db EXCEPT !.aliases = left] /\ e.after \in db.aliases
    <3>1. /\ new.items = db.items /\ new.aliases = left
          /\ new.quotations = db.quotations /\ new.headers = db.headers /\ new.lines = db.lines
      BY <2>3, <2>4 DEF Has
    <3>2. new["aliases"] = (db["aliases"] \ {e.after}) \cup e.before
      BY <3>1, TablesByName DEF left
    <3> QED BY <1>3, <2>4, <3>1, <3>2, TablesByName DEF PutBack, TableName
  <2> QED BY <1>2, <2>1, <2>4 DEF PutBack
<1>4. ASSUME e.table = "quotations", new = HeadReverted(db, e, "quotation")
      PROVE  PutBack(db, new, e)
  <2> DEFINE left == (db.quotations \ {e.after}) \cup e.before
  <2>1. \/ new = Stopped(db)
        \/ new = [db EXCEPT !.quotations = left] /\ e.after \in db.quotations
    BY <1>4 DEF HeadReverted
  <2>2. left \in SUBSET QuotationRecord
    BY <1>4, RevertingParts DEF EffectSound
  <2> HIDE DEF left
  <2>3. Has([db EXCEPT !.quotations = left], db.items, db.aliases, left, db.headers, db.lines,
            db.lastId, db.effects, db.deferred, db.seenQuotations, db.seenNumbers, db.stopped)
    BY <1>1, <2>2, QuotationsSet
  <2>4. CASE new = [db EXCEPT !.quotations = left] /\ e.after \in db.quotations
    <3>1. /\ new.items = db.items /\ new.aliases = db.aliases
          /\ new.quotations = left /\ new.headers = db.headers /\ new.lines = db.lines
      BY <2>3, <2>4 DEF Has
    <3>2. new["quotations"] = (db["quotations"] \ {e.after}) \cup e.before
      BY <3>1, TablesByName DEF left
    <3> QED BY <1>4, <2>4, <3>1, <3>2, TablesByName DEF PutBack, TableName
  <2> QED BY <1>2, <2>1, <2>4 DEF PutBack
<1>5. ASSUME e.table = "headers", new = HeadReverted(db, e, "header") PROVE PutBack(db, new, e)
  <2> DEFINE left == (db.headers \ {e.after}) \cup e.before
  <2>1. \/ new = Stopped(db)
        \/ new = [db EXCEPT !.headers = left] /\ e.after \in db.headers
    BY <1>5 DEF HeadReverted
  <2>2. left \in SUBSET HeaderRecord
    BY <1>5, RevertingParts DEF EffectSound
  <2> HIDE DEF left
  <2>3. Has([db EXCEPT !.headers = left], db.items, db.aliases, db.quotations, left, db.lines,
            db.lastId, db.effects, db.deferred, db.seenQuotations, db.seenNumbers, db.stopped)
    BY <1>1, <2>2, HeadersSet
  <2>4. CASE new = [db EXCEPT !.headers = left] /\ e.after \in db.headers
    <3>1. /\ new.items = db.items /\ new.aliases = db.aliases
          /\ new.quotations = db.quotations /\ new.headers = left /\ new.lines = db.lines
      BY <2>3, <2>4 DEF Has
    <3>2. new["headers"] = (db["headers"] \ {e.after}) \cup e.before
      BY <3>1, TablesByName DEF left
    <3> QED BY <1>5, <2>4, <3>1, <3>2, TablesByName DEF PutBack, TableName
  <2> QED BY <1>2, <2>1, <2>4 DEF PutBack
<1>6. QED
  BY <1>3, <1>4, <1>5

\* Afterwards the row of the effect is what it was before it, and every other row is
\* where it was.
LEMMA RowPutBack ==
  ASSUME NEW db, NEW last \in Nat, NEW released, Reverting(db, last, released),
         NEW e, EffectSound(e, last), NEW new, new = Reverted(db, e), ~new.stopped
  PROVE  /\ RowsOf(new, e.table, e.after.id) = e.before
         /\ \A id : id # e.after.id => RowsOf(new, e.table, id) = RowsOf(db, e.table, id)
         /\ \A table \in TableName : table # e.table => new[table] = db[table]
<1>1. e.table \in TableName
  BY DEF EffectSound, Effect
<1>2. PutBack(db, new, e)
  <2>1. CASE e.table = "lines"
    BY <2>1, NewRowsPutBack DEF Reverted
  <2>2. CASE e.table = "quotations"
    BY <2>2, OldRowsPutBack DEF Reverted
  <2>3. CASE e.table = "headers"
    BY <2>3, OldRowsPutBack DEF Reverted
  <2>4. CASE e.table = "aliases"
    BY <2>4, OldRowsPutBack DEF Reverted
  <2>5. CASE e.table = "items"
    BY <2>5, NewRowsPutBack DEF Reverted
  <2> QED BY <1>1, <2>1, <2>2, <2>3, <2>4, <2>5 DEF TableName
<1>3. /\ e.after \in db[e.table]
      /\ new[e.table] = (db[e.table] \ {e.after}) \cup e.before
      /\ \A table \in TableName : table # e.table => new[table] = db[table]
  BY <1>2 DEF PutBack
<1>4. \A b \in e.before : b.id = e.after.id
  BY <1>1 DEF EffectSound, TableName
<1>5. \A r, s \in db[e.table] : r.id = s.id => r = s
  <2>1. /\ \A r, s \in db.items : r.id = s.id => r = s
        /\ \A r, s \in db.aliases : r.id = s.id => r = s
        /\ \A r, s \in db.quotations : r.id = s.id => r = s
        /\ \A r, s \in db.headers : r.id = s.id => r = s
        /\ \A r, s \in db.lines : r.id = s.id => r = s
    BY RevertingParts
       DEF ItemsSound, AliasesSound, QuotationsSound, HeadersSound, LinesSound
  <2> QED BY <1>1, <2>1, TablesByName DEF TableName
<1>6. /\ WithId(new[e.table], e.after.id) = e.before
      /\ \A id : id # e.after.id => WithId(new[e.table], id) = WithId(db[e.table], id)
  <2> DEFINE old == db[e.table]
             now == new[e.table]
             before == e.before
             after == e.after
  <2>1. /\ after \in old /\ now = (old \ {after}) \cup before
        /\ \A b \in before : b.id = after.id
        /\ \A r, s \in old : r.id = s.id => r = s
    BY <1>3, <1>4, <1>5
  <2> HIDE DEF old, now, before, after
  <2>2. \A r \in now : r.id = after.id => r \in before
    BY <2>1
  <2>3. WithId(now, after.id) = before
    BY <2>1, <2>2 DEF WithId
  <2>4. ASSUME NEW id, id # after.id PROVE WithId(now, id) = WithId(old, id)
    <3>1. \A r : r \in now /\ r.id = id <=> r \in old /\ r.id = id
      BY <2>1, <2>4
    <3> QED BY <3>1 DEF WithId
  <2> QED BY <2>3, <2>4 DEF old, now, before, after
<1>7. QED
  BY <1>3, <1>6 DEF RowsOf

Touches(e, table, id) == e.table = table /\ e.after.id = id

\* With n effects taken back in a table, newest first, each row they touched is what it
\* was before the oldest of them, and every other row is where it was.
Undone(t, db, newest, n, table) ==
  \/ db.stopped
  \/ /\ ~t.stopped
     /\ \A other \in TableName : other # table => db[other] = t[other]
     /\ \A id : (\A m \in 1 .. n : ~Touches(newest[m], table, id)) =>
                RowsOf(db, table, id) = RowsOf(t, table, id)
     /\ \A m \in 1 .. n :
          /\ newest[m].table = table
          /\ \A k \in (m + 1) .. n : ~Touches(newest[k], table, newest[m].after.id)
          => RowsOf(db, table, newest[m].after.id) = newest[m].before

\* One more effect is taken back.
LEMMA UndoneMore ==
  ASSUME NEW db, NEW last \in Nat, NEW released, Reverting(db, last, released),
         NEW t, NEW newest, NEW n \in Nat \ {0}, EffectSound(newest[n], last),
         NEW table, Undone(t, db, newest, n - 1, table),
         NEW new, new = IF db.stopped \/ newest[n].table # table THEN db
                        ELSE Reverted(db, newest[n])
  PROVE  Undone(t, new, newest, n, table)
<1> DEFINE e == newest[n]
<1>1. CASE new.stopped
  BY <1>1 DEF Undone
<1>2. CASE ~new.stopped
  <2>0. ~db.stopped /\ db.stopped \in BOOLEAN
    <3>1. db.stopped \in BOOLEAN
      BY RevertingParts, WorksFields
    <3> QED BY <1>2, <3>1
  <2>1. /\ ~t.stopped
        /\ \A other \in TableName : other # table => db[other] = t[other]
        /\ \A id : (\A m \in 1 .. (n - 1) : ~Touches(newest[m], table, id)) =>
                   RowsOf(db, table, id) = RowsOf(t, table, id)
        /\ \A m \in 1 .. (n - 1) :
             /\ newest[m].table = table
             /\ \A k \in (m + 1) .. (n - 1) : ~Touches(newest[k], table, newest[m].after.id)
             => RowsOf(db, table, newest[m].after.id) = newest[m].before
    BY <2>0 DEF Undone
  <2>2. /\ \A m \in 1 .. (n - 1) : m \in 1 .. n
        /\ \A m \in 1 .. n : m # n => m \in 1 .. (n - 1)
        /\ n \in 1 .. n
        /\ \A m \in 1 .. (n - 1) : /\ n \in (m + 1) .. n
                                  /\ \A k \in (m + 1) .. (n - 1) : k \in (m + 1) .. n
    OBVIOUS
  <2>3. CASE e.table # table
    <3>1. new = db
      BY <2>3
    <3>2. \A id : ~Touches(e, table, id)
      BY <2>3 DEF Touches
    <3>3. ASSUME NEW id, \A m \in 1 .. n : ~Touches(newest[m], table, id)
          PROVE  RowsOf(new, table, id) = RowsOf(t, table, id)
      BY <2>1, <2>2, <3>1, <3>3
    <3>4. ASSUME NEW m \in 1 .. n, newest[m].table = table,
                 \A k \in (m + 1) .. n : ~Touches(newest[k], table, newest[m].after.id)
          PROVE  RowsOf(new, table, newest[m].after.id) = newest[m].before
      <4>1. m \in 1 .. (n - 1)
        BY <2>2, <2>3, <3>4
      <4> QED BY <2>1, <2>2, <3>1, <3>4, <4>1
    <3> QED BY <2>1, <3>1, <3>3, <3>4 DEF Undone
  <2>4. CASE e.table = table
    <3>1. new = Reverted(db, e)
      BY <2>0, <2>4
    <3> HIDE DEF e
    <3>2. /\ RowsOf(new, table, e.after.id) = e.before
          /\ \A id : id # e.after.id => RowsOf(new, table, id) = RowsOf(db, table, id)
          /\ \A other \in TableName : other # table => new[other] = db[other]
      <4>1. EffectSound(e, last)
        BY DEF e
      <4>2. /\ RowsOf(new, e.table, e.after.id) = e.before
            /\ \A id : id # e.after.id => RowsOf(new, e.table, id) = RowsOf(db, e.table, id)
            /\ \A other \in TableName : other # e.table => new[other] = db[other]
        BY <1>2, <3>1, <4>1, RowPutBack
      <4> QED BY <2>4, <4>2
    <3>3. ASSUME NEW id, \A m \in 1 .. n : ~Touches(newest[m], table, id)
          PROVE  RowsOf(new, table, id) = RowsOf(t, table, id)
      <4>1. id # e.after.id
        BY <2>2, <2>4, <3>3 DEF Touches, e
      <4>2. RowsOf(db, table, id) = RowsOf(t, table, id)
        BY <2>1, <2>2, <3>3
      <4> QED BY <3>2, <4>1, <4>2
    <3>4. ASSUME NEW m \in 1 .. n, newest[m].table = table,
                 \A k \in (m + 1) .. n : ~Touches(newest[k], table, newest[m].after.id)
          PROVE  RowsOf(new, table, newest[m].after.id) = newest[m].before
      <4>1. CASE m = n
        BY <3>2, <4>1 DEF e
      <4>2. CASE m # n
        <5>1. m \in 1 .. (n - 1)
          BY <2>2, <4>2
        <5>2. newest[m].after.id # e.after.id
          BY <2>2, <2>4, <3>4, <5>1 DEF Touches, e
        <5>3. RowsOf(db, table, newest[m].after.id) = newest[m].before
          BY <2>1, <2>2, <3>4, <5>1
        <5> QED BY <3>2, <5>2, <5>3
      <4> QED BY <4>1, <4>2
    <3> QED BY <2>1, <3>2, <3>3, <3>4 DEF Undone
  <2> QED BY <2>3, <2>4
<1>3. QED
  BY <1>1, <1>2

\* What each turn of a loop keeps of its own turn, the loop keeps.
LEMMA LoopKeeps ==
  ASSUME NEW N \in Nat, NEW Y, NEW f, f[0] \in Y[0],
         \A n \in 1 .. N : f[n - 1] \in Y[n - 1] => f[n] \in Y[n]
  PROVE  f[N] \in Y[N]
<1> DEFINE S == { n \in Nat : n <= N => f[n] \in Y[n] }
<1>1. 0 \in S
  OBVIOUS
<1>2. ASSUME NEW n \in Nat, n \in S PROVE n + 1 \in S
  <2>1. SUFFICES ASSUME n + 1 <= N PROVE f[n + 1] \in Y[n + 1]
    OBVIOUS
  <2>2. n + 1 \in 1 .. N /\ (n + 1) - 1 = n /\ f[n] \in Y[n]
    BY <1>2, <2>1
  <2> QED BY <2>2
<1> HIDE DEF S
<1>3. N \in S
  BY <1>1, <1>2, AllNumbers
<1> QED
  BY <1>3 DEF S

\* In each of some tables, the rows the effects touched are what they were before them,
\* and every other row is where it was.
TakenBack(t, new, effects, done) ==
  \/ new.stopped
  \/ /\ ~t.stopped
     /\ \A table \in TableName \ done : new[table] = t[table]
     /\ \A table \in done : \A id :
          ~TouchedBy(effects, table, id) => RowsOf(new, table, id) = RowsOf(t, table, id)
     /\ \A n \in DOMAIN effects :
          effects[n].table \in done /\ FirstOf(effects, n) =>
            RowsOf(new, effects[n].table, effects[n].after.id) = effects[n].before

\* Newest first, the last effect taken back on a row is the first there was.
LEMMA AllUndone ==
  ASSUME NEW t, NEW new, NEW effects \in Seq(Effect), NEW table,
         Undone(t, new, Newest(effects), Len(effects), table)
  PROVE  TakenBack(t, new, effects, {table})
<1> DEFINE newest == Newest(effects)
           N == Len(effects)
<1>1. /\ N \in Nat /\ DOMAIN effects = 1 .. N
      /\ \A n \in 1 .. N : newest[n] = effects[N - n + 1] /\ N - n + 1 \in 1 .. N
  <2>1. N \in Nat /\ DOMAIN effects = 1 .. N
    OBVIOUS
  <2>2. \A n \in 1 .. N : newest[n] = effects[N - n + 1]
    BY DEF Newest, Reverse
  <2> HIDE DEF newest
  <2> QED BY <2>1, <2>2
<1> HIDE DEF newest, N
<1>2. CASE new.stopped
  BY <1>2 DEF TakenBack
<1>3. CASE ~new.stopped
  <2>1. /\ ~t.stopped
        /\ \A other \in TableName : other # table => new[other] = t[other]
        /\ \A id : (\A m \in 1 .. N : ~Touches(newest[m], table, id)) =>
                   RowsOf(new, table, id) = RowsOf(t, table, id)
        /\ \A m \in 1 .. N :
             /\ newest[m].table = table
             /\ \A k \in (m + 1) .. N : ~Touches(newest[k], table, newest[m].after.id)
             => RowsOf(new, table, newest[m].after.id) = newest[m].before
    BY <1>3 DEF Undone, newest, N
  <2>2. ASSUME NEW id, ~TouchedBy(effects, table, id)
        PROVE  RowsOf(new, table, id) = RowsOf(t, table, id)
    <3>1. \A m \in 1 .. N : ~Touches(newest[m], table, id)
      BY <1>1, <2>2 DEF TouchedBy, Touches
    <3> QED BY <2>1, <3>1
  <2>3. ASSUME NEW n \in DOMAIN effects, effects[n].table = table, FirstOf(effects, n)
        PROVE  RowsOf(new, table, effects[n].after.id) = effects[n].before
    <3> DEFINE m == N - n + 1
    <3>1. m \in 1 .. N /\ N - m + 1 = n
      BY <1>1
    <3>2. newest[m] = effects[n]
      BY <1>1, <3>1
    <3>3. ASSUME NEW k \in (m + 1) .. N PROVE ~Touches(newest[k], table, effects[n].after.id)
      <4>1. k \in 1 .. N /\ N - k + 1 \in DOMAIN effects /\ N - k + 1 < n
        BY <1>1, <3>1
      <4>2. newest[k] = effects[N - k + 1]
        BY <1>1, <4>1
      <4> QED BY <2>3, <4>1, <4>2 DEF FirstOf, Touches
    <3> HIDE DEF m
    <3> QED BY <2>1, <2>3, <3>1, <3>2, <3>3
  <2> QED BY <2>1, <2>2, <2>3 DEF TakenBack
<1>4. QED
  BY <1>2, <1>3

\* Tables are undone one after the other.
LEMMA NextTableUndone ==
  ASSUME NEW t, NEW first, NEW second, NEW effects, NEW done, NEW table \in TableName \ done,
         done \subseteq TableName,
         TakenBack(t, first, effects, done), TakenBack(first, second, effects, {table})
  PROVE  TakenBack(t, second, effects, done \cup {table})
<1>1. CASE second.stopped
  BY <1>1 DEF TakenBack
<1>2. CASE ~second.stopped
  <2>1. /\ ~first.stopped
        /\ \A other \in TableName \ {table} : second[other] = first[other]
        /\ \A id : ~TouchedBy(effects, table, id) =>
                     RowsOf(second, table, id) = RowsOf(first, table, id)
        /\ \A n \in DOMAIN effects :
             effects[n].table = table /\ FirstOf(effects, n) =>
               RowsOf(second, effects[n].table, effects[n].after.id) = effects[n].before
    BY <1>2 DEF TakenBack
  <2>2. /\ ~t.stopped
        /\ \A other \in TableName \ done : first[other] = t[other]
        /\ \A other \in done : \A id :
             ~TouchedBy(effects, other, id) => RowsOf(first, other, id) = RowsOf(t, other, id)
        /\ \A n \in DOMAIN effects :
             effects[n].table \in done /\ FirstOf(effects, n) =>
               RowsOf(first, effects[n].table, effects[n].after.id) = effects[n].before
    BY <2>1 DEF TakenBack
  <2>3. \A other \in done : \A id : RowsOf(second, other, id) = RowsOf(first, other, id)
    BY <2>1 DEF RowsOf
  <2>4. \A id : RowsOf(first, table, id) = RowsOf(t, table, id)
    BY <2>2 DEF RowsOf
  <2>5. \A other \in TableName \ (done \cup {table}) : second[other] = t[other]
    BY <2>1, <2>2
  <2>6. \A other \in done \cup {table} : \A id :
          ~TouchedBy(effects, other, id) => RowsOf(second, other, id) = RowsOf(t, other, id)
    BY <2>1, <2>2, <2>3, <2>4
  <2>7. \A n \in DOMAIN effects :
          effects[n].table \in done \cup {table} /\ FirstOf(effects, n) =>
            RowsOf(second, effects[n].table, effects[n].after.id) = effects[n].before
    BY <2>1, <2>2, <2>3
  <2> QED BY <2>2, <2>5, <2>6, <2>7 DEF TakenBack
<1>3. QED
  BY <1>1, <1>2

\* Undoing what a job did to one table.
LEMMA TableRevertedKeeps ==
  ASSUME NEW t, NEW last \in Nat, NEW released, Reverting(t, last, released),
         NEW effects \in Seq(Effect), EffectsSound(effects, last), NEW table
  PROVE  /\ Reverting(TableReverted(t, effects, table), last, released)
         /\ TakenBack(t, TableReverted(t, effects, table), effects, {table})
<1> DEFINE X == { db \in Works : Reverting(db, last, released) }
           newest == Newest(effects)
<1>a. \A n \in 1 .. Len(effects) : EffectSound(newest[n], last)
  <2> SUFFICES ASSUME NEW n \in 1 .. Len(effects) PROVE EffectSound(newest[n], last)
    OBVIOUS
  <2>1. newest[n] = effects[Len(effects) - n + 1]
    BY DEF Newest, Reverse
  <2>2. Len(effects) - n + 1 \in DOMAIN effects
    OBVIOUS
  <2> HIDE DEF newest
  <2> QED BY <2>1, <2>2 DEF EffectsSound
<1> HIDE DEF newest
<1> DEFINE N == Len(effects)
           start == t
           step(db, n) == IF db.stopped \/ newest[n].table # table THEN db ELSE Reverted(db, newest[n])
           G == [n \in 1 .. N |-> [db \in X |-> step(db, n)]]
           Is(f) == f = [n \in 0 .. N |-> IF n = 0 THEN start ELSE step(f[n - 1], n)]
<1>1. N \in Nat /\ start \in X
  BY RevertingParts
<1>2. ASSUME NEW n \in 1 .. N, NEW db \in X PROVE step(db, n) \in X
  <2>1. Reverting(db, last, released) /\ EffectSound(newest[n], last)
    BY <1>a
  <2>2. Reverting(Reverted(db, newest[n]), last, released)
    BY <2>1, RevertedKeeps
  <2> QED BY <2>2, RevertingParts
<1> DEFINE Y == [n \in 0 .. N |-> { db \in X : Undone(t, db, newest, n, table) }]
<1>y. start \in Y[0]
  <2>1. Undone(t, t, newest, 0, table)
    <3>1. t.stopped \in BOOLEAN
      BY RevertingParts, WorksFields
    <3>2. 1 .. 0 = {}
      OBVIOUS
    <3> QED BY <3>1, <3>2 DEF Undone
  <2> QED BY <1>1, <2>1
<1>z. ASSUME NEW n \in 1 .. N, NEW db \in Y[n - 1] PROVE step(db, n) \in Y[n]
  <2>1. n - 1 \in 0 .. N /\ n \in 0 .. N /\ n \in Nat \ {0}
    BY <1>1
  <2>2. db \in X /\ Undone(t, db, newest, n - 1, table)
    BY <2>1
  <2>3. Reverting(db, last, released) /\ EffectSound(newest[n], last)
    BY <1>a, <2>2
  <2>4. Undone(t, step(db, n), newest, n, table)
    BY <2>1, <2>2, <2>3, UndoneMore
  <2>5. step(db, n) \in X
    BY <1>2, <2>2
  <2> HIDE DEF X, step
  <2> QED BY <2>1, <2>4, <2>5
<1>3. TableReverted(t, effects, table) = (CHOOSE f : Is(f))[N]
  BY Zenon DEF TableReverted, newest
<1> HIDE DEF X, Y, N, start, step
<1>4. StepsBack(N, X, G)
  BY <1>2 DEF StepsBack
<1>5. \A n \in 1 .. N : \A db \in X : G[n][db] = step(db, n)
  OBVIOUS
<1> HIDE DEF G
<1>6. PICK f : StatesOn(N, X, start, G, f)
  BY <1>1, <1>4, StatesForward
<1>7. /\ f \in [0 .. N -> X] /\ f[0] = start
      /\ \A n \in 1 .. N : f[n] = G[n][f[n - 1]]
  BY <1>6 DEF StatesOn
<1>8. ASSUME NEW n \in 0 .. N PROVE f[n] = IF n = 0 THEN start ELSE step(f[n - 1], n)
  <2>1. CASE n = 0
    BY <1>7, <2>1
  <2>2. CASE n # 0
    <3>1. n \in 1 .. N /\ n - 1 \in 0 .. N
      BY <1>1, <2>2
    <3> QED BY <1>5, <1>7, <2>2, <3>1
  <2> QED BY <2>1, <2>2
<1>9. Is(f)
  BY <1>7, <1>8
<1>10. \E g : Is(g)
  BY <1>9
<1> DEFINE g == CHOOSE h : Is(h)
<1>11. Is(g)
  BY <1>10
<1> HIDE DEF g
<1>12. g[0] = start /\ \A n \in 1 .. N : g[n] = step(g[n - 1], n)
  <2>1. \A n \in 0 .. N : g[n] = IF n = 0 THEN start ELSE step(g[n - 1], n)
    BY <1>11
  <2>2. 0 \in 0 .. N /\ \A n \in 1 .. N : n \in 0 .. N /\ n # 0
    BY <1>1
  <2> QED BY <2>1, <2>2
<1>13. g[0] \in Y[0] /\ \A n \in 1 .. N : g[n - 1] \in Y[n - 1] => g[n] \in Y[n]
  BY <1>y, <1>z, <1>12
<1>14. g[N] \in Y[N]
  BY <1>1, <1>13, LoopKeeps
<1>15. TableReverted(t, effects, table) \in Y[N] /\ N \in 0 .. N
  BY <1>1, <1>3, <1>14 DEF g
<1>16. /\ TableReverted(t, effects, table) \in X
       /\ Undone(t, TableReverted(t, effects, table), newest, N, table)
  BY <1>15 DEF Y
<1>17. TakenBack(t, TableReverted(t, effects, table), effects, {table})
  BY <1>16, AllUndone DEF newest, N
<1> QED
  BY <1>16, <1>17 DEF X

\* Undoing an item job.
LEMMA ItemsRevertedFits ==
  ASSUME NEW t, t = tables, Sound(t), NEW released, Guarded(t.headers, released),
         NEW effects \in Seq(Effect), EffectsSound(effects, t.lastId)
  PROVE  /\ Reverting(ItemsReverted(t, effects), t.lastId, released)
         /\ TakenBack(Emptied(t), ItemsReverted(t, effects), effects, CatalogTables)
<1> DEFINE start   == Emptied(t)
           aliases == TableReverted(start, effects, "aliases")
           both    == TableReverted(aliases, effects, "items")
<1>1. Reverting(start, t.lastId, released) /\ t.lastId \in Nat
  BY EmptiedParts DEF Reverting, Sound, SameNumbers
<1> HIDE DEF start
<1>2. /\ Reverting(aliases, t.lastId, released)
      /\ TakenBack(start, aliases, effects, {"aliases"})
  BY <1>1, TableRevertedKeeps
<1> HIDE DEF aliases
<1>3. Reverting(both, t.lastId, released) /\ TakenBack(aliases, both, effects, {"items"})
  BY <1>1, <1>2, TableRevertedKeeps
<1>4. both = ItemsReverted(t, effects)
  BY DEF ItemsReverted, aliases, start
<1> HIDE DEF both
<1>5. TakenBack(start, both, effects, {"aliases"} \cup {"items"})
  <2>1. "items" \in TableName \ {"aliases"} /\ {"aliases"} \subseteq TableName
    BY DEF TableName
  <2> QED BY <1>2, <1>3, <2>1, NextTableUndone
<1>6. {"aliases"} \cup {"items"} = CatalogTables
  BY DEF CatalogTables
<1>7. QED
  BY <1>3, <1>4, <1>5, <1>6 DEF start

\* Undoing an order job.
LEMMA OrdersRevertedFits ==
  ASSUME NEW t, t = tables, Sound(t), NEW released, Guarded(t.headers, released),
         NEW effects \in Seq(Effect), EffectsSound(effects, t.lastId)
  PROVE  /\ Reverting(OrdersReverted(t, effects), t.lastId, released)
         /\ TakenBack(Emptied(t), OrdersReverted(t, effects), effects, OrderTables)
<1> DEFINE start   == Emptied(t)
           lines   == TableReverted(start, effects, "lines")
           quoted  == TableReverted(lines, effects, "quotations")
           headers == TableReverted(quoted, effects, "headers")
           all     == TableReverted(headers, effects, "aliases")
<1>1. Reverting(start, t.lastId, released) /\ t.lastId \in Nat
  BY EmptiedParts DEF Reverting, Sound, SameNumbers
<1>2. all = OrdersReverted(t, effects)
  BY DEF OrdersReverted
<1> HIDE DEF start
<1>3. Reverting(lines, t.lastId, released) /\ TakenBack(start, lines, effects, {"lines"})
  BY <1>1, TableRevertedKeeps
<1> HIDE DEF lines
<1>4. Reverting(quoted, t.lastId, released) /\ TakenBack(lines, quoted, effects, {"quotations"})
  BY <1>1, <1>3, TableRevertedKeeps
<1> HIDE DEF quoted
<1>5. Reverting(headers, t.lastId, released) /\ TakenBack(quoted, headers, effects, {"headers"})
  BY <1>1, <1>4, TableRevertedKeeps
<1> HIDE DEF headers
<1>6. Reverting(all, t.lastId, released) /\ TakenBack(headers, all, effects, {"aliases"})
  BY <1>1, <1>5, TableRevertedKeeps
<1> HIDE DEF all
<1> DEFINE one   == {"lines"}
           two   == one \cup {"quotations"}
           three == two \cup {"headers"}
           four  == three \cup {"aliases"}
<1>7. /\ one \subseteq TableName /\ two \subseteq TableName /\ three \subseteq TableName
      /\ "quotations" \in TableName \ one /\ "headers" \in TableName \ two
      /\ "aliases" \in TableName \ three /\ four = OrderTables
  BY DEF TableName, OrderTables
<1>8. TakenBack(start, lines, effects, one)
  BY <1>3
<1> HIDE DEF one
<1>9. TakenBack(start, quoted, effects, two)
  BY <1>4, <1>7, <1>8, NextTableUndone
<1> HIDE DEF two
<1>10. TakenBack(start, headers, effects, three)
  BY <1>5, <1>7, <1>9, NextTableUndone
<1> HIDE DEF three
<1>11. TakenBack(start, all, effects, four)
  BY <1>6, <1>7, <1>10, NextTableUndone
<1>12. QED
  BY <1>2, <1>6, <1>7, <1>11 DEF start

-----------------------------------------------------------------------------
(* The tables, and the invariant.                                          *)

HistoryRecord ==
  [lineage : SUBSET Nat, linked : SUBSET Nat, released : SUBSET Nat, renumbered : SUBSET Nat]

JobRecord ==
  [kind : {"items", "orders"}, file : ItemFile \cup OrderFile, checked : Nat, undone : BOOLEAN,
   redo : Nat, effects : Seq(Effect), was : TableRecord]

\* A job can be redone with its file.
FileOfKind(entry) ==
  IF entry.kind = "items" THEN entry.file \in ItemFile ELSE entry.file \in OrderFile

\* The effects of a job are on the tables of its kind, and tell what the rows it
\* touched were.
JobTells(entry) ==
  /\ FirstsTell(entry.effects, entry.was)
  /\ \A n \in DOMAIN entry.effects : entry.effects[n].table \in TablesOf(entry.kind)

JobsSound(some, last) ==
  /\ some \in Seq(JobRecord)
  /\ \A j \in DOMAIN some : /\ FileOfKind(some[j]) /\ JobTells(some[j])
                            /\ some[j].checked < j
                            /\ EffectsSound(some[j].effects, last)

\* A header that was released or got another number may be imported to again.
Excused(past) == past.released \cup past.renumbered

\* Of all headers there ever were, one had the lines of two jobs, of which one was
\* done when the other looked, only when excused.
ImportedOnceEver(some, past) ==
  \A i, j \in DOMAIN some : \A h :
    i <= some[j].checked /\ LinesOn(some[i], h) # {} /\ LinesOn(some[j], h) # {}
      => h \in Excused(past)

\* One of the first n jobs put lines on the header.
UsedBefore(some, n, h) == \E i \in DOMAIN some : i <= n /\ LinesOn(some[i], h) # {}

\* What the check of an import found: items for its rows, headers to unlock.
FoundSound(import, some) ==
  /\ import.file \in OrderFile /\ import.checked \in 0 .. Len(some)
  /\ import.opens \subseteq HeaderRecord
  /\ \A n \in DOMAIN import.file.rows :
       /\ import.matches[n].units \in Nat
       /\ import.file.rows[n].save # 0 => import.matches[n].item = import.file.rows[n].override

\* A header with a number of the file that was in use when the check looked was
\* released, or is unlocked by this import.
FoundFree(import, headers, past, some) ==
  \A h \in headers :
    /\ h.number \in NumbersOf(import.file) /\ h.id \notin past.renumbered
    /\ UsedBefore(some, import.checked, h.id)
    => h.id \in past.released \cup Ids(import.opens)

ImportsFound(found, headers, past, some) ==
  /\ DOMAIN found = Importer
  /\ \A r \in Importer :
       found[r] # NoImport => FoundSound(found[r], some) /\ FoundFree(found[r], headers, past, some)

ImportInv ==
  /\ tables \in TableRecord
  /\ Sound(tables)
  /\ history \in HistoryRecord
  /\ Guarded(tables.headers, history.released)
  /\ JobsSound(jobs, tables.lastId)
  /\ ImportedOnceEver(jobs, history)
  /\ ImportsFound(importing, tables.headers, history, jobs)

\* What a request keeps of what it worked on.
LEMMA KeptSound ==
  ASSUME NEW db, Sound(db)
  PROVE  /\ Kept(db) \in TableRecord /\ Sound(Kept(db))
         /\ Kept(db).headers = db.headers /\ Kept(db).lastId = db.lastId
<1>1. /\ db.items \in SUBSET ItemRecord /\ db.aliases \in SUBSET AliasRecord
      /\ db.quotations \in SUBSET QuotationRecord /\ db.headers \in SUBSET HeaderRecord
      /\ db.lines \in SUBSET LineRecord /\ db.lastId \in Nat
  BY DEF Sound, ItemsSound, AliasesSound, QuotationsSound, HeadersSound, LinesSound
<1>2. Kept(db) \in TableRecord
  BY <1>1 DEF Kept, TableRecord
<1> DEFINE t == Kept(db)
<1>3. /\ t.items = db.items /\ t.aliases = db.aliases /\ t.quotations = db.quotations
      /\ t.headers = db.headers /\ t.lines = db.lines /\ t.lastId = db.lastId
  BY DEF Kept
<1> HIDE DEF t
<1>4. Sound(t)
  BY <1>3 DEF Sound
<1>5. QED
  BY <1>2, <1>3, <1>4 DEF t

\* Jobs stay sound as ids are given.
LEMMA JobsLater ==
  ASSUME NEW some, NEW last \in Nat, NEW later \in Nat, last <= later, JobsSound(some, last)
  PROVE  JobsSound(some, later)
BY EffectsLater DEF JobsSound

\* Releasing a header excuses more, never less.
LEMMA OnceLater ==
  ASSUME NEW some, NEW past, NEW more, past.released \subseteq more.released,
         past.renumbered \subseteq more.renumbered, ImportedOnceEver(some, past)
  PROVE  ImportedOnceEver(some, more)
BY DEF ImportedOnceEver, Excused

\* Headers that jobs put lines on have ids that were given.
LEMMA UsedIds ==
  ASSUME NEW some, NEW last, JobsSound(some, last), NEW j \in DOMAIN some, NEW h,
         LinesOn(some[j], h) # {}
  PROVE  h \in 1 .. last
<1>1. PICK n \in DOMAIN some[j].effects :
        some[j].effects[n].table = "lines" /\ some[j].effects[n].after.header = h
  BY DEF LinesOn
<1>2. EffectSound(some[j].effects[n], last)
  BY DEF JobsSound, EffectsSound
<1> QED
  BY <1>1, <1>2 DEF EffectSound

\* What grows or ends from one state to the next.
MoreExcused(past, more) ==
  past.released \subseteq more.released /\ past.renumbered \subseteq more.renumbered

JobsGrow(some, later) ==
  /\ later \in Seq(JobRecord) /\ Len(some) <= Len(later)
  /\ \A j \in DOMAIN some : \A h : LinesOn(later[j], h) = LinesOn(some[j], h)

Ended(found, left) == left = found \/ \E r \in Importer : left = [found EXCEPT ![r] = NoImport]

\* What an import found stands while headers keep their numbers, new ones get new ids,
\* and jobs are added.
LEMMA ImportsStay ==
  ASSUME NEW found, NEW headers, NEW past, NEW some, NEW last \in Nat,
         ImportsFound(found, headers, past, some), JobsSound(some, last),
         NEW new, NEW more, SameNumbers(new, headers, last, more.renumbered),
         MoreExcused(past, more), NEW later, JobsGrow(some, later), NEW left, Ended(found, left)
  PROVE  ImportsFound(left, new, more, later)
<1>a. /\ past.released \subseteq more.released /\ past.renumbered \subseteq more.renumbered
      /\ later \in Seq(JobRecord) /\ Len(some) <= Len(later)
      /\ \A j \in DOMAIN some : \A h : LinesOn(later[j], h) = LinesOn(some[j], h)
      /\ left = found \/ \E r \in Importer : left = [found EXCEPT ![r] = NoImport]
  BY DEF MoreExcused, JobsGrow, Ended
<1>1. /\ Len(some) \in Nat /\ Len(later) \in Nat /\ DOMAIN some = 1 .. Len(some)
      /\ DOMAIN later = 1 .. Len(later)
  BY <1>a DEF JobsSound
<1>2. DOMAIN left = Importer
  BY <1>a DEF ImportsFound
<1> SUFFICES ASSUME NEW r \in Importer, left[r] # NoImport
             PROVE  FoundSound(left[r], later) /\ FoundFree(left[r], new, more, later)
  BY <1>2 DEF ImportsFound
<1>3. left[r] = found[r]
  BY <1>a DEF ImportsFound
<1>4. FoundSound(found[r], some) /\ FoundFree(found[r], headers, past, some)
  BY <1>3 DEF ImportsFound
<1> DEFINE import == found[r]
<1> HIDE DEF import
<1>5. import.checked \in 0 .. Len(some)
  BY <1>4 DEF FoundSound, import
<1>6. FoundSound(import, later)
  BY <1>a, <1>1, <1>4, <1>5 DEF FoundSound, import
<1>7. ASSUME NEW h \in new, h.number \in NumbersOf(import.file), h.id \notin more.renumbered,
             UsedBefore(later, import.checked, h.id)
      PROVE  h.id \in more.released \cup Ids(import.opens)
  <2>1. PICK i \in DOMAIN later : i <= import.checked /\ LinesOn(later[i], h.id) # {}
    BY <1>7 DEF UsedBefore
  <2>2. i \in DOMAIN some
    BY <1>1, <1>5, <2>1
  <2>3. LinesOn(some[i], h.id) # {}
    BY <1>a, <2>1, <2>2
  <2>4. UsedBefore(some, import.checked, h.id)
    BY <2>1, <2>2, <2>3 DEF UsedBefore
  <2>5. h.id \in 1 .. last
    BY <2>2, <2>3, UsedIds
  <2>6. PICK g \in headers : g.id = h.id /\ g.number = h.number
    BY <1>7, <2>5 DEF SameNumbers
  <2>7. h.id \in past.released \cup Ids(import.opens)
    BY <1>a, <1>4, <1>7, <2>4, <2>6 DEF FoundFree, import
  <2> QED BY <1>a, <2>7
<1> QED
  BY <1>3, <1>6, <1>7 DEF FoundFree, import

\* The parts of the invariant.
LEMMA ImportInvParts ==
  ASSUME ImportInv
  PROVE  /\ tables \in TableRecord /\ Sound(tables) /\ tables.lastId \in Nat
         /\ ItemsSound(tables.items, tables.lastId)
         /\ AliasesSound(tables.items, tables.aliases, tables.lastId)
         /\ QuotationsSound(tables.quotations, tables.lastId)
         /\ HeadersSound(tables.headers, tables.lastId)
         /\ LinesSound(tables.items, tables.quotations, tables.headers, tables.lines,
                       tables.lastId)
         /\ history \in HistoryRecord /\ Guarded(tables.headers, history.released)
         /\ history.lineage \in SUBSET Nat /\ history.linked \in SUBSET Nat
         /\ history.released \in SUBSET Nat /\ history.renumbered \in SUBSET Nat
         /\ jobs \in Seq(JobRecord) /\ JobsSound(jobs, tables.lastId)
BY DEF ImportInv, Sound, HistoryRecord, JobsSound

\* A header keeps its number if it stays, or changes in nothing else.
LEMMA NumbersStay ==
  ASSUME NEW headers, NEW was, NEW last, NEW renumbered
  PROVE  /\ headers \subseteq was => SameNumbers(headers, was, last, renumbered)
         /\ SameNumbers(headers, was, last, {}) => SameNumbers(headers, was, last, renumbered)
BY DEF SameNumbers

\* A call leaves the jobs and the imports in progress alone.
LEMMA CallKeeps ==
  ASSUME ImportInv, NEW db, Call(db), Sound(db), tables.lastId <= db.lastId,
         history' \in HistoryRecord, history.released \subseteq history'.released,
         history.renumbered \subseteq history'.renumbered,
         Guarded(db.headers, history'.released),
         SameNumbers(db.headers, tables.headers, tables.lastId, history'.renumbered)
  PROVE  ImportInv'
<1>1. tables' = Kept(db) /\ jobs' = jobs /\ importing' = importing
  BY DEF Call
<1>2. /\ tables' \in TableRecord /\ Sound(tables') /\ tables'.headers = db.headers
      /\ tables'.lastId = db.lastId
  BY <1>1, KeptSound
<1>3. tables.lastId \in Nat /\ db.lastId \in Nat
  BY DEF ImportInv, Sound
<1>4. /\ JobsSound(jobs, tables.lastId) /\ jobs \in Seq(JobRecord)
      /\ ImportedOnceEver(jobs, history)
      /\ ImportsFound(importing, tables.headers, history, jobs)
  BY ImportInvParts DEF ImportInv
<1>5. JobsSound(jobs, db.lastId)
  BY <1>3, <1>4, JobsLater
<1>6. ImportedOnceEver(jobs, history')
  BY <1>4, OnceLater
<1>7. ImportsFound(importing, db.headers, history', jobs)
  <2>1. JobsGrow(jobs, jobs) /\ MoreExcused(history, history') /\ Ended(importing, importing)
    BY <1>4 DEF JobsGrow, MoreExcused, Ended
  <2> QED BY <1>3, <1>4, <2>1, ImportsStay
<1>8. QED
  BY <1>1, <1>2, <1>5, <1>6, <1>7 DEF ImportInv

HasTables(db, i, a, q, h, l, last) ==
  /\ db \in TableRecord
  /\ db.items = i /\ db.aliases = a /\ db.quotations = q /\ db.headers = h /\ db.lines = l
  /\ db.lastId = last

\* One table changes.
LEMMA TableSet ==
  ASSUME NEW t \in TableRecord
  PROVE  /\ \A x \in SUBSET ItemRecord :
              HasTables([t EXCEPT !.items = x], x, t.aliases, t.quotations, t.headers, t.lines,
                        t.lastId)
         /\ \A x \in SUBSET AliasRecord :
              HasTables([t EXCEPT !.aliases = x], t.items, x, t.quotations, t.headers, t.lines,
                        t.lastId)
         /\ \A x \in SUBSET QuotationRecord :
              HasTables([t EXCEPT !.quotations = x], t.items, t.aliases, x, t.headers, t.lines,
                        t.lastId)
         /\ \A x \in SUBSET HeaderRecord :
              HasTables([t EXCEPT !.headers = x], t.items, t.aliases, t.quotations, x, t.lines,
                        t.lastId)
         /\ \A x \in SUBSET LineRecord :
              HasTables([t EXCEPT !.lines = x], t.items, t.aliases, t.quotations, t.headers, x,
                        t.lastId)
<1>1. ASSUME NEW x \in SUBSET ItemRecord
      PROVE  HasTables([t EXCEPT !.items = x], x, t.aliases, t.quotations, t.headers, t.lines,
                       t.lastId)
  BY DEF HasTables, TableRecord
<1>2. ASSUME NEW x \in SUBSET AliasRecord
      PROVE  HasTables([t EXCEPT !.aliases = x], t.items, x, t.quotations, t.headers, t.lines,
                       t.lastId)
  BY DEF HasTables, TableRecord
<1>3. ASSUME NEW x \in SUBSET QuotationRecord
      PROVE  HasTables([t EXCEPT !.quotations = x], t.items, t.aliases, x, t.headers, t.lines,
                       t.lastId)
  BY DEF HasTables, TableRecord
<1>4. ASSUME NEW x \in SUBSET HeaderRecord
      PROVE  HasTables([t EXCEPT !.headers = x], t.items, t.aliases, t.quotations, x, t.lines,
                       t.lastId)
  BY DEF HasTables, TableRecord
<1>5. ASSUME NEW x \in SUBSET LineRecord
      PROVE  HasTables([t EXCEPT !.lines = x], t.items, t.aliases, t.quotations, t.headers, x,
                       t.lastId)
  BY DEF HasTables, TableRecord
<1>6. QED
  BY <1>1, <1>2, <1>3, <1>4, <1>5

\* A row is stored in place of what was there of it, without a new id or with one.
LEMMA TableStored ==
  ASSUME NEW t \in TableRecord, NEW before, NEW row
  PROVE  /\ before \in SUBSET AliasRecord /\ row \in AliasRecord =>
              HasTables(Stored(t, "aliases", before, row), t.items,
                        (t.aliases \ before) \cup {row}, t.quotations, t.headers, t.lines,
                        Given(t, before))
         /\ before \in SUBSET HeaderRecord /\ row \in HeaderRecord =>
              HasTables(Stored(t, "headers", before, row), t.items, t.aliases, t.quotations,
                        (t.headers \ before) \cup {row}, t.lines, Given(t, before))
<1>0. Given(t, before) \in Nat
  BY DEF Given, TableRecord
<1>1. ASSUME before \in SUBSET AliasRecord, row \in AliasRecord
      PROVE  HasTables(Stored(t, "aliases", before, row), t.items,
                       (t.aliases \ before) \cup {row}, t.quotations, t.headers, t.lines,
                       Given(t, before))
  <2> DEFINE x == (t.aliases \ before) \cup {row}
             u == [t EXCEPT !.aliases = x]
  <2>1. x \in SUBSET AliasRecord
    BY <1>1 DEF TableRecord
  <2> HIDE DEF x
  <2>2. HasTables(u, t.items, x, t.quotations, t.headers, t.lines, t.lastId)
    BY <2>1, TableSet
  <2>3. Stored(t, "aliases", before, row) = [u EXCEPT !.lastId = Given(t, before)]
    BY DEF Stored, Given, TableRecord, x
  <2> HIDE DEF u
  <2>4. QED
    BY <1>0, <2>2, <2>3 DEF HasTables, TableRecord, x
<1>2. ASSUME before \in SUBSET HeaderRecord, row \in HeaderRecord
      PROVE  HasTables(Stored(t, "headers", before, row), t.items, t.aliases, t.quotations,
                       (t.headers \ before) \cup {row}, t.lines, Given(t, before))
  <2> DEFINE x == (t.headers \ before) \cup {row}
             u == [t EXCEPT !.headers = x]
  <2>1. x \in SUBSET HeaderRecord
    BY <1>2 DEF TableRecord
  <2> HIDE DEF x
  <2>2. HasTables(u, t.items, t.aliases, t.quotations, x, t.lines, t.lastId)
    BY <2>1, TableSet
  <2>3. Stored(t, "headers", before, row) = [u EXCEPT !.lastId = Given(t, before)]
    BY DEF Stored, Given, TableRecord, x
  <2> HIDE DEF u
  <2>4. QED
    BY <1>0, <2>2, <2>3 DEF HasTables, TableRecord, x
<1>3. QED
  BY <1>1, <1>2

\* Headers and quotations without a line go; no line is left without one.
LEMMA HeadersOrphaned ==
  ASSUME NEW t \in TableRecord, Sound(t), NEW released, Guarded(t.headers, released), NEW ids,
         NEW new, new = WithoutOrphans(t, "headers", "header", ids)
  PROVE  /\ new \in TableRecord /\ Sound(new) /\ Guarded(new.headers, released)
         /\ new.lastId = t.lastId /\ new.headers \subseteq t.headers
<1> DEFINE left == { row \in t.headers : row.id \in ids => LinesOf(t, "header", row.id) # {} }
<1>1. left \in SUBSET t.headers /\ left \in SUBSET HeaderRecord
  BY DEF TableRecord
<1>2. new = [t EXCEPT !.headers = left]
  BY DEF WithoutOrphans, TableRecord
<1>3. \A line \in t.lines : line.header \in Ids(left)
  <2> SUFFICES ASSUME NEW line \in t.lines PROVE line.header \in Ids(left)
    OBVIOUS
  <2>1. PICK row \in t.headers : row.id = line.header
    BY DEF Sound, LinesSound, Ids
  <2>2. line \in LinesOf(t, "header", row.id)
    BY <2>1 DEF LinesOf
  <2>3. row \in left
    BY <2>2
  <2> HIDE DEF left
  <2> QED BY <2>1, <2>3 DEF Ids
<1> HIDE DEF left
<1>4. HasTables(new, t.items, t.aliases, t.quotations, left, t.lines, t.lastId)
  BY <1>1, <1>2, TableSet
<1>5. HeadersSound(left, t.lastId) /\ Guarded(left, released)
  BY <1>1 DEF Sound, HeadersSound, Guarded
<1>6. LinesSound(t.items, t.quotations, left, t.lines, t.lastId)
  BY <1>3 DEF Sound, LinesSound
<1>7. QED
  BY <1>1, <1>4, <1>5, <1>6 DEF HasTables, Sound

\* Likewise for quotations.
LEMMA QuotationsOrphaned ==
  ASSUME NEW t \in TableRecord, Sound(t), NEW ids,
         NEW new, new = WithoutOrphans(t, "quotations", "quotation", ids)
  PROVE  /\ new \in TableRecord /\ Sound(new) /\ new.headers = t.headers
         /\ new.lastId = t.lastId
<1> DEFINE left == { row \in t.quotations :
                       row.id \in ids => LinesOf(t, "quotation", row.id) # {} }
<1>1. left \in SUBSET t.quotations /\ left \in SUBSET QuotationRecord
  BY DEF TableRecord
<1>2. new = [t EXCEPT !.quotations = left]
  BY DEF WithoutOrphans, TableRecord
<1>3. \A line \in t.lines : line.quotation \in Ids(left)
  <2> SUFFICES ASSUME NEW line \in t.lines PROVE line.quotation \in Ids(left)
    OBVIOUS
  <2>1. PICK row \in t.quotations : row.id = line.quotation
    BY DEF Sound, LinesSound, Ids
  <2>2. line \in LinesOf(t, "quotation", row.id)
    BY <2>1 DEF LinesOf
  <2>3. row \in left
    BY <2>2
  <2> HIDE DEF left
  <2> QED BY <2>1, <2>3 DEF Ids
<1> HIDE DEF left
<1>4. HasTables(new, t.items, t.aliases, left, t.headers, t.lines, t.lastId)
  BY <1>1, <1>2, TableSet
<1>5. QuotationsSound(left, t.lastId)
  BY <1>1 DEF Sound, QuotationsSound
<1>6. LinesSound(t.items, left, t.headers, t.lines, t.lastId)
  BY <1>3 DEF Sound, LinesSound
<1>7. QED
  BY <1>4, <1>5, <1>6 DEF HasTables, Sound

-----------------------------------------------------------------------------
(* One lemma for each action.                                              *)

\* The jobs after one more: what they did to the tables has not changed.
LEMMA NotedJobs ==
  ASSUME jobs \in Seq(JobRecord), NEW again, NEW new \in JobRecord,
         NEW noted, noted = Noted(again, new)
  PROVE  /\ noted \in Seq(JobRecord) /\ Len(noted) = Len(jobs) + 1
         /\ noted[Len(jobs) + 1] = new
         /\ \A j \in DOMAIN jobs : /\ noted[j].effects = jobs[j].effects
                                   /\ noted[j].kind = jobs[j].kind
                                   /\ noted[j].file = jobs[j].file
                                   /\ noted[j].was = jobs[j].was
                                   /\ noted[j].undone = jobs[j].undone
                                   /\ noted[j].checked = jobs[j].checked
<1> DEFINE old == [j \in DOMAIN jobs |-> IF j = again THEN [jobs[j] EXCEPT !.redo = Len(jobs) + 1]
                                         ELSE jobs[j]]
<1>1. ASSUME NEW j \in DOMAIN jobs
      PROVE  /\ old[j] \in JobRecord /\ old[j].effects = jobs[j].effects
             /\ old[j].kind = jobs[j].kind /\ old[j].file = jobs[j].file
             /\ old[j].was = jobs[j].was /\ old[j].undone = jobs[j].undone
             /\ old[j].checked = jobs[j].checked
  <2>1. jobs[j] \in JobRecord /\ Len(jobs) + 1 \in Nat
    OBVIOUS
  <2>2. /\ [jobs[j] EXCEPT !.redo = Len(jobs) + 1] \in JobRecord
        /\ [jobs[j] EXCEPT !.redo = Len(jobs) + 1].effects = jobs[j].effects
        /\ [jobs[j] EXCEPT !.redo = Len(jobs) + 1].kind = jobs[j].kind
        /\ [jobs[j] EXCEPT !.redo = Len(jobs) + 1].file = jobs[j].file
        /\ [jobs[j] EXCEPT !.redo = Len(jobs) + 1].was = jobs[j].was
        /\ [jobs[j] EXCEPT !.redo = Len(jobs) + 1].undone = jobs[j].undone
        /\ [jobs[j] EXCEPT !.redo = Len(jobs) + 1].checked = jobs[j].checked
    BY <2>1 DEF JobRecord
  <2> QED BY <2>1, <2>2
<1>2. noted = Append(old, new)
  BY DEF Noted
<1>3. DOMAIN old = 1 .. Len(jobs) /\ Len(jobs) \in Nat
  OBVIOUS
<1>4. old \in Seq(JobRecord) /\ Len(old) = Len(jobs)
  <2>1. \A j \in 1 .. Len(jobs) : old[j] \in JobRecord
    BY <1>1
  <2> HIDE DEF old
  <2>2. old = [j \in 1 .. Len(jobs) |-> old[j]]
    BY <1>3 DEF old
  <2>3. old \in [1 .. Len(jobs) -> JobRecord]
    BY <2>1, <2>2
  <2>4. old \in Seq(JobRecord)
    BY <1>3, <2>3
  <2> QED BY <1>3, <2>4
<1> HIDE DEF old
<1>5. QED
  BY <1>1, <1>2, <1>3, <1>4

\* A job is noted with what it did: its lines are on headers that are new, or free of
\* the jobs that were done when it looked.
LEMMA JobAdded ==
  ASSUME ImportInv, NEW db, tables' = Kept(db), NEW kind \in {"items", "orders"}, NEW free,
         Fit(db, tables.lastId, history'.released, free, TablesOf(kind)),
         NEW file \in ItemFile \cup OrderFile,
         IF kind = "items" THEN file \in ItemFile ELSE file \in OrderFile,
         NEW checked \in 0 .. Len(jobs),
         NEW again, jobs' = Noted(again, Job(kind, file, checked, db.effects)),
         history' \in HistoryRecord, history.released \subseteq history'.released,
         history.renumbered \subseteq history'.renumbered,
         \A h \in free : UsedBefore(jobs, checked, h) => h \in Excused(history'),
         \/ importing' = importing
         \/ \E r \in Importer : importing' = [importing EXCEPT ![r] = NoImport]
  PROVE  ImportInv'
<1> DEFINE last == tables.lastId
           more == history'
           new  == Job(kind, file, checked, db.effects)
           N    == Len(jobs) + 1
<1>1. /\ tables \in TableRecord /\ last \in Nat /\ jobs \in Seq(JobRecord)
      /\ JobsSound(jobs, last) /\ ImportedOnceEver(jobs, history) /\ Len(jobs) \in Nat
      /\ ImportsFound(importing, tables.headers, history, jobs)
  BY ImportInvParts DEF ImportInv, JobsSound
<1> HIDE DEF more
<1>2. /\ db \in Works /\ Sound(db) /\ db.lastId \in Nat /\ last <= db.lastId
      /\ Guarded(db.headers, more.released) /\ EffectsSound(db.effects, db.lastId)
      /\ LinesFresh(db.effects, last, free) /\ db.effects \in Seq(Effect)
      /\ Tells(db, tables, TablesOf(kind)) /\ SameNumbers(db.headers, tables.headers, last, {})
  <2>1. Fit(db, last, more.released, free, TablesOf(kind))
    BY DEF more
  <2> QED BY <1>1, <2>1, FitParts DEF Fit
<1>3. /\ tables' \in TableRecord /\ Sound(tables') /\ tables'.headers = db.headers
      /\ tables'.lastId = db.lastId
  BY <1>2, KeptSound
<1>4. /\ new \in JobRecord /\ new.effects = db.effects /\ new.kind = kind /\ new.file = file
      /\ new.was = tables /\ new.checked = checked /\ checked \in Nat /\ checked <= Len(jobs)
  BY <1>1, <1>2 DEF Job, JobRecord
<1>5. /\ jobs' \in Seq(JobRecord) /\ Len(jobs') = N /\ jobs'[N] = new
      /\ \A j \in DOMAIN jobs : /\ jobs'[j].effects = jobs[j].effects
                                /\ jobs'[j].kind = jobs[j].kind /\ jobs'[j].file = jobs[j].file
                                /\ jobs'[j].was = jobs[j].was
                                /\ jobs'[j].checked = jobs[j].checked
  <2>1. jobs' = Noted(again, new)
    OBVIOUS
  <2> HIDE DEF new
  <2> QED BY <1>1, <1>4, <2>1, NotedJobs
<1>6. /\ DOMAIN jobs' = DOMAIN jobs \cup {N} /\ N \notin DOMAIN jobs
      /\ checked < N /\ Len(jobs) <= Len(jobs')
      /\ \A j \in DOMAIN jobs : j \in Nat /\ jobs[j].checked \in Nat /\ ~(N < j)
  <2>1. DOMAIN jobs = 1 .. Len(jobs) /\ Len(jobs) \in Nat
    BY <1>1
  <2>2. DOMAIN jobs' = 1 .. (Len(jobs) + 1) /\ Len(jobs') = Len(jobs) + 1
    BY <1>5
  <2>3. \A j \in DOMAIN jobs : jobs[j].checked \in Nat
    <3>1. \A j \in DOMAIN jobs : jobs[j] \in JobRecord
      BY <1>1
    <3> QED BY <3>1 DEF JobRecord
  <2> QED BY <1>4, <2>1, <2>2, <2>3
<1>a. \A j \in DOMAIN jobs : \A h : LinesOn(jobs'[j], h) = LinesOn(jobs[j], h)
  BY <1>5 DEF LinesOn
<1>b. ImportsFound(importing', db.headers, more, jobs')
  <2>1. SameNumbers(db.headers, tables.headers, last, more.renumbered)
    BY <1>2, NumbersStay
  <2>2. JobsGrow(jobs, jobs') /\ MoreExcused(history, more) /\ Ended(importing, importing')
    BY <1>5, <1>6, <1>a DEF JobsGrow, MoreExcused, Ended, more
  <2> HIDE DEF last, new
  <2> QED BY <1>1, <2>1, <2>2, ImportsStay
<1>c. N \in Nat
  BY <1>1
<1> HIDE DEF new, N
<1>7. JobsSound(jobs, db.lastId)
  BY <1>1, <1>2, JobsLater
<1>8. JobsSound(jobs', db.lastId)
  <2> SUFFICES ASSUME NEW j \in DOMAIN jobs'
               PROVE  /\ FileOfKind(jobs'[j]) /\ JobTells(jobs'[j]) /\ jobs'[j].checked < j
                      /\ EffectsSound(jobs'[j].effects, db.lastId)
    BY <1>5 DEF JobsSound
  <2>1. CASE j = N
    BY <1>2, <1>4, <1>5, <1>6, <2>1 DEF FileOfKind, JobTells, Tells
  <2>2. CASE j \in DOMAIN jobs
    BY <1>5, <1>7, <2>2 DEF JobsSound, FileOfKind, JobTells
  <2> QED BY <1>6, <2>1, <2>2
<1>9. ImportedOnceEver(jobs', more)
  <2>1. ImportedOnceEver(jobs, more)
    BY <1>1, OnceLater DEF more
  <2>2. ASSUME NEW i \in DOMAIN jobs', i <= checked, NEW h, LinesOn(jobs'[i], h) # {},
               LinesOn(jobs'[N], h) # {}
        PROVE  h \in Excused(more)
    <3>1. i \in DOMAIN jobs
      BY <1>4, <1>6, <1>c, <2>2
    <3>2. LinesOn(jobs[i], h) # {}
      BY <1>a, <2>2, <3>1
    <3>3. h \in 1 .. last
      BY <1>1, <3>1, <3>2, UsedIds
    <3>4. PICK n \in DOMAIN db.effects :
            db.effects[n].table = "lines" /\ db.effects[n].after.header = h
      BY <1>4, <1>5, <2>2 DEF LinesOn
    <3>5. h > last \/ h \in free
      BY <1>2, <3>4 DEF LinesFresh
    <3>6. h \in free
      BY <1>1, <3>3, <3>5
    <3>7. UsedBefore(jobs, checked, h)
      BY <2>2, <3>1, <3>2 DEF UsedBefore
    <3> QED BY <3>6, <3>7 DEF more
  <2>3. ASSUME NEW i \in DOMAIN jobs', NEW j \in DOMAIN jobs', NEW h, i <= jobs'[j].checked,
               LinesOn(jobs'[i], h) # {}, LinesOn(jobs'[j], h) # {}
        PROVE  h \in Excused(more)
    <3>1. CASE j = N
      BY <1>4, <1>5, <2>2, <2>3, <3>1
    <3>2. CASE j \in DOMAIN jobs /\ i = N
      <4>1. jobs[j].checked < j
        BY <1>1, <3>2 DEF JobsSound
      <4>2. N <= jobs[j].checked
        BY <1>5, <2>3, <3>2
      <4> QED BY <1>6, <1>c, <3>2, <4>1, <4>2
    <3>3. CASE i \in DOMAIN jobs /\ j \in DOMAIN jobs
      BY <1>5, <1>a, <2>1, <2>3, <3>3 DEF ImportedOnceEver
    <3> QED BY <1>6, <3>1, <3>2, <3>3
  <2> QED BY <2>3 DEF ImportedOnceEver
<1>10. QED
  BY <1>2, <1>3, <1>8, <1>9, <1>b DEF ImportInv, more

\* Importing items, or redoing an import.
LEMMA RunItemsKeeps ==
  ASSUME ImportInv, ImportsAssumption, NEW file \in ItemFile, NEW again, RunItems(file, again)
  PROVE  ImportInv'
<1> DEFINE db == ItemsImported(tables, file)
           free == {}
<1>1. file.rows \in Seq(ItemFileRow) /\ MaxNote \in Nat
  BY DEF ImportsAssumption
<1>2. /\ Sound(tables) /\ tables.lastId \in Nat /\ Guarded(tables.headers, history.released)
      /\ history \in HistoryRecord /\ Len(jobs) \in 0 .. Len(jobs)
  BY ImportInvParts
<1>3. Fit(Emptied(tables), tables.lastId, history.released, free, CatalogTables)
  <2>1. LikeBefore(tables, tables)
    BY DEF LikeBefore, SameButForLocks
  <2>2. SameNumbers(tables.headers, tables.headers, tables.lastId, {})
    BY NumbersStay
  <2> HIDE DEF free
  <2> QED BY <1>2, <2>1, <2>2, EmptiedFits
<1>4. Fit(db, tables.lastId, history.released, free, CatalogTables)
  BY <1>1, <1>2, <1>3, ItemsImportedFits DEF CatalogTables
<1>5. /\ tables' = Kept(db) /\ jobs' = Noted(again, Job("items", file, Len(jobs), db.effects))
      /\ history' = history /\ importing' = importing
  BY DEF RunItems
<1>6. \A h \in free : UsedBefore(jobs, Len(jobs), h) => h \in Excused(history')
  OBVIOUS
<1> HIDE DEF db, free
<1>7. /\ history' \in HistoryRecord /\ history.released \subseteq history'.released
      /\ history.renumbered \subseteq history'.renumbered
      /\ Fit(db, tables.lastId, history'.released, free, CatalogTables)
  BY <1>2, <1>4, <1>5
<1> DEFINE kind == "items"
           checked == Len(jobs)
<1>8. /\ kind \in {"items", "orders"} /\ file \in ItemFile \cup OrderFile
      /\ IF kind = "items" THEN file \in ItemFile ELSE file \in OrderFile
      /\ jobs' = Noted(again, Job(kind, file, checked, db.effects))
      /\ TablesOf(kind) = CatalogTables /\ checked \in 0 .. Len(jobs)
      /\ \A h \in free : UsedBefore(jobs, checked, h) => h \in Excused(history')
  BY <1>2, <1>5, <1>6 DEF TablesOf
<1> HIDE DEF kind, checked
<1>9. QED
  BY <1>5, <1>7, <1>8, JobAdded

\* A file with a row that no item is found for is noted as a job that did nothing.
LEMMA ReportMissingKeeps ==
  ASSUME ImportInv, NEW file \in OrderFile, NEW again, ReportMissing(file, again)
  PROVE  ImportInv'
<1> DEFINE db == Emptied(tables)
           free == {}
<1>1. /\ tables \in TableRecord /\ Sound(tables) /\ tables.lastId \in Nat
      /\ Guarded(tables.headers, history.released)
      /\ history \in HistoryRecord /\ Len(jobs) \in 0 .. Len(jobs)
  BY ImportInvParts
<1>2. /\ jobs' = Noted(again, Job("orders", file, Len(jobs), <<>>))
      /\ tables' = tables /\ history' = history /\ importing' = importing
  BY DEF ReportMissing
<1>3. /\ db.items = tables.items /\ db.aliases = tables.aliases
      /\ db.quotations = tables.quotations /\ db.headers = tables.headers
      /\ db.lines = tables.lines /\ db.lastId = tables.lastId /\ db.effects = <<>>
  BY <1>1, EmptiedParts
<1>4. Fit(db, tables.lastId, history.released, free, OrderTables)
  <2>1. LikeBefore(tables, tables)
    BY DEF LikeBefore, SameButForLocks
  <2>2. SameNumbers(tables.headers, tables.headers, tables.lastId, {})
    BY NumbersStay
  <2> HIDE DEF free
  <2> QED BY <1>1, <2>1, <2>2, EmptiedFits
<1>5. \A h \in free : UsedBefore(jobs, Len(jobs), h) => h \in Excused(history')
  OBVIOUS
<1> HIDE DEF db, free
<1>6. tables' = Kept(db)
  BY <1>1, <1>2, <1>3 DEF Kept, TableRecord
<1>7. /\ history' \in HistoryRecord /\ history.released \subseteq history'.released
      /\ history.renumbered \subseteq history'.renumbered
      /\ Fit(db, tables.lastId, history'.released, free, OrderTables)
  BY <1>1, <1>2, <1>4
<1> DEFINE kind == "orders"
           checked == Len(jobs)
<1>8. /\ kind \in {"items", "orders"} /\ file \in ItemFile \cup OrderFile
      /\ IF kind = "items" THEN file \in ItemFile ELSE file \in OrderFile
      /\ jobs' = Noted(again, Job(kind, file, checked, db.effects))
      /\ TablesOf(kind) = OrderTables /\ checked \in 0 .. Len(jobs)
      /\ \A h \in free : UsedBefore(jobs, checked, h) => h \in Excused(history')
  BY <1>1, <1>2, <1>3, <1>5 DEF TablesOf
<1> HIDE DEF kind, checked
<1>9. QED
  BY <1>2, <1>6, <1>7, <1>8, JobAdded

\* The check finds headers that are not locked, or unlocks them.
LEMMA CheckOrdersKeeps ==
  ASSUME ImportInv, ImportsAssumption, NEW r \in Importer, NEW file \in OrderFile, NEW again,
         CheckOrders(r, file, again)
  PROVE  ImportInv'
<1> DEFINE import == Checked(file, again)
<1>1. /\ tables' = tables /\ history' = history /\ jobs' = jobs
      /\ importing' = [importing EXCEPT ![r] = import]
      /\ OverridesExist(tables, file) /\ ~Missing(tables, file) /\ ~Locked(tables, file)
  BY DEF CheckOrders
<1>2. /\ tables \in TableRecord /\ Sound(tables) /\ Guarded(tables.headers, history.released)
      /\ ItemsSound(tables.items, tables.lastId) /\ jobs \in Seq(JobRecord)
      /\ file.rows \in Seq(OrderFileRow)
      /\ ImportsFound(importing, tables.headers, history, jobs)
  BY ImportInvParts DEF ImportInv, ImportsAssumption
<1>3. /\ import.file = file /\ import.checked = Len(jobs)
      /\ import.opens = { row \in tables.headers : row.number \in file.unlock }
      /\ \A n \in DOMAIN file.rows :
           import.matches[n] = TheRow(Overridden(tables, file.rows[n]))
  BY DEF Checked
<1> HIDE DEF import
<1>4. ASSUME NEW n \in DOMAIN file.rows
      PROVE  /\ import.matches[n].units \in Nat
             /\ file.rows[n].save # 0 => import.matches[n].item = file.rows[n].override
  <2> DEFINE row == file.rows[n]
  <2>1. row \in OrderFileRow
    BY <1>2
  <2>2. /\ row.override # 0 => WithId(tables.items, row.override) # NoRow
        /\ row.save # 0 => WithId(tables.items, row.override) # NoRow
        /\ Overridden(tables, row) # {}
    BY <1>1 DEF OverridesExist, Missing
  <2> HIDE DEF row
  <2>3. TheRow(Overridden(tables, row)).units \in Nat
    BY <1>2, <2>1, <2>2, OverriddenMatches
  <2>4. row.save # 0 => row.override # 0
    <3>1. \A i \in tables.items : i.id # 0
      BY <1>2 DEF ItemsSound
    <3> QED BY <2>2, <3>1 DEF WithId, NoRow
  <2>5. ASSUME row.override # 0 PROVE TheRow(Overridden(tables, row)).item = row.override
    <3>1. PICK units : Overridden(tables, row) = { [item |-> row.override, units |-> units] }
      BY <2>5 DEF Overridden
    <3>2. TheRow(Overridden(tables, row)) = [item |-> row.override, units |-> units]
      BY <3>1 DEF TheRow
    <3> QED BY <3>2
  <2> QED BY <1>3, <2>3, <2>4, <2>5 DEF row
<1>5. FoundSound(import, jobs)
  <2>1. Len(jobs) \in 0 .. Len(jobs)
    BY <1>2
  <2>2. import.opens \subseteq HeaderRecord
    BY <1>2, <1>3 DEF TableRecord
  <2> QED BY <1>3, <1>4, <2>1, <2>2 DEF FoundSound
<1>6. FoundFree(import, tables.headers, history, jobs)
  <2> SUFFICES ASSUME NEW h \in tables.headers, h.number \in NumbersOf(file)
               PROVE  h.id \in history.released \cup Ids(import.opens)
    BY <1>3 DEF FoundFree
  <2>1. CASE h.number \in file.unlock
    BY <1>3, <2>1 DEF Ids
  <2>2. CASE h.number \notin file.unlock
    BY <1>1, <1>2, <2>2 DEF Locked, Guarded
  <2> QED BY <2>1, <2>2
<1>7. ImportsFound(importing', tables.headers, history, jobs)
  <2>1. DOMAIN importing' = Importer
    BY <1>1, <1>2 DEF ImportsFound
  <2>2. ASSUME NEW q \in Importer, importing'[q] # NoImport
        PROVE  /\ FoundSound(importing'[q], jobs)
               /\ FoundFree(importing'[q], tables.headers, history, jobs)
    <3>1. CASE q = r
      <4>1. importing'[q] = import
        BY <1>1, <1>2, <3>1 DEF ImportsFound
      <4> QED BY <1>5, <1>6, <4>1
    <3>2. CASE q # r
      <4>1. importing'[q] = importing[q]
        BY <1>1, <1>2, <3>2 DEF ImportsFound
      <4> QED BY <1>2, <2>2, <4>1 DEF ImportsFound
    <3> QED BY <3>1, <3>2
  <2> QED BY <2>1, <2>2 DEF ImportsFound
<1>8. QED
  BY <1>1, <1>7 DEF ImportInv

\* An import that is dropped changes nothing.
LEMMA DropOrdersKeeps ==
  ASSUME ImportInv, NEW r \in Importer, DropOrders(r)
  PROVE  ImportInv'
<1>1. /\ tables' = tables /\ history' = history /\ jobs' = jobs
      /\ importing' = [importing EXCEPT ![r] = NoImport]
  BY DEF DropOrders
<1>2. ImportsFound(importing, tables.headers, history, jobs)
  BY DEF ImportInv
<1>3. ImportsFound(importing', tables.headers, history, jobs)
  BY <1>1, <1>2 DEF ImportsFound
<1>4. QED
  BY <1>1, <1>3 DEF ImportInv

\* An import stores its lines on headers that are new, that no job had used when it
\* looked, or that were released or got another number.
LEMMA StoreOrdersKeeps ==
  ASSUME ImportInv, ImportsAssumption, NEW r \in Importer, StoreOrders(r)
  PROVE  ImportInv'
<1> DEFINE import == importing[r]
           file  == import.file
           matches == import.matches
           items == Ids(tables.items)
           db    == OrdersImported(tables, import)
           more  == history.released \cup { row.id : row \in import.opens }
           free  == { h \in Nat : UsedBefore(jobs, import.checked, h) => h \in Excused(history') }
<1>1. /\ import # NoImport /\ ItemsThere(tables, import) /\ tables' = Kept(db)
      /\ jobs' = Noted(import.job, Job("orders", file, import.checked, db.effects))
      /\ history' = [history EXCEPT !.released = more]
      /\ importing' = [importing EXCEPT ![r] = NoImport]
  BY DEF StoreOrders
<1>2. /\ tables \in TableRecord /\ Sound(tables) /\ tables.lastId \in Nat
      /\ HeadersSound(tables.headers, tables.lastId)
      /\ Guarded(tables.headers, history.released)
      /\ history \in HistoryRecord /\ history.released \in SUBSET Nat
      /\ history.renumbered \in SUBSET Nat
  BY ImportInvParts
<1>3. FoundSound(import, jobs) /\ FoundFree(import, tables.headers, history, jobs)
  BY <1>1 DEF ImportInv, ImportsFound
<1> HIDE DEF import
<1>4. /\ file \in OrderFile /\ file.rows \in Seq(OrderFileRow) /\ MaxUrl \in Nat
      /\ import.checked \in 0 .. Len(jobs) /\ import.opens \subseteq HeaderRecord
  BY <1>3 DEF ImportsAssumption, FoundSound
<1>5. \A n \in DOMAIN file.rows :
        /\ matches[n].item \in items /\ matches[n].units \in Nat
        /\ file.rows[n].save # 0 => file.rows[n].override \in items
  <2>1. ASSUME NEW n \in DOMAIN file.rows PROVE matches[n].item \in items
    BY <1>1, <2>1 DEF ItemsThere, WithId, Ids, NoRow
  <2> QED BY <1>3, <2>1 DEF FoundSound
<1>6. /\ history.released \subseteq more /\ more \in SUBSET Nat
      /\ \A row \in import.opens : row.id \in more
      /\ Ids(import.opens) \subseteq more
  BY <1>2, <1>4 DEF HeaderRecord, Ids
<1>7. /\ history' \in HistoryRecord /\ history'.released = more
      /\ history'.renumbered = history.renumbered
  BY <1>1, <1>2, <1>6 DEF HistoryRecord
<1>8. ASSUME NEW h \in tables.headers, h.number \in NumbersOf(file) PROVE h.id \in free
  <2>1. h.id \in Nat
    BY <1>2 DEF HeadersSound, HeaderRecord
  <2>2. ASSUME UsedBefore(jobs, import.checked, h.id) PROVE h.id \in Excused(history')
    BY <1>3, <1>6, <1>7, <1>8, <2>2 DEF FoundFree, Excused
  <2> QED BY <2>1, <2>2
<1>9. \A h \in free : UsedBefore(jobs, import.checked, h) => h \in Excused(history')
  OBVIOUS
<1>10. file = import.file /\ matches = import.matches /\ items = Ids(tables.items)
  OBVIOUS
<1> HIDE DEF file, matches, items, more, free
<1>11. Fit(db, tables.lastId, more, free, OrderTables)
  BY <1>2, <1>4, <1>5, <1>6, <1>8, <1>10, OrdersImportedFits
<1> HIDE DEF db
<1>12. /\ history.released \subseteq history'.released
       /\ history.renumbered \subseteq history'.renumbered
       /\ Fit(db, tables.lastId, history'.released, free, OrderTables)
  BY <1>6, <1>7, <1>11
<1> DEFINE kind == "orders"
           checked == import.checked
           again == import.job
<1>13. /\ kind \in {"items", "orders"} /\ file \in ItemFile \cup OrderFile
       /\ IF kind = "items" THEN file \in ItemFile ELSE file \in OrderFile
       /\ jobs' = Noted(again, Job(kind, file, checked, db.effects))
       /\ TablesOf(kind) = OrderTables /\ checked \in 0 .. Len(jobs)
       /\ \A h \in free : UsedBefore(jobs, checked, h) => h \in Excused(history')
  BY <1>1, <1>4, <1>9, <1>10 DEF TablesOf
<1> HIDE DEF kind, checked, again
<1>14. QED
  BY <1>1, <1>7, <1>12, <1>13, JobAdded

\* An undone job stays what it was.
LEMMA UndoKeeps ==
  ASSUME ImportInv, NEW j \in DOMAIN jobs, NEW db,
         Reverting(db, tables.lastId, history.released), Undo(j, db)
  PROVE  ImportInv'
<1>1. /\ tables' = Kept(db) /\ jobs' = [jobs EXCEPT ![j].undone = TRUE] /\ history' = history
      /\ importing' = importing
  BY DEF Undo
<1>2. /\ tables \in TableRecord /\ tables.lastId \in Nat /\ jobs \in Seq(JobRecord)
      /\ JobsSound(jobs, tables.lastId)
      /\ ImportedOnceEver(jobs, history) /\ history \in HistoryRecord
      /\ ImportsFound(importing, tables.headers, history, jobs)
  BY ImportInvParts DEF ImportInv, JobsSound
<1>3. /\ Sound(db) /\ db.lastId = tables.lastId /\ Guarded(db.headers, history.released)
      /\ SameNumbers(db.headers, tables.headers, tables.lastId, {})
  BY DEF Reverting
<1>4. /\ tables' \in TableRecord /\ Sound(tables') /\ tables'.headers = db.headers
      /\ tables'.lastId = tables.lastId
  BY <1>1, <1>3, KeptSound
<1>5. ASSUME NEW i \in DOMAIN jobs
      PROVE  /\ jobs'[i] \in JobRecord /\ jobs'[i].effects = jobs[i].effects
             /\ jobs'[i].kind = jobs[i].kind /\ jobs'[i].file = jobs[i].file
             /\ jobs'[i].was = jobs[i].was /\ jobs'[i].checked = jobs[i].checked
  <2>1. jobs[i] \in JobRecord
    BY <1>2
  <2>2. /\ [jobs[i] EXCEPT !.undone = TRUE] \in JobRecord
        /\ [jobs[i] EXCEPT !.undone = TRUE].effects = jobs[i].effects
        /\ [jobs[i] EXCEPT !.undone = TRUE].kind = jobs[i].kind
        /\ [jobs[i] EXCEPT !.undone = TRUE].file = jobs[i].file
        /\ [jobs[i] EXCEPT !.undone = TRUE].was = jobs[i].was
        /\ [jobs[i] EXCEPT !.undone = TRUE].checked = jobs[i].checked
    BY <2>1 DEF JobRecord
  <2>3. jobs'[i] = IF i = j THEN [jobs[i] EXCEPT !.undone = TRUE] ELSE jobs[i]
    BY <1>1, <1>2
  <2> QED BY <2>1, <2>2, <2>3
<1>6. DOMAIN jobs' = DOMAIN jobs /\ jobs' \in Seq(JobRecord)
  <2>1. DOMAIN jobs' = DOMAIN jobs
    BY <1>1, <1>2
  <2>2. jobs' = [i \in 1 .. Len(jobs) |-> jobs'[i]] /\ Len(jobs) \in Nat
        /\ DOMAIN jobs = 1 .. Len(jobs)
    <3>1. Len(jobs) \in Nat /\ DOMAIN jobs = 1 .. Len(jobs)
      BY <1>2
    <3>2. jobs' = [i \in DOMAIN jobs |-> jobs'[i]]
      BY <1>1
    <3> QED BY <3>1, <3>2
  <2>3. jobs' \in [1 .. Len(jobs) -> JobRecord]
    BY <1>5, <2>2
  <2> QED BY <2>1, <2>2, <2>3
<1>7. JobsSound(jobs', tables.lastId)
  BY <1>2, <1>5, <1>6 DEF JobsSound, FileOfKind, JobTells
<1>8. \A i \in DOMAIN jobs : \A h : LinesOn(jobs'[i], h) = LinesOn(jobs[i], h)
  BY <1>5 DEF LinesOn
<1>9. ImportedOnceEver(jobs', history)
  BY <1>2, <1>5, <1>6, <1>8 DEF ImportedOnceEver
<1>10. ImportsFound(importing, db.headers, history, jobs')
  <2>1. SameNumbers(db.headers, tables.headers, tables.lastId, history.renumbered)
    BY <1>3, NumbersStay
  <2>2. JobsGrow(jobs, jobs') /\ MoreExcused(history, history) /\ Ended(importing, importing)
    BY <1>2, <1>6, <1>8 DEF JobsGrow, MoreExcused, Ended
  <2> QED BY <1>2, <2>1, <2>2, ImportsStay
<1>11. QED
  BY <1>1, <1>2, <1>3, <1>4, <1>7, <1>9, <1>10 DEF ImportInv

\* Undoing keeps the invariant, whichever kind of job it is.
LEMMA UndoItemsJobKeeps ==
  ASSUME ImportInv, NEW j \in DOMAIN jobs, UndoItemsJob(j)
  PROVE  ImportInv'
<1>1. /\ Sound(tables) /\ Guarded(tables.headers, history.released)
      /\ jobs[j].effects \in Seq(Effect)
      /\ EffectsSound(jobs[j].effects, tables.lastId)
  <2>1. JobsSound(jobs, tables.lastId)
    BY DEF ImportInv
  <2>2. jobs[j] \in JobRecord
    BY <2>1 DEF JobsSound
  <2>3. jobs[j].effects \in Seq(Effect)
    BY <2>2 DEF JobRecord
  <2> QED BY <2>1, <2>3 DEF ImportInv, JobsSound
<1>2. Reverting(ItemsReverted(tables, jobs[j].effects), tables.lastId, history.released)
  BY <1>1, ItemsRevertedFits
<1>3. QED
  BY <1>2, UndoKeeps DEF UndoItemsJob

\* The same for a job of orders.
LEMMA UndoOrdersJobKeeps ==
  ASSUME ImportInv, NEW j \in DOMAIN jobs, UndoOrdersJob(j)
  PROVE  ImportInv'
<1>1. /\ Sound(tables) /\ Guarded(tables.headers, history.released)
      /\ jobs[j].effects \in Seq(Effect)
      /\ EffectsSound(jobs[j].effects, tables.lastId)
  <2>1. JobsSound(jobs, tables.lastId)
    BY DEF ImportInv
  <2>2. jobs[j] \in JobRecord
    BY <2>1 DEF JobsSound
  <2>3. jobs[j].effects \in Seq(Effect)
    BY <2>2 DEF JobRecord
  <2> QED BY <2>1, <2>3 DEF ImportInv, JobsSound
<1>2. Reverting(OrdersReverted(tables, jobs[j].effects), tables.lastId, history.released)
  BY <1>1, OrdersRevertedFits
<1>3. QED
  BY <1>2, UndoKeeps DEF UndoOrdersJob

\* A job is redone with the file it was noted with.
LEMMA RedoKeeps ==
  ASSUME ImportInv, ImportsAssumption, NEW j \in DOMAIN jobs
  PROVE  /\ RedoItemsJob(j) => ImportInv'
         /\ \A r \in Importer : RedoOrdersJob(r, j) => ImportInv'
<1>1. FileOfKind(jobs[j])
  BY DEF ImportInv, JobsSound
<1>2. ASSUME RedoItemsJob(j) PROVE ImportInv'
  <2>1. jobs[j].file \in ItemFile /\ RunItems(jobs[j].file, j)
    BY <1>1, <1>2 DEF RedoItemsJob, FileOfKind
  <2> QED BY <2>1, RunItemsKeeps
<1>3. ASSUME NEW r \in Importer, RedoOrdersJob(r, j) PROVE ImportInv'
  <2>1. /\ jobs[j].file \in OrderFile
        /\ ReportMissing(jobs[j].file, j) \/ CheckOrders(r, jobs[j].file, j)
    BY <1>1, <1>3 DEF RedoOrdersJob, FileOfKind
  <2> QED BY <2>1, ReportMissingKeeps, CheckOrdersKeeps
<1>4. QED
  BY <1>2, <1>3

\* A call that changes no header, and releases and renumbers none.
LEMMA PlainCallKeeps ==
  ASSUME ImportInv, NEW db, Call(db), Sound(db), tables.lastId <= db.lastId,
         db.headers \subseteq tables.headers, history' \in HistoryRecord,
         history'.released = history.released, history'.renumbered = history.renumbered
  PROVE  ImportInv'
<1>1. Guarded(db.headers, history'.released)
  BY ImportInvParts DEF Guarded
<1>2. SameNumbers(db.headers, tables.headers, tables.lastId, history'.renumbered)
  BY NumbersStay
<1>3. QED
  BY <1>1, <1>2, CallKeeps

\* A line may change if it keeps its item, quotation and header.
LEMMA LineChangeSound ==
  ASSUME ImportInv, NEW line \in tables.lines, NEW new \in LineRecord, new.id = line.id,
         new.item = line.item, new.quotation = line.quotation, new.header = line.header,
         NEW db, db = Replaced("lines", line, new)
  PROVE  Sound(db) /\ db.lastId = tables.lastId /\ db.headers \subseteq tables.headers
<1> DEFINE lines == (tables.lines \ {line}) \cup {new}
<1>1. db = [tables EXCEPT !.lines = lines]
  BY DEF Replaced
<1>2. LinesSound(tables.items, tables.quotations, tables.headers, lines, tables.lastId)
  <2>1. /\ line.item \in Ids(tables.items) /\ line.quotation \in Ids(tables.quotations)
        /\ line.header \in Ids(tables.headers)
    BY ImportInvParts DEF LinesSound
  <2> QED BY <2>1, ImportInvParts, LineChanged
<1>3. lines \in SUBSET LineRecord
  BY ImportInvParts DEF LinesSound
<1> HIDE DEF lines
<1>4. HasTables(db, tables.items, tables.aliases, tables.quotations, tables.headers, lines,
                tables.lastId)
  BY <1>1, <1>3, ImportInvParts, TableSet
<1>5. QED
  BY <1>2, <1>4, ImportInvParts DEF HasTables, Sound

\* A new date leaves the line where it is.
LEMMA EditLineKeeps ==
  ASSUME ImportInv, NEW line \in tables.lines, NEW eta \in 0 .. 1, EditLine(line, eta)
  PROVE  ImportInv'
<1> DEFINE new == [line EXCEPT !.eta = eta]
           db  == Replaced("lines", line, new)
<1>1. line \in LineRecord /\ line.id \in Nat
  BY ImportInvParts DEF TableRecord, LineRecord
<1>2. /\ new \in LineRecord /\ new.id = line.id /\ new.item = line.item
      /\ new.quotation = line.quotation /\ new.header = line.header
  BY <1>1 DEF LineRecord
<1>3. Call(db) /\ history' = [history EXCEPT !.lineage = @ \cup {line.id}]
  BY DEF EditLine
<1>4. /\ history' \in HistoryRecord /\ history'.released = history.released
      /\ history'.renumbered = history.renumbered
  BY <1>1, <1>3, ImportInvParts DEF HistoryRecord
<1>5. db = Replaced("lines", line, new)
  OBVIOUS
<1> HIDE DEF new, db
<1>6. Sound(db) /\ db.lastId = tables.lastId /\ db.headers \subseteq tables.headers
  BY <1>2, <1>5, LineChangeSound
<1>7. tables.lastId <= db.lastId
  BY <1>6, ImportInvParts
<1>8. QED
  BY <1>3, <1>4, <1>6, <1>7, ImportInvParts, PlainCallKeeps

\* So does its arrival.
LEMMA ReceiveLineKeeps ==
  ASSUME ImportInv, NEW line \in tables.lines, ReceiveLine(line)
  PROVE  ImportInv'
<1> DEFINE new == [line EXCEPT !.status = "Arrived"]
           db  == Replaced("lines", line, new)
<1>1. line \in LineRecord
  BY ImportInvParts DEF TableRecord
<1>2. /\ new \in LineRecord /\ new.id = line.id /\ new.item = line.item
      /\ new.quotation = line.quotation /\ new.header = line.header
  BY <1>1 DEF LineRecord
<1>3. Call(db) /\ history' = history
  BY DEF ReceiveLine
<1>4. /\ history' \in HistoryRecord /\ history'.released = history.released
      /\ history'.renumbered = history.renumbered
  BY <1>3, ImportInvParts
<1>5. db = Replaced("lines", line, new)
  OBVIOUS
<1> HIDE DEF new, db
<1>6. Sound(db) /\ db.lastId = tables.lastId /\ db.headers \subseteq tables.headers
  BY <1>2, <1>5, LineChangeSound
<1>7. tables.lastId <= db.lastId
  BY <1>6, ImportInvParts
<1>8. QED
  BY <1>3, <1>4, <1>6, <1>7, ImportInvParts, PlainCallKeeps

\* A link changes no table.
LEMMA LinkLineKeeps ==
  ASSUME ImportInv, NEW line \in tables.lines, LinkLine(line)
  PROVE  ImportInv'
<1>1. line.id \in Nat
  BY ImportInvParts DEF TableRecord, LineRecord
<1>2. Call(tables)
  BY DEF LinkLine
<1>3. /\ history' \in HistoryRecord /\ history'.released = history.released
      /\ history'.renumbered = history.renumbered
  BY <1>1, ImportInvParts DEF LinkLine, HistoryRecord
<1>4. tables.lastId <= tables.lastId /\ tables.headers \subseteq tables.headers
  BY ImportInvParts
<1>5. QED
  BY <1>2, <1>3, <1>4, ImportInvParts, PlainCallKeeps

\* Lines go, and with them the headers and quotations that were theirs alone, and what
\* else has no line left.
LEMMA DeletedSound ==
  ASSUME ImportInv, NEW t \in TableRecord, t.items = tables.items, t.aliases = tables.aliases,
         t.lines = tables.lines, t.lastId = tables.lastId,
         t.quotations \subseteq tables.quotations, t.headers \subseteq tables.headers,
         NEW gone,
         \A line \in t.lines \ gone : /\ line.quotation \in Ids(t.quotations)
                                      /\ line.header \in Ids(t.headers),
         NEW db, db = Deleted(t, gone)
  PROVE  Sound(db) /\ db.lastId = tables.lastId /\ db.headers \subseteq tables.headers
<1> DEFINE left == t.lines \ gone
           rest == [t EXCEPT !.lines = left]
           headed == WithoutOrphans(rest, "headers", "header", { l.header : l \in gone })
<1>1. db = WithoutOrphans(headed, "quotations", "quotation", { l.quotation : l \in gone })
  BY DEF Deleted
<1>2. /\ left \in SUBSET LineRecord /\ left \in SUBSET tables.lines
      /\ \A line \in left : /\ line.quotation \in Ids(t.quotations)
                            /\ line.header \in Ids(t.headers)
  BY ImportInvParts DEF TableRecord
<1> HIDE DEF left
<1>3. HasTables(rest, t.items, t.aliases, t.quotations, t.headers, left, t.lastId)
  BY <1>2, TableSet
<1>4. LinesSound(t.items, t.quotations, t.headers, left, t.lastId)
  BY <1>2, ImportInvParts DEF LinesSound
<1>5. /\ ItemsSound(t.items, t.lastId) /\ AliasesSound(t.items, t.aliases, t.lastId)
      /\ QuotationsSound(t.quotations, t.lastId) /\ HeadersSound(t.headers, t.lastId)
      /\ Guarded(t.headers, history.released) /\ t.lastId \in Nat
  BY ImportInvParts DEF QuotationsSound, HeadersSound, Guarded
<1> HIDE DEF rest
<1>6. rest \in TableRecord /\ Sound(rest) /\ Guarded(rest.headers, history.released)
      /\ rest.lastId = tables.lastId /\ rest.headers \subseteq tables.headers
  BY <1>3, <1>4, <1>5 DEF HasTables, Sound
<1>7. headed = WithoutOrphans(rest, "headers", "header", { l.header : l \in gone })
  OBVIOUS
<1> HIDE DEF headed
<1>8. /\ headed \in TableRecord /\ Sound(headed) /\ Guarded(headed.headers, history.released)
      /\ headed.lastId = rest.lastId /\ headed.headers \subseteq rest.headers
  BY <1>6, <1>7, HeadersOrphaned
<1>9. headed.headers \subseteq tables.headers /\ headed.lastId = tables.lastId
  BY <1>6, <1>8
<1>10. QED
  BY <1>1, <1>8, <1>9, QuotationsOrphaned

\* What no line is on may be deleted with the lines that are.
LEMMA DeleteLinesKeeps ==
  ASSUME ImportInv, NEW t \in TableRecord, t.items = tables.items, t.aliases = tables.aliases,
         t.lines = tables.lines, t.lastId = tables.lastId,
         t.quotations \subseteq tables.quotations, t.headers \subseteq tables.headers,
         NEW gone,
         \A line \in t.lines \ gone : /\ line.quotation \in Ids(t.quotations)
                                      /\ line.header \in Ids(t.headers),
         DeleteLines(t, gone)
  PROVE  ImportInv'
<1> DEFINE db == Deleted(t, gone)
<1>1. Call(db) /\ db = Deleted(t, gone)
  BY DEF DeleteLines
<1>2. /\ history' \in HistoryRecord /\ history'.released = history.released
      /\ history'.renumbered = history.renumbered
  BY ImportInvParts DEF DeleteLines, HistoryRecord
<1> HIDE DEF db
<1>3. Sound(db) /\ db.lastId = tables.lastId /\ db.headers \subseteq tables.headers
  BY <1>1, DeletedSound
<1>4. tables.lastId <= db.lastId
  BY <1>3, ImportInvParts
<1>5. QED
  BY <1>1, <1>2, <1>3, <1>4, PlainCallKeeps

\* The lines that stay have their quotations and headers.
LEMMA LinesThatStay ==
  ASSUME ImportInv
  PROVE  \A line \in tables.lines : /\ line.quotation \in Ids(tables.quotations)
                                     /\ line.header \in Ids(tables.headers)
BY ImportInvParts DEF LinesSound

\* Deleting one order line, a quotation with its lines, or a purchase order with its.
LEMMA DeleteOrderKeeps ==
  ASSUME ImportInv, NEW line \in tables.lines, DeleteOrder(line)
  PROVE  ImportInv'
<1>1. DeleteLines(tables, {line}) /\ tables \in TableRecord
  BY ImportInvParts DEF DeleteOrder
<1>2. QED
  BY <1>1, LinesThatStay, DeleteLinesKeeps

LEMMA DeleteQuotationKeeps ==
  ASSUME ImportInv, NEW quotation \in tables.quotations, DeleteQuotation(quotation)
  PROVE  ImportInv'
<1> DEFINE left == tables.quotations \ {quotation}
           t    == [tables EXCEPT !.quotations = left]
           gone == LinesOf(tables, "quotation", quotation.id)
<1>1. DeleteLines(t, gone)
  BY DEF DeleteQuotation
<1>2. left \in SUBSET QuotationRecord /\ left \subseteq tables.quotations
  BY ImportInvParts DEF TableRecord
<1>3. ASSUME NEW line \in tables.lines \ gone
      PROVE  line.quotation \in Ids(left) /\ line.header \in Ids(tables.headers)
  <2>1. line.quotation # quotation.id
    BY <1>3 DEF LinesOf
  <2> QED BY <1>3, <2>1, LinesThatStay DEF Ids
<1> HIDE DEF left, gone
<1>4. HasTables(t, tables.items, tables.aliases, left, tables.headers, tables.lines,
                tables.lastId)
  BY <1>2, ImportInvParts, TableSet
<1> HIDE DEF t
<1>5. QED
  BY <1>1, <1>2, <1>3, <1>4, DeleteLinesKeeps DEF HasTables

LEMMA DeletePurchaseOrderKeeps ==
  ASSUME ImportInv, NEW header \in tables.headers, DeletePurchaseOrder(header)
  PROVE  ImportInv'
<1> DEFINE left == tables.headers \ {header}
           t    == [tables EXCEPT !.headers = left]
           gone == LinesOf(tables, "header", header.id)
<1>1. DeleteLines(t, gone)
  BY DEF DeletePurchaseOrder
<1>2. left \in SUBSET HeaderRecord /\ left \subseteq tables.headers
  BY ImportInvParts DEF TableRecord
<1>3. ASSUME NEW line \in tables.lines \ gone
      PROVE  line.quotation \in Ids(tables.quotations) /\ line.header \in Ids(left)
  <2>1. line.header # header.id
    BY <1>3 DEF LinesOf
  <2> QED BY <1>3, <2>1, LinesThatStay DEF Ids
<1> HIDE DEF left, gone
<1>4. HasTables(t, tables.items, tables.aliases, tables.quotations, left, tables.lines,
                tables.lastId)
  BY <1>2, ImportInvParts, TableSet
<1> HIDE DEF t
<1>5. QED
  BY <1>1, <1>2, <1>3, <1>4, DeleteLinesKeeps DEF HasTables

\* A quotation that gets another url keeps its id and number.
LEMMA UpdateQuotationKeeps ==
  ASSUME ImportInv, NEW quotation \in tables.quotations, NEW url \in Urls,
         UpdateQuotation(quotation, url)
  PROVE  ImportInv'
<1> DEFINE new == [quotation EXCEPT !.url = IF url = 0 THEN @ ELSE url]
           quotations == (tables.quotations \ {quotation}) \cup {new}
           db  == [tables EXCEPT !.quotations = quotations]
<1>1. quotation \in QuotationRecord
  BY ImportInvParts DEF TableRecord
<1>2. new \in QuotationRecord /\ new.id = quotation.id /\ new.number = quotation.number
  BY <1>1 DEF QuotationRecord
<1>3. Call(db) /\ history' = history
  BY DEF UpdateQuotation, Replaced
<1> HIDE DEF new
<1>4. QuotationsSound(quotations, tables.lastId)
  BY <1>2, ImportInvParts, QuotationChanged
<1>5. quotations \in SUBSET QuotationRecord
  BY <1>4 DEF QuotationsSound
<1>6. Ids(tables.quotations) \subseteq Ids(quotations)
  BY <1>2 DEF Ids
<1> HIDE DEF quotations
<1>7. HasTables(db, tables.items, tables.aliases, quotations, tables.headers, tables.lines,
                tables.lastId)
  BY <1>5, ImportInvParts, TableSet
<1>8. LinesSound(tables.items, quotations, tables.headers, tables.lines, tables.lastId)
  BY <1>6, ImportInvParts, SameIds
<1> HIDE DEF db
<1>9. /\ Sound(db) /\ db.lastId = tables.lastId /\ db.headers \subseteq tables.headers
      /\ tables.lastId <= db.lastId
  BY <1>4, <1>7, <1>8, ImportInvParts DEF HasTables, Sound
<1>10. /\ history' \in HistoryRecord /\ history'.released = history.released
       /\ history'.renumbered = history.renumbered
  BY <1>3, ImportInvParts
<1>11. QED
  BY <1>3, <1>9, <1>10, PlainCallKeeps

\* The header keeps its id: its lines stay on it.
LEMMA HeaderChangeSound ==
  ASSUME ImportInv, NEW header \in tables.headers, NEW new \in HeaderRecord,
         new.id = header.id,
         \A r \in tables.headers : r # header => /\ r.number # new.number
                                                 /\ ~(new.url # 0 /\ r.url = new.url),
         NEW db,
         HasTables(db, tables.items, tables.aliases, tables.quotations,
                   (tables.headers \ {header}) \cup {new}, tables.lines, tables.lastId)
  PROVE  Sound(db)
<1> DEFINE headers == (tables.headers \ {header}) \cup {new}
<1>1. HeadersSound(headers, tables.lastId)
  BY ImportInvParts, HeaderChanged
<1>2. Ids(tables.headers) \subseteq Ids(headers)
  BY DEF Ids
<1> HIDE DEF headers
<1>3. LinesSound(tables.items, tables.quotations, headers, tables.lines, tables.lastId)
  BY <1>2, ImportInvParts, SameIds
<1>4. HasTables(db, tables.items, tables.aliases, tables.quotations, headers, tables.lines,
                tables.lastId)
  BY DEF headers
<1>5. QED
  BY <1>1, <1>3, <1>4, ImportInvParts DEF HasTables, Sound

\* A header that is renamed, given a url or unlocked is released when unlocked.
LEMMA UpdatePurchaseOrderKeeps ==
  ASSUME ImportInv, NEW header \in tables.headers, NEW number \in Number, NEW url \in Urls,
         NEW locked \in BOOLEAN, UpdatePurchaseOrder(header, number, url, locked)
  PROVE  ImportInv'
<1> DEFINE new == [header EXCEPT !.number = number, !.url = url, !.locked = locked]
           headers == (tables.headers \ {header}) \cup {new}
           db  == [tables EXCEPT !.headers = headers]
           more == IF locked THEN history.released ELSE history.released \cup {header.id}
           named == IF number = header.number THEN history.renumbered
                    ELSE history.renumbered \cup {header.id}
<1>1. header \in HeaderRecord /\ header.id \in Nat
  BY ImportInvParts DEF TableRecord, HeaderRecord
<1>2. /\ new \in HeaderRecord /\ new.id = header.id /\ new.number = number /\ new.url = url
      /\ new.locked = locked
  BY <1>1 DEF HeaderRecord
<1>3. /\ Call(db) /\ history' = [history EXCEPT !.released = more, !.renumbered = named]
      /\ Numbered(tables.headers, number) \subseteq {header}
      /\ WithUrl(tables, url) \subseteq {header}
  BY DEF UpdatePurchaseOrder, Replaced
<1> HIDE DEF new
<1>4. \A r \in tables.headers : r # header => /\ r.number # new.number
                                              /\ ~(new.url # 0 /\ r.url = new.url)
  BY <1>2, <1>3 DEF Numbered, WithUrl
<1>5. headers \in SUBSET HeaderRecord
  BY <1>2, ImportInvParts DEF TableRecord
<1>6. Guarded(headers, more)
  BY <1>2, ImportInvParts DEF Guarded
<1>7. HasTables(db, tables.items, tables.aliases, tables.quotations, headers, tables.lines,
                tables.lastId)
  <2> HIDE DEF headers
  <2> QED BY <1>5, ImportInvParts, TableSet
<1> HIDE DEF db
<1>8. Sound(db)
  BY <1>2, <1>4, <1>7, HeaderChangeSound
<1>9. /\ history.released \subseteq more /\ more \in SUBSET Nat
      /\ history.renumbered \subseteq named /\ named \in SUBSET Nat
  BY <1>1, ImportInvParts
<1>13. SameNumbers(headers, tables.headers, tables.lastId, named)
  BY <1>2 DEF SameNumbers
<1> HIDE DEF headers
<1> HIDE DEF more, named
<1>10. history' \in HistoryRecord /\ history'.released = more /\ history'.renumbered = named
  BY <1>3, <1>9, ImportInvParts DEF HistoryRecord
<1>11. /\ tables.lastId <= db.lastId /\ Guarded(db.headers, history'.released)
       /\ history.released \subseteq history'.released
       /\ history.renumbered \subseteq history'.renumbered
       /\ SameNumbers(db.headers, tables.headers, tables.lastId, history'.renumbered)
  BY <1>6, <1>7, <1>9, <1>10, <1>13, ImportInvParts DEF HasTables
<1>12. QED
  BY <1>3, <1>8, <1>10, <1>11, CallKeeps

\* The line's header gets the url, or the line goes to the header that has it.
LEMMA EditLineDocumentKeeps ==
  ASSUME ImportInv, NEW line \in tables.lines, NEW url \in Urls, EditLineDocument(line, url),
         MaxUrl \in Nat
  PROVE  ImportInv'
<1> DEFINE header   == TheRow(WithId(tables.headers, line.header))
           existing == Numbered(tables.headers, header.number)
           others   == WithUrl(tables, url) \ existing
           options  == GetOrCreatePurchaseOrder(tables, header.number, url, header.id)
           target   == TheRow(options)
           before   == WithId(tables.headers, target.id)
           stored   == Stored(tables, "headers", before, target)
           lines    == (stored.lines \ {line}) \cup {[line EXCEPT !.header = target.id]}
           moved    == [stored EXCEPT !.lines = lines]
           settled  == WithoutOrphans(moved, "headers", "header", {header.id})
           db       == IF target.id = header.id THEN stored ELSE settled
<1>1. Call(db) /\ options # {} /\ history' = history
  BY Zenon DEF EditLineDocument
<1>2. /\ \A r, s \in tables.headers : r.id = s.id \/ r.number = s.number => r = s
      /\ \A r \in tables.headers : r.id \in 1 .. tables.lastId
      /\ tables.headers \in SUBSET HeaderRecord
      /\ tables.lastId \in Nat
  BY ImportInvParts DEF HeadersSound
<1>3. header \in tables.headers
  <2>1. PICK r \in tables.headers : r.id = line.header
    BY ImportInvParts DEF LinesSound, Ids
  <2> QED BY <2>1 DEF WithId, TheRow
<1> HIDE DEF header
<1>4. existing = {header} /\ TheRow(existing) = header
  <2>1. existing = {header}
    BY <1>2, <1>3 DEF Numbered
  <2> QED BY <2>1 DEF TheRow
<1>5. header.id # 0 /\ existing # NoRow
  BY <1>2, <1>3, <1>4 DEF NoRow
<1>6. options = IF others # NoRow THEN others ELSE { [header EXCEPT !.url = url] }
  <2>1. options = CASE existing = NoRow ->
                         IF others = NoRow THEN { NewHeader(tables, header.number, url) } ELSE {}
                    [] existing # NoRow /\ others # NoRow -> others
                    [] existing # NoRow /\ others = NoRow -> { [header EXCEPT !.url = url] }
    BY <1>4, <1>5 DEF GetOrCreatePurchaseOrder
  <2> QED BY <1>5, <2>1
<1>7. /\ \/ others # NoRow /\ target \in tables.headers /\ target # header
         \/ others = NoRow /\ target = [header EXCEPT !.url = url]
  <2>1. CASE others # NoRow
    <3>1. target \in others
      BY <1>1, <1>6, <2>1 DEF TheRow
    <3> QED BY <1>4, <2>1, <3>1 DEF WithUrl
  <2>2. CASE others = NoRow
    BY <1>6, <2>2 DEF TheRow
  <2> QED BY <2>1, <2>2
<1>8. \A r \in tables.headers : r # header /\ others = NoRow => ~(url # 0 /\ r.url = url)
  BY <1>4 DEF WithUrl, NoRow
<1> HIDE DEF others, options, existing
<1> HIDE DEF target
<1>9. CASE others = NoRow /\ target = [header EXCEPT !.url = url]
  <2>1. header \in HeaderRecord
    BY <1>2, <1>3
  <2>2. /\ target \in HeaderRecord /\ target.id = header.id /\ target.number = header.number
        /\ target.url = url /\ target.locked = header.locked
    BY <1>9, <2>1 DEF HeaderRecord
  <2>3. before = {header}
    BY <1>2, <1>3, <2>2 DEF WithId
  <2> HIDE DEF before
  <2>4. Given(tables, before) = tables.lastId /\ before \in SUBSET HeaderRecord
    BY <2>1, <2>3 DEF Given, NoRow
  <2>5. HasTables(stored, tables.items, tables.aliases, tables.quotations,
                  (tables.headers \ {header}) \cup {target}, tables.lines, tables.lastId)
    BY <2>2, <2>3, <2>4, ImportInvParts, TableStored
  <2>6. \A r \in tables.headers : r # header => /\ r.number # target.number
                                                /\ ~(target.url # 0 /\ r.url = target.url)
    BY <1>2, <1>3, <1>8, <1>9, <2>2
  <2> HIDE DEF stored
  <2>7. Sound(stored)
    BY <1>3, <2>2, <2>5, <2>6, HeaderChangeSound
  <2>8. Guarded(stored.headers, history.released) /\ tables.lastId <= stored.lastId
    BY <1>2, <1>3, <2>2, <2>5, ImportInvParts DEF HasTables, Guarded
  <2>11. SameNumbers(stored.headers, tables.headers, tables.lastId, history.renumbered)
    BY <1>3, <2>2, <2>5 DEF HasTables, SameNumbers
  <2>9. Call(stored)
    BY <1>1, <2>2
  <2>10. /\ history' \in HistoryRecord /\ history'.released = history.released
         /\ history'.renumbered = history.renumbered
    BY <1>1, ImportInvParts
  <2> QED BY <2>7, <2>8, <2>9, <2>10, <2>11, CallKeeps
<1>10. CASE target \in tables.headers /\ target # header
  <2>1. target.id # header.id /\ target \in HeaderRecord
    BY <1>2, <1>3, <1>10
  <2>2. before = {target}
    BY <1>2, <1>10 DEF WithId
  <2> HIDE DEF before
  <2>3. /\ Given(tables, before) = tables.lastId /\ before \in SUBSET HeaderRecord
        /\ (tables.headers \ before) \cup {target} = tables.headers
    BY <1>10, <2>1, <2>2 DEF Given, NoRow
  <2>4. HasTables(stored, tables.items, tables.aliases, tables.quotations,
                  tables.headers, tables.lines, tables.lastId)
    BY <2>1, <2>3, ImportInvParts, TableStored
  <2> HIDE DEF stored
  <2>5. LinesSound(tables.items, tables.quotations, tables.headers, lines, tables.lastId)
    <3> DEFINE new == [line EXCEPT !.header = target.id]
    <3>1. line \in LineRecord /\ target.id \in Nat
      BY <1>2, <1>10, ImportInvParts DEF TableRecord
    <3>2. /\ new \in LineRecord /\ new.id = line.id /\ new.item = line.item
          /\ new.quotation = line.quotation /\ new.header = target.id
      BY <3>1 DEF LineRecord
    <3>3. /\ line.item \in Ids(tables.items) /\ line.quotation \in Ids(tables.quotations)
          /\ target.id \in Ids(tables.headers)
      BY <1>10, ImportInvParts DEF LinesSound, Ids
    <3> HIDE DEF new
    <3>4. LinesSound(tables.items, tables.quotations, tables.headers,
                     (tables.lines \ {line}) \cup {new}, tables.lastId)
      BY <3>2, <3>3, ImportInvParts, LineChanged
    <3> QED BY <2>4, <3>4 DEF new, HasTables
  <2>6. lines \in SUBSET LineRecord
    BY <2>5 DEF LinesSound
  <2> HIDE DEF lines
  <2>7. stored \in TableRecord
    BY <2>4 DEF HasTables
  <2>8. HasTables(moved, stored.items, stored.aliases, stored.quotations, stored.headers, lines,
                  stored.lastId)
    BY <2>6, <2>7, TableSet
  <2> HIDE DEF moved
  <2>9. /\ moved \in TableRecord /\ Sound(moved) /\ Guarded(moved.headers, history.released)
        /\ moved.lastId = tables.lastId /\ moved.headers = tables.headers
    BY <2>4, <2>5, <2>8, ImportInvParts DEF HasTables, Sound
  <2>10. settled = WithoutOrphans(moved, "headers", "header", {header.id})
    OBVIOUS
  <2> HIDE DEF settled
  <2>11. /\ Sound(settled) /\ settled.headers \subseteq tables.headers
         /\ settled.lastId = tables.lastId
    <3>1. /\ Sound(settled) /\ settled.lastId = moved.lastId
          /\ settled.headers \subseteq moved.headers
      BY <2>9, <2>10, HeadersOrphaned
    <3> QED BY <2>9, <3>1
  <2>12. Call(settled) /\ tables.lastId <= settled.lastId
    BY <1>1, <1>2, <2>1, <2>11
  <2>13. /\ history' \in HistoryRecord /\ history'.released = history.released
         /\ history'.renumbered = history.renumbered
    BY <1>1, ImportInvParts
  <2> QED BY <2>11, <2>12, <2>13, PlainCallKeeps
<1>11. QED
  BY <1>7, <1>9, <1>10

\* The item keeps its id: its aliases and lines stay on it.
LEMMA UpdateItemKeeps ==
  ASSUME ImportInv, NEW item \in tables.items, NEW name \in Name, NEW note \in 0 .. MaxNote,
         UpdateItem(item, name, note)
  PROVE  ImportInv'
<1> DEFINE new == [item EXCEPT !.name = name, !.note = note]
           items == (tables.items \ {item}) \cup {new}
           db  == [tables EXCEPT !.items = items]
<1>1. item \in ItemRecord
  BY ImportInvParts DEF TableRecord
<1>2. new \in ItemRecord /\ new.id = item.id /\ new.name = name
  BY <1>1 DEF ItemRecord
<1>3. Call(db) /\ history' = history /\ Named(tables.items, name) \subseteq {item}
  BY DEF UpdateItem, Replaced
<1> HIDE DEF new
<1>4. \A r \in tables.items : r # item => r.id # new.id /\ r.name # new.name
  BY <1>2, <1>3, ImportInvParts DEF ItemsSound, Named
<1>5. ItemsSound(items, tables.lastId)
  BY <1>2, <1>4, ImportInvParts DEF ItemsSound
<1>6. items \in SUBSET ItemRecord
  BY <1>5 DEF ItemsSound
<1>7. Ids(tables.items) \subseteq Ids(items)
  BY <1>2 DEF Ids
<1> HIDE DEF items
<1>8. HasTables(db, items, tables.aliases, tables.quotations, tables.headers, tables.lines,
                tables.lastId)
  BY <1>6, ImportInvParts, TableSet
<1>9. /\ AliasesSound(items, tables.aliases, tables.lastId)
      /\ LinesSound(items, tables.quotations, tables.headers, tables.lines, tables.lastId)
  BY <1>7, ImportInvParts, SameIds
<1> HIDE DEF db
<1>10. /\ Sound(db) /\ db.lastId = tables.lastId /\ db.headers \subseteq tables.headers
       /\ tables.lastId <= db.lastId
  BY <1>5, <1>8, <1>9, ImportInvParts DEF HasTables, Sound
<1>11. /\ history' \in HistoryRecord /\ history'.released = history.released
       /\ history'.renumbered = history.renumbered
  BY <1>3, ImportInvParts
<1>12. QED
  BY <1>3, <1>10, <1>11, PlainCallKeeps

\* An item goes only when no alias and no line has it.
LEMMA DeleteItemKeeps ==
  ASSUME ImportInv, NEW item \in tables.items, DeleteItem(item)
  PROVE  ImportInv'
<1> DEFINE left == tables.items \ {item}
           db   == [tables EXCEPT !.items = left]
<1>1. Call(db) /\ history' = history /\ ~Referenced(tables, item.id)
  BY DEF DeleteItem
<1>2. left \in SUBSET tables.items /\ left \in SUBSET ItemRecord
  BY ImportInvParts DEF TableRecord
<1>3. ASSUME NEW id \in Ids(tables.items), id # item.id PROVE id \in Ids(left)
  BY <1>3 DEF Ids
<1> HIDE DEF left
<1>4. /\ \A row \in tables.aliases : row.item \in Ids(left)
      /\ \A row \in tables.lines : row.item \in Ids(left)
  <2>1. \A row \in tables.aliases : row.item \in Ids(tables.items)
    BY ImportInvParts DEF AliasesSound
  <2>2. \A row \in tables.lines : row.item \in Ids(tables.items)
    BY ImportInvParts DEF LinesSound
  <2> QED BY <1>1, <1>3, <2>1, <2>2 DEF Referenced
<1>5. HasTables(db, left, tables.aliases, tables.quotations, tables.headers, tables.lines,
                tables.lastId)
  BY <1>2, ImportInvParts, TableSet
<1> HIDE DEF db
<1>6. ItemsSound(left, tables.lastId)
  BY <1>2, ImportInvParts DEF ItemsSound
<1>7. AliasesSound(left, tables.aliases, tables.lastId)
  BY <1>4, ImportInvParts DEF AliasesSound
<1>8. LinesSound(left, tables.quotations, tables.headers, tables.lines, tables.lastId)
  BY <1>4, ImportInvParts DEF LinesSound
<1>9. /\ Sound(db) /\ db.headers \subseteq tables.headers /\ tables.lastId <= db.lastId
  BY <1>5, <1>6, <1>7, <1>8, ImportInvParts DEF HasTables, Sound
<1>10. /\ history' \in HistoryRecord /\ history'.released = history.released
       /\ history'.renumbered = history.renumbered
  BY <1>1, ImportInvParts
<1>11. QED
  BY <1>1, <1>9, <1>10, PlainCallKeeps

\* An alias names an item that is there; a name has one alias.
LEMMA UpsertAliasKeeps ==
  ASSUME ImportInv, NEW name \in Name, NEW item \in tables.items, NEW units \in 1 .. MaxUnits,
         UpsertAlias(name, item, units)
  PROVE  ImportInv'
<1> DEFINE before  == Named(tables.aliases, name)
           row     == AliasRow(tables, name, item.id, units)
           aliases == (tables.aliases \ before) \cup {row}
           db      == Stored(tables, "aliases", before, row)
<1>1. Call(db) /\ history' = history
  BY DEF UpsertAlias
<1>2. item.id \in Ids(tables.items) /\ item.id \in Nat /\ units \in Nat
  BY ImportInvParts DEF Ids, TableRecord, ItemRecord
<1>3. before = Named(tables.aliases, name) /\ row = AliasRow(tables, name, item.id, units)
  OBVIOUS
<1> HIDE DEF before, row
<1>4. AliasUpsert(tables, name, item.id, before, row)
  BY <1>2, <1>3, ImportInvParts, AliasUpserted
<1>5. /\ row \in AliasRecord /\ before \in SUBSET AliasRecord
      /\ AliasesSound(tables.items, aliases, Given(tables, before))
      /\ Given(tables, before) \in Nat /\ tables.lastId <= Given(tables, before)
  BY <1>4 DEF AliasUpsert
<1>6. HasTables(db, tables.items, aliases, tables.quotations, tables.headers, tables.lines,
                Given(tables, before))
  BY <1>5, ImportInvParts, TableStored
<1> HIDE DEF aliases, db
<1>7. /\ ItemsSound(tables.items, Given(tables, before))
      /\ QuotationsSound(tables.quotations, Given(tables, before))
      /\ HeadersSound(tables.headers, Given(tables, before))
      /\ LinesSound(tables.items, tables.quotations, tables.headers, tables.lines,
                    Given(tables, before))
  BY <1>5, ImportInvParts, SoundLater
<1>8. Sound(db) /\ db.headers \subseteq tables.headers /\ tables.lastId <= db.lastId
  BY <1>5, <1>6, <1>7, ImportInvParts DEF HasTables, Sound
<1>9. /\ history' \in HistoryRecord /\ history'.released = history.released
      /\ history'.renumbered = history.renumbered
  BY <1>1, ImportInvParts
<1>10. QED
  BY <1>1, <1>8, <1>9, PlainCallKeeps

\* Nothing refers to an alias.
LEMMA DeleteAliasKeeps ==
  ASSUME ImportInv, NEW alias \in tables.aliases, DeleteAlias(alias)
  PROVE  ImportInv'
<1> DEFINE left == tables.aliases \ {alias}
           db   == [tables EXCEPT !.aliases = left]
<1>1. Call(db) /\ history' = history
  BY DEF DeleteAlias
<1>2. left \in SUBSET tables.aliases /\ left \in SUBSET AliasRecord
  BY ImportInvParts DEF TableRecord
<1> HIDE DEF left
<1>3. HasTables(db, tables.items, left, tables.quotations, tables.headers, tables.lines,
                tables.lastId)
  BY <1>2, ImportInvParts, TableSet
<1> HIDE DEF db
<1>4. AliasesSound(tables.items, left, tables.lastId)
  BY <1>2, ImportInvParts DEF AliasesSound
<1>5. Sound(db) /\ db.headers \subseteq tables.headers /\ tables.lastId <= db.lastId
  BY <1>3, <1>4, ImportInvParts DEF HasTables, Sound
<1>6. /\ history' \in HistoryRecord /\ history'.released = history.released
      /\ history'.renumbered = history.renumbered
  BY <1>1, ImportInvParts
<1>7. QED
  BY <1>1, <1>5, <1>6, PlainCallKeeps

-----------------------------------------------------------------------------
(* The theorems.                                                           *)

\* Nothing has been imported yet.
LEMMA ImportInitKeeps ==
  ASSUME ImportsAssumption, ImportInit
  PROVE  ImportInv
<1> DEFINE size == Cardinality(InitialItems)
<1>1. InitialItems \subseteq ItemRecord /\ size \in Nat
  BY FS_CardinalityType DEF ImportsAssumption
<1>2. ItemsSound(InitialItems, size)
  BY <1>1 DEF ImportsAssumption, ItemsSound
<1>3. /\ tables = [items |-> InitialItems, aliases |-> {}, quotations |-> {}, headers |-> {},
                   lines |-> {}, lastId |-> size]
      /\ history = [lineage |-> {}, linked |-> {}, released |-> {}, renumbered |-> {}]
      /\ jobs = <<>> /\ importing = [r \in Importer |-> NoImport]
  BY DEF ImportInit
<1> HIDE DEF size
<1>4. /\ tables.items = InitialItems /\ tables.aliases = {} /\ tables.quotations = {}
      /\ tables.headers = {} /\ tables.lines = {} /\ tables.lastId = size
      /\ tables \in TableRecord
  BY <1>1, <1>3 DEF TableRecord
<1>5. Sound(tables)
  BY <1>1, <1>2, <1>4 DEF Sound, AliasesSound, QuotationsSound, HeadersSound, LinesSound
<1>6. history \in HistoryRecord /\ Guarded(tables.headers, history.released)
  BY <1>3, <1>4 DEF HistoryRecord, Guarded
<1>7. JobsSound(jobs, tables.lastId)
      /\ ImportedOnceEver(jobs, history)
      /\ ImportsFound(importing, tables.headers, history, jobs)
  BY <1>3 DEF JobsSound, ImportedOnceEver, ImportsFound
<1>8. QED
  BY <1>4, <1>5, <1>6, <1>7 DEF ImportInv

\* Each kind of step keeps the invariant: imports, undos and redos,
LEMMA JobStepKeeps ==
  ASSUME ImportsAssumption, ImportInv, JobStep
  PROVE  ImportInv'
<1>1. ASSUME NEW file \in ItemFile, ImportItems(file) PROVE ImportInv'
  BY <1>1, RunItemsKeeps DEF ImportItems
<1>2. ASSUME NEW r \in Importer, NEW file \in OrderFile, ImportOrders(r, file) PROVE ImportInv'
  BY <1>2, ReportMissingKeeps, CheckOrdersKeeps DEF ImportOrders
<1>7. ASSUME NEW r \in Importer, StoreOrders(r) PROVE ImportInv'
  BY <1>7, StoreOrdersKeeps
<1>8. ASSUME NEW r \in Importer, DropOrders(r) PROVE ImportInv'
  BY <1>8, DropOrdersKeeps
<1>3. ASSUME NEW j \in DOMAIN jobs, UndoItemsJob(j) PROVE ImportInv'
  BY <1>3, UndoItemsJobKeeps
<1>4. ASSUME NEW j \in DOMAIN jobs, UndoOrdersJob(j) PROVE ImportInv'
  BY <1>4, UndoOrdersJobKeeps
<1>5. ASSUME NEW j \in DOMAIN jobs, RedoItemsJob(j) PROVE ImportInv'
  BY <1>5, RedoKeeps
<1>9. ASSUME NEW r \in Importer, NEW j \in DOMAIN jobs, RedoOrdersJob(r, j) PROVE ImportInv'
  BY <1>9, RedoKeeps
<1>6. QED
  BY <1>1, <1>2, <1>3, <1>4, <1>5, <1>7, <1>8, <1>9 DEF JobStep

\* calls on order lines,
LEMMA LineStepKeeps ==
  ASSUME ImportsAssumption, ImportInv, LineStep
  PROVE  ImportInv'
<1>1. ASSUME NEW line \in tables.lines, NEW eta \in 0 .. 1, EditLine(line, eta) PROVE ImportInv'
  BY <1>1, EditLineKeeps
<1>2. ASSUME NEW line \in tables.lines, NEW url \in Urls, EditLineDocument(line, url)
      PROVE  ImportInv'
  BY <1>2, EditLineDocumentKeeps DEF ImportsAssumption
<1>3. ASSUME NEW line \in tables.lines, ReceiveLine(line) PROVE ImportInv'
  BY <1>3, ReceiveLineKeeps
<1>4. ASSUME NEW line \in tables.lines, LinkLine(line) PROVE ImportInv'
  BY <1>4, LinkLineKeeps
<1>5. ASSUME NEW line \in tables.lines, DeleteOrder(line) PROVE ImportInv'
  BY <1>5, DeleteOrderKeeps
<1>6. QED
  BY <1>1, <1>2, <1>3, <1>4, <1>5 DEF LineStep

\* calls on headers and quotations,
LEMMA HeaderStepKeeps ==
  ASSUME ImportsAssumption, ImportInv, HeaderStep
  PROVE  ImportInv'
<1>1. ASSUME NEW quotation \in tables.quotations, DeleteQuotation(quotation) PROVE ImportInv'
  BY <1>1, DeleteQuotationKeeps
<1>2. ASSUME NEW header \in tables.headers, DeletePurchaseOrder(header) PROVE ImportInv'
  BY <1>2, DeletePurchaseOrderKeeps
<1>3. ASSUME NEW quotation \in tables.quotations, NEW url \in Urls,
             UpdateQuotation(quotation, url)
      PROVE  ImportInv'
  BY <1>3, UpdateQuotationKeeps
<1>4. ASSUME NEW header \in tables.headers, NEW number \in Number, NEW url \in Urls,
             NEW locked \in BOOLEAN, UpdatePurchaseOrder(header, number, url, locked)
      PROVE  ImportInv'
  BY <1>4, UpdatePurchaseOrderKeeps
<1>5. QED
  BY <1>1, <1>2, <1>3, <1>4 DEF HeaderStep

\* and calls on items and aliases.
LEMMA CatalogStepKeeps ==
  ASSUME ImportsAssumption, ImportInv, CatalogStep
  PROVE  ImportInv'
<1>1. ASSUME NEW item \in tables.items, NEW name \in Name, NEW note \in 0 .. MaxNote,
             UpdateItem(item, name, note)
      PROVE  ImportInv'
  BY <1>1, UpdateItemKeeps
<1>2. ASSUME NEW item \in tables.items, DeleteItem(item) PROVE ImportInv'
  BY <1>2, DeleteItemKeeps
<1>3. ASSUME NEW name \in Name, NEW item \in tables.items,
             NEW units \in 1 .. MaxUnits, UpsertAlias(name, item, units)
      PROVE  ImportInv'
  BY <1>3, UpsertAliasKeeps
<1>4. ASSUME NEW alias \in tables.aliases, DeleteAlias(alias) PROVE ImportInv'
  BY <1>4, DeleteAliasKeeps
<1>5. QED
  BY <1>1, <1>2, <1>3, <1>4 DEF CatalogStep

\* The inductive invariant: the tables are sound, a header that can be imported to was
\* released, and a recorded effect can be put back without harm to either.
THEOREM ImportInvariant == ImportSpec => []ImportInv
<1> USE ImportsAssumption
<1>1. ImportInit => ImportInv
  BY ImportInitKeeps
<1>2. ImportInv /\ [ImportNext]_importVars => ImportInv'
  <2> SUFFICES ASSUME ImportInv, [ImportNext]_importVars PROVE ImportInv'
    OBVIOUS
  <2>1. CASE JobStep
    BY <2>1, JobStepKeeps
  <2>2. CASE LineStep
    BY <2>2, LineStepKeeps
  <2>3. CASE HeaderStep
    BY <2>3, HeaderStepKeeps
  <2>4. CASE CatalogStep
    BY <2>4, CatalogStepKeeps
  <2>5. CASE UNCHANGED importVars
    BY <2>5 DEF importVars, ImportInv
  <2>6. QED
    BY <2>1, <2>2, <2>3, <2>4, <2>5 DEF ImportNext
<1>3. QED
  BY <1>1, <1>2, PTL DEF ImportSpec

\* After any imports, undos, redos, edits and deletions, in whatever order, a line has its
\* item, quotation and header, an alias its item, and no two rows share an id, a key or
\* a document url.
THEOREM TablesCorrect == ImportSpec => []TablesConsistent
<1>1. ImportInv => TablesConsistent
  <2> SUFFICES ASSUME ImportInv PROVE TablesConsistent
    OBVIOUS
  <2>1. \A line \in tables.lines :
          /\ line.item \in Ids(tables.items)
          /\ line.quotation \in Ids(tables.quotations)
          /\ line.header \in Ids(tables.headers)
    BY ImportInvParts DEF LinesSound
  <2>2. \A alias \in tables.aliases : alias.item \in Ids(tables.items)
    BY ImportInvParts DEF AliasesSound
  <2>3. /\ \A r, s \in tables.items : r.id = s.id \/ r.name = s.name => r = s
        /\ \A r, s \in tables.aliases : r.id = s.id \/ r.name = s.name => r = s
        /\ \A r, s \in tables.quotations : r.id = s.id \/ r.number = s.number => r = s
        /\ \A r, s \in tables.headers : r.id = s.id \/ r.number = s.number => r = s
        /\ \A r, s \in tables.lines : r.id = s.id => r = s
        /\ \A r, s \in tables.headers : r.url # 0 /\ r.url = s.url => r = s
    BY ImportInvParts
       DEF ItemsSound, AliasesSound, QuotationsSound, HeadersSound, LinesSound
  <2>4. /\ tables["items"] = tables.items /\ tables["aliases"] = tables.aliases
        /\ tables["quotations"] = tables.quotations /\ tables["headers"] = tables.headers
        /\ tables["lines"] = tables.lines
    OBVIOUS
  <2>5. \A table \in TableName : \A r, s \in tables[table] :
          /\ r.id = s.id => r = s
          /\ table \in {"headers", "quotations"} /\ r.number = s.number => r = s
          /\ table \in {"items", "aliases"} /\ r.name = s.name => r = s
    <3> SUFFICES ASSUME NEW table \in TableName, NEW r \in tables[table], NEW s \in tables[table]
                 PROVE  /\ r.id = s.id => r = s
                        /\ table \in {"headers", "quotations"} /\ r.number = s.number => r = s
                        /\ table \in {"items", "aliases"} /\ r.name = s.name => r = s
      OBVIOUS
    <3>1. CASE table = "items"
      BY <2>3, <2>4, <3>1
    <3>2. CASE table = "aliases"
      BY <2>3, <2>4, <3>2
    <3>3. CASE table = "quotations"
      BY <2>3, <2>4, <3>3
    <3>4. CASE table = "headers"
      BY <2>3, <2>4, <3>4
    <3>5. CASE table = "lines"
      BY <2>3, <2>4, <3>5
    <3> QED BY <3>1, <3>2, <3>3, <3>4, <3>5 DEF TableName
  <2> QED BY <2>1, <2>2, <2>3, <2>5 DEF TablesConsistent
<1>2. QED
  BY <1>1, ImportInvariant, PTL

\* A job that checked its file when another was done puts lines on a header of the other
\* only if somebody released it or gave it another number, whatever was undone, redone or
\* deleted in between, and whatever other imports are in progress.
THEOREM ImportedOnceCorrect == ImportSpec => []ImportedOnce
<1>1. ImportInv => ImportedOnce
  BY DEF ImportInv, ImportedOnceEver, ImportedOnce, Excused
<1>2. QED
  BY <1>1, ImportInvariant, PTL

-----------------------------------------------------------------------------
(* What an undo restores.                                                  *)

\* The rows of some ids are alike if those of each id are.
LEMMA AlikeAmong ==
  ASSUME NEW some, NEW other, NEW table, NEW ids,
         \A id \in ids : ButForLocks(WithId(some, id), table) = ButForLocks(WithId(other, id), table)
  PROVE  ButForLocks(Among(some, ids), table) = ButForLocks(Among(other, ids), table)
<1>1. CASE table # "headers"
  <2>1. \A rows : ButForLocks(rows, table) = rows
    BY <1>1 DEF ButForLocks
  <2>2. \A id \in ids : WithId(some, id) = WithId(other, id)
    BY <2>1
  <2>3. \A r : r.id \in ids => (r \in some <=> r \in other)
    BY <2>2 DEF WithId
  <2>4. Among(some, ids) = Among(other, ids)
    BY <2>3 DEF Among
  <2> QED BY <2>4
<1>2. CASE table = "headers"
  <2> DEFINE open(r) == [r EXCEPT !.locked = FALSE]
  <2>1. \A rows : ButForLocks(rows, table) = { open(r) : r \in rows }
    BY <1>2 DEF ButForLocks
  <2> HIDE DEF open
  <2>2. \A id \in ids : { open(r) : r \in WithId(some, id) } = { open(r) : r \in WithId(other, id) }
    BY <2>1
  <2>3. ASSUME NEW r \in some, r.id \in ids
        PROVE  \E q \in other : q.id = r.id /\ open(q) = open(r)
    <3>1. open(r) \in { open(q) : q \in WithId(some, r.id) }
      BY DEF WithId
    <3>2. open(r) \in { open(q) : q \in WithId(other, r.id) }
      BY <2>2, <2>3, <3>1
    <3> QED BY <3>2 DEF WithId
  <2>4. ASSUME NEW r \in other, r.id \in ids
        PROVE  \E q \in some : q.id = r.id /\ open(q) = open(r)
    <3>1. open(r) \in { open(q) : q \in WithId(other, r.id) }
      BY DEF WithId
    <3>2. open(r) \in { open(q) : q \in WithId(some, r.id) }
      BY <2>2, <2>4, <3>1
    <3> QED BY <3>2 DEF WithId
  <2>5. { open(r) : r \in Among(some, ids) } = { open(r) : r \in Among(other, ids) }
    BY <2>3, <2>4 DEF Among
  <2> QED BY <2>1, <2>5
<1>3. QED
  BY <1>1, <1>2

\* Of the effects on a row there is a first.
LEMMA FirstTouch ==
  ASSUME NEW effects \in Seq(Effect), NEW table, NEW id, TouchedBy(effects, table, id)
  PROVE  \E n \in DOMAIN effects :
           effects[n].table = table /\ effects[n].after.id = id /\ FirstOf(effects, n)
<1> DEFINE touching == { n \in DOMAIN effects :
                           effects[n].table = table /\ effects[n].after.id = id }
<1>1. touching \subseteq Nat /\ touching # {}
  BY DEF TouchedBy
<1>2. PICK n \in touching : \A m \in touching : n <= m
  <2> HIDE DEF touching
  <2> QED BY <1>1, LeastNumber
<1>3. ASSUME NEW m \in DOMAIN effects, m < n
      PROVE  ~(effects[m].table = table /\ effects[m].after.id = id)
  <2>1. m \in Nat /\ n \in Nat /\ ~(n <= m)
    BY <1>1, <1>3
  <2> QED BY <1>2, <2>1
<1>4. QED
  BY <1>2, <1>3 DEF FirstOf

\* What is restored of one table.
RestoredIn(entry, table) ==
  LET touched == Touched(entry, table)
  IN  /\ ButForLocks(Among(tables'[table], touched), table)
           = ButForLocks(Among(entry.was[table], touched), table)
      /\ tables'[table] \ Among(tables'[table], touched)
           = tables[table] \ Among(tables[table], touched)

\* An undo that does not stop restores each table.
LEMMA UndoRestoresTable ==
  ASSUME ImportInv, NEW j \in DOMAIN jobs, NEW db, ~db.stopped, tables' = Kept(db),
         TakenBack(Emptied(tables), db, jobs[j].effects, TablesOf(jobs[j].kind)),
         NEW table \in TableName
  PROVE  RestoredIn(jobs[j], table)
<1> DEFINE effects == jobs[j].effects
           was     == jobs[j].was
           done    == TablesOf(jobs[j].kind)
           now     == tables'[table]
           old     == tables[table]
           touched == Touched(jobs[j], table)
<1>1. /\ FirstsTell(effects, was) /\ effects \in Seq(Effect)
      /\ \A n \in DOMAIN effects : effects[n].table \in done
  <2>1. JobTells(jobs[j]) /\ jobs[j] \in JobRecord
    BY DEF ImportInv, JobsSound
  <2> QED BY <2>1 DEF JobTells, JobRecord
<1>2. now = db[table] /\ Emptied(tables)[table] = old
  <2>1. /\ tables'.items = db.items /\ tables'.aliases = db.aliases
        /\ tables'.quotations = db.quotations /\ tables'.headers = db.headers
        /\ tables'.lines = db.lines
    BY DEF Kept
  <2>2. /\ Emptied(tables).items = tables.items /\ Emptied(tables).aliases = tables.aliases
        /\ Emptied(tables).quotations = tables.quotations
        /\ Emptied(tables).headers = tables.headers /\ Emptied(tables).lines = tables.lines
    BY DEF Emptied
  <2> QED BY <2>1, <2>2, TablesByName DEF TableName
<1>3. /\ \A other \in TableName \ done : db[other] = Emptied(tables)[other]
      /\ \A other \in done : \A id :
           ~TouchedBy(effects, other, id) =>
             RowsOf(db, other, id) = RowsOf(Emptied(tables), other, id)
      /\ \A n \in DOMAIN effects :
           effects[n].table \in done /\ FirstOf(effects, n) =>
             RowsOf(db, effects[n].table, effects[n].after.id) = effects[n].before
  BY DEF TakenBack
<1>4. \A id : id \in touched <=> TouchedBy(effects, table, id)
  BY DEF Touched, TouchedBy
<1> HIDE DEF effects, was, done, touched
<1>5. ASSUME NEW id, id \notin touched PROVE WithId(now, id) = WithId(old, id)
  BY <1>2, <1>3, <1>4, <1>5 DEF RowsOf
<1>6. ASSUME NEW id \in touched
      PROVE  ButForLocks(WithId(now, id), table) = ButForLocks(WithId(was[table], id), table)
  <2>1. PICK n \in DOMAIN effects :
          effects[n].table = table /\ effects[n].after.id = id /\ FirstOf(effects, n)
    BY <1>1, <1>4, FirstTouch
  <2>2. WithId(now, id) = effects[n].before
    BY <1>1, <1>2, <1>3, <2>1 DEF RowsOf
  <2>3. ButForLocks(effects[n].before, table) = ButForLocks(WithId(was[table], id), table)
    BY <1>1, <2>1 DEF FirstsTell, RowsOf
  <2> QED BY <2>2, <2>3
<1> HIDE DEF now, old
<1>7. ButForLocks(Among(now, touched), table) = ButForLocks(Among(was[table], touched), table)
  BY <1>6, AlikeAmong
<1>8. now \ Among(now, touched) = old \ Among(old, touched)
  <2>1. \A r : r.id \notin touched => (r \in now <=> r \in old)
    BY <1>5 DEF WithId
  <2> QED BY <2>1 DEF Among
<1>9. QED
  BY <1>7, <1>8 DEF RestoredIn, now, old, was, touched

\* The jobs that a step undoes.
UndoneNow(j) == jobs'[j].undone /\ ~jobs[j].undone

\* Undoing a job undoes no other, and restores its rows.
LEMMA UndoStep ==
  ASSUME ImportInv, NEW i \in DOMAIN jobs, UndoItemsJob(i) \/ UndoOrdersJob(i),
         NEW j \in DOMAIN jobs, UndoneNow(j), NEW table \in TableName
  PROVE  RestoredIn(jobs[j], table)
<1>1. jobs \in Seq(JobRecord) /\ jobs[i] \in JobRecord
  BY DEF ImportInv, JobsSound
<1>2. /\ Sound(tables) /\ Guarded(tables.headers, history.released)
      /\ jobs[i].effects \in Seq(Effect)
      /\ EffectsSound(jobs[i].effects, tables.lastId)
  BY <1>1 DEF ImportInv, JobsSound, JobRecord
<1>3. PICK db : /\ Undo(i, db)
                /\ TakenBack(Emptied(tables), db, jobs[i].effects, TablesOf(jobs[i].kind))
  <2>1. CASE UndoItemsJob(i)
    <3> DEFINE new == ItemsReverted(tables, jobs[i].effects)
    <3>1. TakenBack(Emptied(tables), new, jobs[i].effects, CatalogTables)
      BY <1>2, ItemsRevertedFits
    <3>2. Undo(i, new) /\ TablesOf(jobs[i].kind) = CatalogTables
      BY <2>1 DEF UndoItemsJob, TablesOf
    <3> HIDE DEF new
    <3> QED BY <3>1, <3>2
  <2>2. CASE UndoOrdersJob(i)
    <3> DEFINE new == OrdersReverted(tables, jobs[i].effects)
    <3>1. TakenBack(Emptied(tables), new, jobs[i].effects, OrderTables)
      BY <1>2, OrdersRevertedFits
    <3>2. Undo(i, new) /\ TablesOf(jobs[i].kind) = OrderTables
      BY <2>2 DEF UndoOrdersJob, TablesOf
    <3> HIDE DEF new
    <3> QED BY <3>1, <3>2
  <2> QED BY <2>1, <2>2
<1>4. ~db.stopped /\ tables' = Kept(db) /\ jobs' = [jobs EXCEPT ![i].undone = TRUE]
  BY <1>3 DEF Undo
<1>5. j = i
  <2>1. j # i => jobs'[j] = jobs[j]
    BY <1>1, <1>4
  <2> QED BY <2>1 DEF UndoneNow
<1>6. QED
  BY <1>3, <1>4, <1>5, UndoRestoresTable

\* Noting a job undoes none.
LEMMA NotedUndoesNone ==
  ASSUME jobs \in Seq(JobRecord), NEW again, NEW new, jobs' = Noted(again, new),
         NEW j \in DOMAIN jobs
  PROVE  ~UndoneNow(j)
<1> DEFINE old == [i \in DOMAIN jobs |-> IF i = again THEN [jobs[i] EXCEPT !.redo = Len(jobs) + 1]
                                         ELSE jobs[i]]
<1>1. jobs' = Append(old, new)
  BY DEF Noted
<1>2. DOMAIN old = 1 .. Len(jobs) /\ Len(jobs) \in Nat /\ j \in 1 .. Len(jobs)
  OBVIOUS
<1>3. Len(old) = Len(jobs)
  BY <1>2
<1>4. jobs[j] \in JobRecord
  OBVIOUS
<1>5. old[j].undone = jobs[j].undone
  <2>1. [jobs[j] EXCEPT !.redo = Len(jobs) + 1].undone = jobs[j].undone
    BY <1>4 DEF JobRecord
  <2> QED BY <2>1
<1> HIDE DEF old
<1>6. jobs'[j] = old[j]
  BY <1>1, <1>2, <1>3
<1>7. QED
  BY <1>5, <1>6 DEF UndoneNow

\* Neither does any other call.
LEMMA CallsUndoNone ==
  ASSUME LineStep \/ HeaderStep \/ CatalogStep
  PROVE  jobs' = jobs
<1>1. ASSUME LineStep PROVE jobs' = jobs
  BY <1>1 DEF LineStep, EditLine, EditLineDocument, ReceiveLine, LinkLine, DeleteOrder,
              DeleteLines, Call
<1>2. ASSUME HeaderStep PROVE jobs' = jobs
  BY <1>2 DEF HeaderStep, DeleteQuotation, DeletePurchaseOrder, UpdateQuotation,
              UpdatePurchaseOrder, DeleteLines, Call
<1>3. ASSUME CatalogStep PROVE jobs' = jobs
  BY <1>3 DEF CatalogStep, UpdateItem, DeleteItem, UpsertAlias, DeleteAlias, Call
<1>4. QED
  BY <1>1, <1>2, <1>3

\* In any step, a job that becomes undone has its rows restored.
LEMMA RestoringStep ==
  ASSUME ImportInv, ImportNext, NEW j \in DOMAIN jobs, UndoneNow(j), NEW table \in TableName
  PROVE  RestoredIn(jobs[j], table)
<1>1. jobs \in Seq(JobRecord)
  BY DEF ImportInv, JobsSound
<1>2. ASSUME NEW i \in DOMAIN jobs, UndoItemsJob(i) \/ UndoOrdersJob(i)
      PROVE  RestoredIn(jobs[j], table)
  BY <1>2, UndoStep
<1>3. ASSUME NEW file, NEW i, RunItems(file, i) \/ ReportMissing(file, i) PROVE FALSE
  <2>1. PICK new : jobs' = Noted(i, new)
    BY <1>3 DEF RunItems, ReportMissing
  <2> QED BY <1>1, <2>1, NotedUndoesNone
<1>7. ASSUME NEW r, StoreOrders(r) PROVE FALSE
  <2>1. PICK i, new : jobs' = Noted(i, new)
    BY <1>7 DEF StoreOrders
  <2> QED BY <1>1, <2>1, NotedUndoesNone
<1>8. ASSUME NEW r, NEW file, NEW i, CheckOrders(r, file, i) \/ DropOrders(r) PROVE FALSE
  BY <1>8 DEF CheckOrders, DropOrders, UndoneNow
<1>4. CASE JobStep
  BY <1>2, <1>3, <1>4, <1>7, <1>8
     DEF JobStep, ImportItems, ImportOrders, RedoItemsJob, RedoOrdersJob
<1>5. CASE LineStep \/ HeaderStep \/ CatalogStep
  BY <1>5, CallsUndoNone DEF UndoneNow
<1>6. QED
  BY <1>4, <1>5 DEF ImportNext

\* An undo leaves every row its job touched as it was before the import, but for released
\* locks, and every other row as it is, whatever jobs and calls came in between.
THEOREM UndoRestoresCorrect == ImportSpec => UndoRestores
<1>1. ImportInv /\ [ImportNext]_importVars
        => [\A j \in DOMAIN jobs : UndoneNow(j) =>
              \A table \in TableName : RestoredIn(jobs[j], table)]_importVars
  BY RestoringStep
<1>2. QED
  BY <1>1, ImportInvariant, PTL DEF ImportSpec, UndoRestores, UndoneNow, RestoredIn
=============================================================================
